-------------------------- MODULE JetStreamConsumer --------------------------
(****************************************************************************)
(* The durable pull consumer the receivers attach to.                       *)
(*                                                                          *)
(* The NATS server and the nats.go client library are not in this           *)
(* repository; what they do is modelled from how the receiver uses them:    *)
(* the consumer is created with AckExplicit, an AckWait timer and           *)
(* MaxDeliver (pkg/jetstream), messages reach the process as jetstream.Msg  *)
(* objects, and every object is answered with Ack, Nak, NakWithDelay or     *)
(* TermWithReason, none of which waits for the server.                      *)
(*                                                                          *)
(* The server keeps, for each message of the stream, whether it may be      *)
(* delivered, is awaiting an answer, or is settled.  A delivery is a        *)
(* client-side object, so the copies of one message that exist after an     *)
(* expired AckWait are told apart.  An answer in flight is a stage of the   *)
(* object it was given on.                                                  *)
(*                                                                          *)
(* Time is abstracted: AckWait may expire at any moment while an answer is  *)
(* awaited, and a ready message may stay undelivered for any time, so the   *)
(* delay of NakWithDelay and the restart of AckWait by InProgress change    *)
(* nothing here.  Delivery order is abstracted: any ready message may be    *)
(* next.  MaxAckPending is not modelled.                                    *)
(****************************************************************************)
EXTENDS Naturals, FiniteSets

CONSTANTS
  Msgs,        \* the messages of the stream the consumer filters
  Copies,      \* tells apart the jetstream.Msg objects of one message that
               \* exist at one time (bound)
  MaxDeliver,  \* delivery attempts per message, 0 for no limit
  ExpiryCap    \* AckWait expiries per message told apart (bound)

ASSUME ConsumerAssumption ==
  /\ IsFiniteSet(Msgs) /\ IsFiniteSet(Copies)
  /\ MaxDeliver \in Nat
  /\ ExpiryCap \in Nat

VARIABLES
  status,      \* the server's view of each message
  delivered,   \* deliveries of each message, counted up to MaxDeliver
  expired,     \* history: AckWait expiries of each message, up to ExpiryCap
  stage        \* where each client-side object is

serverVars == <<status, delivered, expired>>
consumerVars == <<status, delivered, expired, stage>>

(* The object <<m, c>> is copy c of message m; "free" when there is none.   *)
Objs == Msgs \X Copies
Msg(o) == o[1]

Statuses == {"ready", "pending", "acked", "termed"}

(* An answer the process has published and the server has not seen yet. *)
Wire == {"ack", "nak", "term"}

Settled(m) == status[m] \in {"acked", "termed"}

ConsumerInit ==
  /\ status = [m \in Msgs |-> "ready"]
  /\ delivered = [m \in Msgs |-> 0]
  /\ expired = [m \in Msgs |-> 0]
  /\ stage = [o \in Objs |-> "free"]

Deliverable(m) ==
  /\ status[m] = "ready"
  /\ MaxDeliver = 0 \/ delivered[m] < MaxDeliver

CountDelivery(m) ==
  /\ status' = [status EXCEPT ![m] = "pending"]
  /\ delivered' = [delivered EXCEPT
                     ![m] = IF @ < MaxDeliver THEN @ + 1 ELSE @]
  /\ UNCHANGED expired

(* The server hands a message to the process as the object o, which waits   *)
(* at the stage s: the receive buffer or a worker's fetch.                  *)
Deliver(o, s) ==
  /\ stage[o] = "free"
  /\ Deliverable(Msg(o))
  /\ CountDelivery(Msg(o))
  /\ stage' = [stage EXCEPT ![o] = s]

(* A delivery the server sent in answer to a pull request and counted, but  *)
(* which never reaches the process.                                         *)
DeliveryLost(m) ==
  /\ Deliverable(m)
  /\ CountDelivery(m)
  /\ UNCHANGED stage

AckWaitExpires(m) ==
  /\ status[m] = "pending"
  /\ status' = [status EXCEPT ![m] = "ready"]
  /\ expired' = [expired EXCEPT ![m] = IF @ < ExpiryCap THEN @ + 1 ELSE @]
  /\ UNCHANGED <<delivered, stage>>

(* An Ack or a Term settles the message whichever delivery it answers.      *)
AckArrives(o) ==
  /\ stage[o] = "ack"
  /\ stage' = [stage EXCEPT ![o] = "free"]
  /\ status' = [status EXCEPT ![Msg(o)] = IF Settled(Msg(o)) THEN @ ELSE "acked"]
  /\ UNCHANGED <<delivered, expired>>

TermArrives(o) ==
  /\ stage[o] = "term"
  /\ stage' = [stage EXCEPT ![o] = "free"]
  /\ status' = [status EXCEPT ![Msg(o)] = IF Settled(Msg(o)) THEN @ ELSE "termed"]
  /\ UNCHANGED <<delivered, expired>>

(* A Nak of any delivery makes a pending message ready again.               *)
NakArrives(o) ==
  /\ stage[o] = "nak"
  /\ stage' = [stage EXCEPT ![o] = "free"]
  /\ status' = [status EXCEPT ![Msg(o)] = IF @ = "pending" THEN "ready" ELSE @]
  /\ UNCHANGED <<delivered, expired>>

AnswerLost(o) ==
  /\ stage[o] \in Wire
  /\ stage' = [stage EXCEPT ![o] = "free"]
  /\ UNCHANGED <<status, delivered, expired>>

(* The client library returned answer a to the receiver for the objects     *)
(* answered, except for those in failed: their publish returned an error    *)
(* and nothing left the process.  The objects of dropped are let go         *)
(* without an answer.  The server learns of it later, if at all.            *)
Answer(answered, a, failed, dropped) ==
  /\ stage' = [o \in Objs |->
                 IF o \in dropped \union (answered \intersect failed) THEN "free"
                 ELSE IF o \in answered THEN a ELSE stage[o]]
  /\ UNCHANGED <<status, delivered, expired>>

AnswerEnds(o) ==
  AckArrives(o) \/ TermArrives(o) \/ NakArrives(o) \/ AnswerLost(o)

ServerStep ==
  \/ \E m \in Msgs : AckWaitExpires(m)
  \/ \E o \in Objs : AnswerEnds(o)

(* The process dies: every object it holds is gone, the answers already on  *)
(* the wire may still arrive.                                               *)
ProcessDies ==
  /\ stage' = [o \in Objs |-> IF stage[o] \in Wire THEN stage[o] ELSE "free"]
  /\ UNCHANGED <<status, delivered, expired>>

ConsumerTypeOK(stages) ==
  /\ status \in [Msgs -> Statuses]
  /\ delivered \in [Msgs -> 0..MaxDeliver]
  /\ expired \in [Msgs -> 0..ExpiryCap]
  /\ stage \in [Objs -> stages \union Wire \union {"free"}]
==============================================================================
