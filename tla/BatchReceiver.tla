---------------------------- MODULE BatchReceiver ----------------------------
(****************************************************************************)
(* The JetStream receiver in processing_mode "batch"                        *)
(* (receiver/jetstreamreceiver: receiver.go and receiver_batch.go).         *)
(*                                                                          *)
(* Each worker fetches a batch, terminates what it cannot decode, and makes *)
(* one downstream call for the whole batch or, with batch_group_by_subject, *)
(* one call per subject in turn.  The answer of a call goes to every        *)
(* message in it; the first group that fails ends the batch, and the groups *)
(* behind it are let go without an answer.                                  *)
(*                                                                          *)
(* Stages of an object: "fetched" in a worker's batch, "consume" in its     *)
(* current downstream call, or an answer in flight.  The order of the       *)
(* groups is that of their first messages; delivery order being abstracted, *)
(* any group may be next.  watchWorkers has no effect in this mode: workers *)
(* end only after the context is cancelled.                                 *)
(****************************************************************************)
EXTENDS JetStreamConsumer

CONSTANTS
  Workers,      \* the batch worker goroutines
  BatchMax,     \* batch_max_messages
  Subjects,     \* the subjects messages are published on
  SubjectOf,    \* the subject of each message
  Undecodable,  \* messages decodeMessage rejects
  Malformed,    \* messages the request builder rejects
  Poison,       \* messages the pipeline refuses for good
  HostCancels,  \* whether the context given to Start may end by itself
  MaxRestarts   \* crashes and reloads explored (bound)

ASSUME BatchAssumption ==
  /\ IsFiniteSet(Workers) /\ Workers # {}
  /\ BatchMax \in Nat \ {0}
  /\ SubjectOf \in [Msgs -> Subjects]
  /\ Undecodable \subseteq Msgs /\ Malformed \subseteq Msgs
  /\ Poison \subseteq Msgs
  /\ HostCancels \in BOOLEAN
  /\ MaxRestarts \in Nat

VARIABLES
  grouped,      \* batch_group_by_subject
  life,         \* where Start and Shutdown are
  conn,         \* the NATS connection is open
  restarts,     \* restarts so far
  ctxDone,      \* runCtx has been cancelled
  worker,       \* where each worker is in processBatchOnce
  held,         \* the messages of its batch it has not answered yet
  offered, accepted, refused

downstreamVars == <<offered, accepted, refused>>
lifeVars == <<grouped, life, conn, restarts, ctxDone>>
vars == <<consumerVars, lifeVars, worker, held, downstreamVars>>

D == INSTANCE Downstream WITH Recipients <- Msgs, AcceptCap <- ExpiryCap + 1

Unreadable == Undecodable \union Malformed
Subject(o) == SubjectOf[Msg(o)]
MsgsOf(S) == {Msg(o) : o \in S}

AllGone == \A w \in Workers : worker[w] = "gone"
Call(w) == {o \in held[w] : stage[o] = "consume"}

Stages == {"fetched", "consume"}

Init ==
  /\ ConsumerInit /\ D!DownstreamInit
  /\ grouped \in BOOLEAN
  /\ life = "new" /\ conn = FALSE /\ restarts = 0 /\ ctxDone = FALSE
  /\ worker = [w \in Workers |-> "gone"]
  /\ held = [w \in Workers |-> {}]

------------------------------------------------------------------------------
(* processBatchOnce and handleMessages, one worker.                         *)

(* What is left of the batch decides whether the loop over the groups goes  *)
(* on or the worker starts over.                                            *)
Keep(w, S) ==
  /\ held' = [held EXCEPT ![w] = S]
  /\ worker' = [worker EXCEPT ![w] = IF S = {} THEN "top" ELSE "group"]

FetchBegins(w) ==
  /\ worker[w] = "top" /\ ~ctxDone
  /\ worker' = [worker EXCEPT ![w] = "fetch"]
  /\ UNCHANGED <<consumerVars, lifeVars, held, downstreamVars>>

FetchDelivers(w, o) ==
  /\ worker[w] = "fetch" /\ Cardinality(held[w]) < BatchMax
  /\ Deliver(o, "fetched")
  /\ held' = [held EXCEPT ![w] = @ \union {o}]
  /\ UNCHANGED <<lifeVars, worker, downstreamVars>>

(* The fetch is full, timed out, failed or was cancelled.  Whatever arrived *)
(* is handled; what cannot be decoded is terminated first, and the result   *)
(* of that Term ignored.                                                    *)
FetchEnds(w) ==
  LET bad == {o \in held[w] : Msg(o) \in Undecodable} IN
  /\ worker[w] = "fetch"
  /\ \E failed \in SUBSET bad : Answer(bad, "term", failed, {})
  /\ Keep(w, held[w] \ bad)
  /\ UNCHANGED <<lifeVars, downstreamVars>>

(* Operators named <Action>_<Change> are not part of the specification:     *)
(* they are the faults the properties are tried against.                    *)
Groups_Merged(w) == {held[w]}

Groups(w) ==
  IF grouped
    THEN {{o \in held[w] : Subject(o) = s} : s \in {Subject(o) : o \in held[w]}}
    ELSE {held[w]}

(* Building the request of a group terminates its malformed messages; a     *)
(* group without valid messages makes no call.                              *)
CallBegins(w, G) ==
  LET bad == {o \in G : Msg(o) \in Malformed}
      valid == G \ bad IN
  /\ worker[w] = "group"
  /\ \E failed \in SUBSET bad :
       stage' = [o \in Objs |-> IF o \in failed THEN "free"
                                ELSE IF o \in bad THEN "term"
                                ELSE IF o \in valid THEN "consume" ELSE stage[o]]
  /\ IF valid = {}
       THEN Keep(w, held[w] \ bad)
       ELSE /\ held' = [held EXCEPT ![w] = @ \ bad]
            /\ worker' = [worker EXCEPT ![w] = "consume"]
  /\ D!Offer(MsgsOf(valid))
  /\ UNCHANGED <<serverVars, lifeVars>>

(* The call returned.  Every message of it gets the answer, and ends ends   *)
(* the batch: the messages of the groups not reached are let go.            *)
CallReturns(w, answer, failed, ends) ==
  LET dropped == IF ends THEN held[w] \ Call(w) ELSE {} IN
  /\ worker[w] = "consume"
  /\ Answer(Call(w), answer, failed, dropped)
  /\ Keep(w, (held[w] \ Call(w)) \ dropped)
  /\ UNCHANGED lifeVars

CallOk_AcksBatch(w) ==
  /\ worker[w] = "consume"
  /\ Answer(held[w], "ack", {}, {}) /\ Keep(w, {})
  /\ UNCHANGED lifeVars
  /\ D!Accept(MsgsOf(Call(w)))

CallOk_OnlyFirstGroup(w) ==
  /\ \E failed \in SUBSET Call(w) : CallReturns(w, "ack", failed, TRUE)
  /\ D!Accept(MsgsOf(Call(w)))

CallOk_NaksOnAckError(w) ==
  /\ \E ends \in BOOLEAN :
       CallReturns(w, IF ends THEN "nak" ELSE "ack", {}, ends)
  /\ D!Accept(MsgsOf(Call(w)))

(* ackDecodedMessages reports the Acks that failed to leave as an error.    *)
CallOk(w) ==
  /\ \E failed \in SUBSET Call(w) : CallReturns(w, "ack", failed, failed # {})
  /\ D!Accept(MsgsOf(Call(w)))

CallRetryable_InProgress(w) ==
  CallReturns(w, "inprogress", {}, TRUE) /\ UNCHANGED downstreamVars

CallRetryable_WorkerDies(w) ==
  /\ worker[w] = "consume"
  /\ Answer(Call(w), "nak", {}, held[w] \ Call(w))
  /\ held' = [held EXCEPT ![w] = {}]
  /\ worker' = [worker EXCEPT ![w] = "gone"]
  /\ UNCHANGED <<lifeVars, downstreamVars>>

CallRetryable(w) ==
  /\ \E failed \in SUBSET Call(w) : CallReturns(w, "nak", failed, TRUE)
  /\ UNCHANGED downstreamVars

CallPermanent_TermsBatch(w) ==
  /\ worker[w] = "consume"
  /\ Answer(held[w], "term", {}, {}) /\ Keep(w, {})
  /\ UNCHANGED lifeVars
  /\ D!Refuse(MsgsOf(Call(w)))

CallPermanent(w) ==
  /\ \E failed \in SUBSET Call(w) : CallReturns(w, "term", failed, TRUE)
  /\ D!Refuse(MsgsOf(Call(w)))

WorkerExits_Never(w) == FALSE

WorkerExits(w) ==
  /\ worker[w] = "top" /\ ctxDone
  /\ worker' = [worker EXCEPT ![w] = "gone"]
  /\ UNCHANGED <<consumerVars, lifeVars, held, downstreamVars>>

------------------------------------------------------------------------------
(* Start, Shutdown, and the end of the process.                             *)

StartWorkers ==
  /\ life = "new"
  /\ life' = "running" /\ conn' = TRUE /\ ctxDone' = FALSE
  /\ worker' = [w \in Workers |-> "top"]
  /\ UNCHANGED <<consumerVars, downstreamVars, grouped, restarts, held>>

HostCancelsStart ==
  /\ HostCancels /\ life = "running" /\ ~ctxDone
  /\ ctxDone' = TRUE
  /\ UNCHANGED <<consumerVars, downstreamVars, grouped, life, conn, restarts,
                 worker, held>>

ShutdownCancels ==
  /\ life = "running"
  /\ life' = "closing" /\ ctxDone' = TRUE
  /\ UNCHANGED <<consumerVars, downstreamVars, grouped, conn, restarts,
                 worker, held>>

ShutdownEnds_NoWait ==
  /\ life = "closing"
  /\ life' = "stopped" /\ conn' = FALSE
  /\ UNCHANGED <<consumerVars, downstreamVars, grouped, restarts, ctxDone,
                 worker, held>>

ShutdownEnds ==
  /\ life = "closing" /\ AllGone
  /\ life' = "stopped" /\ conn' = FALSE
  /\ UNCHANGED <<consumerVars, downstreamVars, grouped, restarts, ctxDone,
                 worker, held>>

Restart ==
  /\ life # "new" /\ restarts < MaxRestarts
  /\ ProcessDies
  /\ life' = "new" /\ conn' = FALSE /\ restarts' = restarts + 1
  /\ ctxDone' = FALSE
  /\ worker' = [w \in Workers |-> "gone"]
  /\ held' = [w \in Workers |-> {}]
  /\ UNCHANGED <<downstreamVars, grouped>>

------------------------------------------------------------------------------
Lifecycle ==
  StartWorkers \/ HostCancelsStart \/ ShutdownCancels \/ ShutdownEnds \/ Restart

Returns(w) == CallOk(w) \/ CallRetryable(w) \/ CallPermanent(w)

WorkerStep(w) ==
  \/ FetchBegins(w) \/ FetchEnds(w) \/ WorkerExits(w) \/ Returns(w)
  \/ \E G \in Groups(w) : CallBegins(w, G)

(* A worker that fetches has a pull request at the server; so may a process *)
(* that died.                                                               *)
PullOutstanding ==
  \/ life # "running"
  \/ \E w \in Workers : worker[w] = "fetch" /\ Cardinality(held[w]) < BatchMax

ReceiverIdle == UNCHANGED <<lifeVars, worker, held, downstreamVars>>

Server ==
  /\ \/ ServerStep
     \/ PullOutstanding /\ \E m \in Msgs : DeliveryLost(m)
  /\ ReceiverIdle

Next ==
  \/ Lifecycle
  \/ \E w \in Workers : WorkerStep(w)
  \/ \E w \in Workers, o \in Objs : FetchDelivers(w, o)
  \/ Server

Spec == Init /\ [][Next]_vars

------------------------------------------------------------------------------
(* Properties.                                                              *)

TypeOK ==
  /\ ConsumerTypeOK(Stages) /\ D!DownstreamTypeOK
  /\ grouped \in BOOLEAN /\ conn \in BOOLEAN /\ ctxDone \in BOOLEAN
  /\ life \in {"new", "running", "closing", "stopped"}
  /\ restarts \in 0..MaxRestarts
  /\ worker \in [Workers -> {"top", "fetch", "group", "consume", "gone"}]
  /\ held \in [Workers -> SUBSET Objs]

(* The batch receiver keeps the same at-least-once contract: no mixture of  *)
(* good, malformed and refused messages in one batch, and no failure in the *)
(* middle of its groups, settles a message the pipeline neither took nor    *)
(* refused.                                                                 *)
A == INSTANCE AtLeastOnce
       WITH Messages <- Msgs, Bad <- Unreadable,
            taken <- {m \in Msgs : accepted[m] > 0},
            rejected <- refused,
            acknowledged <- {m \in Msgs : status[m] = "acked"},
            discarded <- {m \in Msgs : status[m] = "termed"}
AtLeastOnceDelivery == A!Spec

(* The pipeline takes a message twice only when AckWait expired on it: the  *)
(* groups let go unanswered are not handed back, so they cannot reach       *)
(* another worker while their answer is open.                               *)
DuplicatesNeedExpiry ==
  \A m \in Msgs : expired[m] < ExpiryCap => accepted[m] <= 1 + expired[m]

(* The connection is closed only when every worker has returned, with no    *)
(* message left in a batch or in a downstream call.                         *)
ConnectionOutlivesWork ==
  ~conn => AllGone /\ \A o \in Objs : stage[o] \notin Stages

(* With batch_group_by_subject, a downstream call has exactly one subject   *)
(* value, as the components behind it require.                              *)
OneSubjectPerCall ==
  grouped => \A w \in Workers : \A o, p \in Call(w) : Subject(o) = Subject(p)

(* With batch_group_by_subject, a permanent refusal reaches only messages   *)
(* on the subject of the message that caused it; a readable message on      *)
(* another subject is never terminated for it.                              *)
RefusalStaysInSubject ==
  grouped => \A m \in Msgs \ Unreadable :
    status[m] = "termed" => \E p \in Poison : SubjectOf[p] = SubjectOf[m]

(* A fetched message is let go without an answer only when the process ends *)
(* or when a call of its own batch ended without acknowledging everything:  *)
(* a batch that meets no failure answers every message of it.               *)
StrandedOnlyAfterFailure ==
  [][\A w \in Workers : \A o \in held[w] :
       stage[o] = "fetched" /\ stage'[o] = "free" /\ restarts' = restarts
       => \/ Msg(o) \in Unreadable
          \/ grouped /\ \E p \in Call(w) : stage'[p] # "ack"]_vars

------------------------------------------------------------------------------
(* Fairness: the Go scheduler runs every goroutine that can run, a fetch    *)
(* ends by its timeout, and a downstream call returns.                      *)
ReceiverFairness ==
  /\ WF_vars(StartWorkers) /\ WF_vars(ShutdownEnds)
  /\ \A w \in Workers : WF_vars(WorkerStep(w))

(* For the messages of H: the server's redelivery queue is FIFO, AckWait    *)
(* expires on a message nobody answers, the calls that hold the message do  *)
(* not fail forever, and not all its Acks fail or are lost.                 *)
DeliveryFairness(H) ==
  /\ \A m \in H :
       /\ WF_vars(AckWaitExpires(m) /\ ReceiverIdle)
       /\ SF_vars(\E w \in Workers, c \in Copies : FetchDelivers(w, <<m, c>>))
       /\ SF_vars(\E w \in Workers, c \in Copies :
                    CallOk(w) /\ <<m, c>> \in Call(w) /\ stage'[<<m, c>>] = "ack")
       /\ SF_vars(\E c \in Copies : AckArrives(<<m, c>>) /\ ReceiverIdle)
  /\ \A o \in Objs : WF_vars(AnswerEnds(o) /\ ReceiverIdle)

(* Shutdown returns: every worker leaves its loop after the batch it is on. *)
ShutdownTerminates == life = "closing" ~> life # "closing"

(* When no call fails forever, every message is settled while the receiver  *)
(* runs, although each failure lets go the groups behind it.                *)
HealthySettled(H) ==
  \A m \in H :
    life = "running" ~> Settled(m) \/ life # "running" \/ ctxDone
==============================================================================
