------------------------ MODULE SingleReceiver_proofs ------------------------
(****************************************************************************)
(* Proofs about SingleReceiver, for every set of messages, workers, copies  *)
(* and every bound.  Ownership and Phases say who works on what while Start *)
(* and Shutdown proceed; Justified, what each answer rests on; AttemptsTo-  *)
(* Come and AcceptancesToCome count what may still happen to a message.     *)
(* Each property of the receiver follows from their conjunction IInv, which *)
(* every step preserves.                                                    *)
(****************************************************************************)
EXTENDS SingleReceiver, FiniteSetTheorems, TLAPS

------------------------------------------------------------------------------
(* The consumer: what each of its steps does to the types and to how often  *)
(* a message may still be accepted.  BatchReceiver_proofs rests on          *)
(* the same lemmas.                                                         *)

(* Whether the server may hand m out, as a number of deliveries to come.    *)
Ready(m) == IF status[m] = "ready" THEN 1 ELSE 0

(* The objects of m that may still lead to an acceptance: those at a stage  *)
(* of S inside the process, and the Naks that would make m ready again.     *)
Live(S, m) == {o \in Objs : Msg(o) = m /\ stage[o] \in S \union {"nak"}}

(* How often m may still be accepted if AckWait never expires on it again.  *)
ToCome(S, m) == Cardinality(Live(S, m)) + Ready(m)

(* Every object is a copy of a message of the stream.                       *)
LEMMA MsgOfObject == \A o \in Objs : Msg(o) \in Msgs
  BY DEF Objs, Msg

(* Handing a message to the process keeps the types.                        *)
LEMMA DeliverType ==
  ASSUME NEW S, NEW s \in S, NEW o \in Objs, ConsumerTypeOK(S), Deliver(o, s)
  PROVE  ConsumerTypeOK(S)'
<1> Msg(o) \in Msgs
  BY MsgOfObject
<1>1. status' \in [Msgs -> Statuses] /\ expired' \in [Msgs -> 0..ExpiryCap]
  BY DEF Deliver, CountDelivery, ConsumerTypeOK, Statuses
<1>2. delivered' \in [Msgs -> 0..MaxDeliver]
  BY ConsumerAssumption DEF Deliver, CountDelivery, ConsumerTypeOK
<1>3. stage' \in [Objs -> S \union Wire \union {"free"}]
  BY DEF Deliver, ConsumerTypeOK
<1> QED
  BY <1>1, <1>2, <1>3 DEF ConsumerTypeOK

(* So does a delivery that is lost on its way.                              *)
LEMMA DeliveryLostType ==
  ASSUME NEW S, NEW m \in Msgs, ConsumerTypeOK(S), DeliveryLost(m)
  PROVE  ConsumerTypeOK(S)'
<1>1. delivered' \in [Msgs -> 0..MaxDeliver]
  BY ConsumerAssumption DEF DeliveryLost, CountDelivery, ConsumerTypeOK
<1> QED
  BY <1>1 DEF DeliveryLost, CountDelivery, ConsumerTypeOK, Statuses

(* So do an expiry and the end of an answer in flight.                      *)
LEMMA ServerStepType ==
  ASSUME NEW S, ConsumerTypeOK(S), ServerStep
  PROVE  ConsumerTypeOK(S)'
<1>1. ASSUME NEW m \in Msgs, AckWaitExpires(m) PROVE ConsumerTypeOK(S)'
  <2>1. expired' \in [Msgs -> 0..ExpiryCap]
    BY <1>1, ConsumerAssumption DEF AckWaitExpires, ConsumerTypeOK
  <2> QED
    BY <1>1, <2>1 DEF AckWaitExpires, ConsumerTypeOK, Statuses
<1>2. ASSUME NEW o \in Objs, AnswerEnds(o) PROVE ConsumerTypeOK(S)'
  <2>1. Msg(o) \in Msgs
    BY MsgOfObject
  <2>2. stage' \in [Objs -> S \union Wire \union {"free"}]
    BY <1>2 DEF AnswerEnds, AckArrives, TermArrives, NakArrives, AnswerLost,
                ConsumerTypeOK
  <2>3. status' \in [Msgs -> Statuses]
    BY <1>2, <2>1 DEF AnswerEnds, AckArrives, TermArrives, NakArrives, AnswerLost,
                ConsumerTypeOK, Statuses
  <2> QED
    BY <1>2, <2>2, <2>3 DEF AnswerEnds, AckArrives, TermArrives, NakArrives,
                            AnswerLost, ConsumerTypeOK
<1> QED
  BY <1>1, <1>2 DEF ServerStep

(* The server by itself moves no object but an answer in flight.            *)
LEMMA ServerStepStages ==
  ASSUME NEW S, ConsumerTypeOK(S), ServerStep, NEW x \in Objs
  PROVE  stage'[x] = stage[x] \/ (stage[x] \in Wire /\ stage'[x] = "free")
<1>1. ASSUME NEW m \in Msgs, AckWaitExpires(m) PROVE stage' = stage
  BY <1>1 DEF AckWaitExpires
<1>2. ASSUME NEW o \in Objs, AnswerEnds(o)
      PROVE  stage[o] \in Wire /\ stage' = [stage EXCEPT ![o] = "free"]
  BY <1>2 DEF AnswerEnds, AckArrives, TermArrives, NakArrives, AnswerLost, Wire
<1>3. stage \in [Objs -> S \union Wire \union {"free"}]
  BY DEF ConsumerTypeOK
<1> QED
  BY <1>1, <1>2, <1>3 DEF ServerStep

(* So does an answer of the process, and the end of the process.            *)
LEMMA AnswerType ==
  ASSUME NEW S, NEW answered, NEW a \in S \union Wire, NEW failed, NEW dropped,
         ConsumerTypeOK(S), Answer(answered, a, failed, dropped)
  PROVE  ConsumerTypeOK(S)'
  BY DEF Answer, ConsumerTypeOK

LEMMA ProcessDiesType ==
  ASSUME NEW S, ConsumerTypeOK(S), ProcessDies
  PROVE  ConsumerTypeOK(S)'
  BY DEF ProcessDies, ConsumerTypeOK

------------------------------------------------------------------------------
(* How the acceptances to come change.                                      *)

LEMMA ObjectSets ==
  \A L \in SUBSET Objs : IsFiniteSet(L) /\ Cardinality(L) \in Nat
<1>1. IsFiniteSet(Objs)
  BY ConsumerAssumption, FS_Product DEF Objs
<1> QED
  BY <1>1, FS_Subset, FS_CardinalityType

LEMMA ToComeNat ==
  ASSUME NEW S, NEW m \in Msgs
  PROVE  ToCome(S, m) \in Nat /\ Ready(m) \in Nat
<1>1. Live(S, m) \in SUBSET Objs
  BY DEF Live
<1>2. Cardinality(Live(S, m)) \in Nat
  BY <1>1, ObjectSets
<1> QED
  BY <1>2 DEF ToCome, Ready

(* A step that leaves the server's records alone and gives m no new live    *)
(* object adds nothing to come.                                             *)
LEMMA NothingNew ==
  ASSUME NEW S, NEW m \in Msgs, UNCHANGED serverVars,
         Live(S, m)' \subseteq Live(S, m)
  PROVE  /\ ToCome(S, m)' \in Nat /\ ToCome(S, m) \in Nat
         /\ ToCome(S, m)' <= ToCome(S, m)
<1>1. Live(S, m) \in SUBSET Objs /\ Live(S, m)' \in SUBSET Objs
  BY DEF Live
<1>2. Cardinality(Live(S, m)') <= Cardinality(Live(S, m))
  BY <1>1, ObjectSets, FS_Subset
<1>3. Cardinality(Live(S, m)) \in Nat /\ Cardinality(Live(S, m)') \in Nat
  BY <1>1, ObjectSets
<1> QED
  BY <1>2, <1>3 DEF ToCome, Ready, serverVars

(* One that ends a live object of m takes one away.                         *)
LEMMA OneLess ==
  ASSUME NEW S, NEW m \in Msgs, UNCHANGED serverVars, NEW o \in Live(S, m),
         Live(S, m)' \subseteq Live(S, m) \ {o}
  PROVE  /\ ToCome(S, m)' \in Nat /\ ToCome(S, m) \in Nat
         /\ ToCome(S, m)' + 1 <= ToCome(S, m)
<1>1. /\ Live(S, m) \in SUBSET Objs /\ Live(S, m)' \in SUBSET Objs
      /\ Live(S, m) \ {o} \in SUBSET Objs
  BY DEF Live
<1>2. /\ Cardinality(Live(S, m)') <= Cardinality(Live(S, m) \ {o})
      /\ Cardinality(Live(S, m) \ {o}) = Cardinality(Live(S, m)) - 1
  BY <1>1, ObjectSets, FS_Subset, FS_RemoveElement
<1>3. Cardinality(Live(S, m)) \in Nat /\ Cardinality(Live(S, m)') \in Nat
  BY <1>1, ObjectSets
<1> QED
  BY <1>2, <1>3 DEF ToCome, Ready, serverVars

(* A delivery turns what was to come into a live object, at most.           *)
LEMMA DeliverToCome ==
  ASSUME NEW S, NEW m \in Msgs, NEW s, NEW o \in Objs,
         ConsumerTypeOK(S), Deliver(o, s)
  PROVE  /\ ToCome(S, m)' \in Nat /\ ToCome(S, m) \in Nat
         /\ ToCome(S, m)' <= ToCome(S, m) /\ expired' = expired
<1>1. /\ status \in [Msgs -> Statuses]
      /\ stage \in [Objs -> S \union Wire \union {"free"}]
      /\ Msg(o) \in Msgs
  BY MsgOfObject DEF ConsumerTypeOK
<1>2. /\ status[Msg(o)] = "ready" /\ expired' = expired
      /\ status' = [status EXCEPT ![Msg(o)] = "pending"]
      /\ stage' = [stage EXCEPT ![o] = s]
  BY DEF Deliver, Deliverable, CountDelivery
<1>3. Live(S, m) \in SUBSET Objs /\ Live(S, m)' \in SUBSET Objs
  BY DEF Live
<1>4. /\ Cardinality(Live(S, m)) \in Nat /\ Cardinality(Live(S, m)') \in Nat
      /\ IsFiniteSet(Live(S, m))
  BY <1>3, ObjectSets
<1>5. CASE Msg(o) = m
  <2>1. Live(S, m)' \subseteq Live(S, m) \union {o}
    BY <1>1, <1>2 DEF Live
  <2>2. Cardinality(Live(S, m)') <= Cardinality(Live(S, m)) + 1
    <3>1. IsFiniteSet(Live(S, m) \union {o})
      BY <1>4, FS_AddElement
    <3>2. Cardinality(Live(S, m)') <= Cardinality(Live(S, m) \union {o})
      BY <2>1, <3>1, FS_Subset
    <3>3. Cardinality(Live(S, m) \union {o}) \in
            {Cardinality(Live(S, m)), Cardinality(Live(S, m)) + 1}
      BY <1>4, FS_AddElement
    <3> QED
      BY <3>2, <3>3, <1>4
  <2>3. Ready(m) = 1 /\ Ready(m)' = 0
    BY <1>1, <1>2, <1>5 DEF Ready
  <2> QED
    BY <1>2, <1>4, <2>2, <2>3 DEF ToCome
<1>6. CASE Msg(o) # m
  <2>1. Live(S, m)' \subseteq Live(S, m)
    BY <1>1, <1>2, <1>6 DEF Live
  <2>2. Cardinality(Live(S, m)') <= Cardinality(Live(S, m))
    BY <2>1, <1>4, FS_Subset
  <2>3. Ready(m)' = Ready(m) /\ Ready(m) \in Nat
    BY <1>1, <1>2, <1>6 DEF Ready
  <2> QED
    BY <1>2, <1>4, <2>2, <2>3 DEF ToCome
<1> QED
  BY <1>5, <1>6

(* The server adds an acceptance to come only by an expiry: a Nak that      *)
(* arrives trades its object for a delivery, a lost delivery takes one.     *)
LEMMA ServerToCome ==
  ASSUME NEW S, "free" \notin S, NEW m \in Msgs, ConsumerTypeOK(S),
         expired'[m] < ExpiryCap, ServerStep \/ \E n \in Msgs : DeliveryLost(n)
  PROVE  /\ ToCome(S, m)' \in Nat /\ ToCome(S, m) \in Nat
         /\ expired[m] \in Nat /\ expired'[m] \in Nat
         /\ expired[m] < ExpiryCap
         /\ ToCome(S, m)' + expired[m] <= ToCome(S, m) + expired'[m]
<1>1. /\ status \in [Msgs -> Statuses] /\ expired \in [Msgs -> 0..ExpiryCap]
      /\ stage \in [Objs -> S \union Wire \union {"free"}] /\ ExpiryCap \in Nat
  BY ConsumerAssumption DEF ConsumerTypeOK
<1>2. Live(S, m) \in SUBSET Objs /\ Live(S, m)' \in SUBSET Objs
  BY DEF Live
<1>3. /\ Cardinality(Live(S, m)) \in Nat /\ Cardinality(Live(S, m)') \in Nat
      /\ IsFiniteSet(Live(S, m))
  BY <1>2, ObjectSets
<1>4. Ready(m) \in 0..1 /\ Ready(m)' \in 0..1
  BY DEF Ready
<1>5. ASSUME NEW n \in Msgs, DeliveryLost(n)
      PROVE  /\ expired' = expired /\ Live(S, m)' = Live(S, m) /\ Ready(m)' <= Ready(m)
  BY <1>1, <1>5 DEF DeliveryLost, CountDelivery, Live, Ready
<1>6. ASSUME NEW n \in Msgs, AckWaitExpires(n)
      PROVE  /\ expired[m] < ExpiryCap /\ Live(S, m)' = Live(S, m)
             /\ Ready(m)' + expired[m] <= Ready(m) + expired'[m]
  <2>1. Live(S, m)' = Live(S, m)
    BY <1>6 DEF AckWaitExpires, Live
  <2>2. CASE n = m
    <3>1. /\ status'[m] = "ready" /\ status[m] = "pending"
          /\ expired'[m] = IF expired[m] < ExpiryCap THEN expired[m] + 1 ELSE expired[m]
      BY <1>1, <1>6, <2>2 DEF AckWaitExpires
    <3> QED
      BY <1>1, <2>1, <3>1 DEF Ready
  <2>3. CASE n # m
    <3>1. status'[m] = status[m] /\ expired'[m] = expired[m]
      BY <1>1, <1>6, <2>3 DEF AckWaitExpires
    <3> QED
      BY <1>1, <2>1, <3>1 DEF Ready
  <2> QED
    BY <2>2, <2>3
<1>7. ASSUME NEW o \in Objs, AnswerEnds(o)
      PROVE  /\ expired' = expired
             /\ \/ Live(S, m)' \subseteq Live(S, m) /\ Ready(m)' <= Ready(m)
                \/ o \in Live(S, m) /\ Live(S, m)' \subseteq Live(S, m) \ {o}
  <2>1. expired' = expired /\ stage' = [stage EXCEPT ![o] = "free"] /\ stage[o] \in Wire
    BY <1>7 DEF AnswerEnds, AckArrives, TermArrives, NakArrives, AnswerLost, Wire
  <2>2. Live(S, m)' \subseteq Live(S, m)
    BY <1>1, <2>1 DEF Live
  <2>3. CASE stage[o] = "nak" /\ Msg(o) = m
    BY <1>1, <2>1, <2>3 DEF Live
  <2>4. CASE stage[o] # "nak" \/ Msg(o) # m
    <3>1. status'[m] = "ready" => status[m] = "ready"
      BY <1>1, <1>7, <2>4, MsgOfObject
      DEF AnswerEnds, AckArrives, TermArrives, NakArrives, AnswerLost
    <3> QED
      BY <2>1, <2>2, <3>1 DEF Ready
  <2> QED
    BY <2>1, <2>3, <2>4
<1>8. ASSUME Live(S, m)' \subseteq Live(S, m)
      PROVE  Cardinality(Live(S, m)') <= Cardinality(Live(S, m))
  BY <1>8, <1>3, FS_Subset
<1>9. ASSUME NEW o \in Live(S, m), Live(S, m)' \subseteq Live(S, m) \ {o}
      PROVE  Cardinality(Live(S, m)') + 1 <= Cardinality(Live(S, m))
  <2>1. /\ IsFiniteSet(Live(S, m) \ {o})
        /\ Cardinality(Live(S, m) \ {o}) = Cardinality(Live(S, m)) - 1
    BY <1>3, FS_RemoveElement
  <2>2. Cardinality(Live(S, m)') <= Cardinality(Live(S, m) \ {o})
    BY <1>9, <2>1, FS_Subset
  <2> QED
    BY <1>3, <2>1, <2>2
<1> QED
  <2>1. expired'[m] \in Nat /\ expired[m] \in Nat
    BY <1>1, <1>5, <1>6, <1>7 DEF ServerStep, AckWaitExpires
  <2>2. CASE \E n \in Msgs : DeliveryLost(n)
    BY <2>2, <2>1, <1>3, <1>4, <1>5, <1>8 DEF ToCome
  <2>3. CASE \E n \in Msgs : AckWaitExpires(n)
    BY <2>3, <2>1, <1>3, <1>4, <1>6, <1>8 DEF ToCome
  <2>4. CASE \E o \in Objs : AnswerEnds(o)
    BY <2>4, <2>1, <1>3, <1>4, <1>7, <1>8, <1>9 DEF ToCome
  <2> QED
    BY <2>2, <2>3, <2>4 DEF ServerStep

------------------------------------------------------------------------------
(* The inductive invariant, in named parts.                                 *)

(* A message being handled is in the hands of exactly one goroutine, which  *)
(* handles no other, and a worker that has one is not gone.                 *)
Ownership ==
  /\ \A p \in Procs : \A o \in held[p] : stage[o] \in {"enqueue", "consume"}
  /\ \A p \in Procs : \A o, q \in held[p] : o = q
  /\ \A p, q \in Procs : p # q => held[p] \intersect held[q] = {}
  /\ \A w \in Workers : held[w] # {} => worker[w] = "busy"
  /\ \A o \in Objs : stage[o] = "enqueue" => o \in held[Callback]
  /\ \A o \in Objs : stage[o] = "consume" => \E p \in Procs : o \in held[p]

(* What is left in the process at each point of Start and Shutdown.         *)
Phases ==
  /\ conn <=> life \notin {"new", "stopped"}
  /\ life \in {"new", "stopped"} => AllGone
  /\ life \in {"new", "starting", "unwinding", "stopped"} =>
       \A o \in Objs : stage[o] \notin Stages
  /\ life \in {"starting", "running", "draining"} => jobs # "closed"
  /\ life = "closing" => held[Callback] = {} /\ At("inbox") = {}

(* What a message went through before it reached its stage.                 *)
Justified ==
  \A o \in Objs :
    /\ stage[o] = "consume" => Msg(o) \in offered \ Unreadable
    /\ stage[o] = "nak" => Msg(o) \in offered
    /\ stage[o] = "ack" => accepted[Msg(o)] > 0
    /\ stage[o] = "term" => Msg(o) \in refused \union Unreadable

(* What the server may still deliver counts as an attempt to come.          *)
AttemptsToCome ==
  \A m \in Msgs \ (Unreadable \union offered) :
    expired[m] < ExpiryCap => delivered[m] + Ready(m) <= 1 + expired[m]

(* An acceptance needs an object of the message or a delivery to come, and  *)
(* only an expiry adds one.                                                 *)
AcceptancesToCome ==
  \A m \in Msgs :
    expired[m] < ExpiryCap =>
      accepted[m] + ToCome(Stages, m) <= 1 + expired[m]

WorkInv == TypeOK /\ Ownership /\ Phases /\ NoSendOnClosedJobs

IInv == WorkInv /\ Justified /\ AttemptsToCome /\ AcceptancesToCome

LEMMA InitType == Init => TypeOK
<1> SUFFICES ASSUME Init PROVE TypeOK
  OBVIOUS
<1>1. ConsumerTypeOK(Stages)
  BY ConsumerAssumption DEF Init, ConsumerInit, ConsumerTypeOK, Statuses
<1>2. D!DownstreamTypeOK
  BY ConsumerAssumption DEF Init, D!DownstreamInit, D!DownstreamTypeOK
<1>3. restarts \in 0..MaxRestarts
  BY ReceiverAssumption DEF Init
<1>4. /\ worker \in [Workers -> {"top", "recv", "stuck", "busy", "gone"}]
      /\ held \in [Procs -> SUBSET Objs]
  BY DEF Init
<1> QED
  BY <1>1, <1>2, <1>3, <1>4 DEF Init, TypeOK

(* The steps of the pipeline's histories keep their types.                  *)
LEMMA DownstreamType ==
  ASSUME D!DownstreamTypeOK, NEW S \in SUBSET Msgs,
         D!Offer(S) \/ D!Accept(S) \/ D!Refuse(S) \/ UNCHANGED downstreamVars
  PROVE  D!DownstreamTypeOK'
  BY ConsumerAssumption DEF D!DownstreamTypeOK, D!Offer, D!Accept, D!Refuse,
                            downstreamVars

(* A goroutine that begins to handle a message keeps every type.            *)
LEMMA HandleType ==
  ASSUME TypeOK, NEW p \in Procs, NEW o \in Objs, Handle(p, o)
  PROVE  TypeOK'
<1> Msg(o) \in Msgs
  BY MsgOfObject
<1>1. CASE RejectUnreadable(p, o)
  <2>1. ConsumerTypeOK(Stages)'
    BY <1>1, AnswerType DEF RejectUnreadable, TypeOK, Wire
  <2> QED
    BY <1>1, <2>1, DownstreamType
    DEF RejectUnreadable, Release, Handle, lifeVars, TypeOK
<1>2. CASE BeginConsume(p, o)
  <2>1. ConsumerTypeOK(Stages)'
    BY <1>2 DEF BeginConsume, TypeOK, ConsumerTypeOK, Stages, serverVars
  <2>2. D!DownstreamTypeOK'
    BY <1>2, DownstreamType DEF BeginConsume, TypeOK
  <2> QED
    BY <1>2, <2>1, <2>2 DEF BeginConsume, Handle, lifeVars, TypeOK
<1> QED
  BY <1>1, <1>2 DEF Handle

(* So does a downstream call that returns, whatever it returns.             *)
LEMMA ReturnsType ==
  ASSUME TypeOK, NEW p \in Procs, NEW o \in Objs, Returns(p, o)
  PROVE  TypeOK'
<1> Msg(o) \in Msgs
  BY MsgOfObject
<1>1. PICK a \in Wire : ConsumeReturns(p, o, a)
  BY DEF Returns, ConsumeOk, ConsumeRetryable, ConsumePermanent, Wire
<1>2. ConsumerTypeOK(Stages)'
  BY <1>1, AnswerType DEF ConsumeReturns, TypeOK
<1>3. D!DownstreamTypeOK'
  BY DownstreamType DEF Returns, ConsumeOk, ConsumeRetryable, ConsumePermanent, TypeOK
<1> QED
  BY <1>1, <1>2, <1>3 DEF ConsumeReturns, Release, lifeVars, TypeOK

LEMMA LifecycleType ==
  ASSUME TypeOK, Lifecycle
  PROVE  TypeOK'
<1> USE DEF TypeOK, ConsumerTypeOK, D!DownstreamTypeOK
<1>1. CASE StartWorkers
  BY <1>1 DEF StartWorkers, consumerVars, downstreamVars
<1>2. CASE ConsumeStarts
  BY <1>2 DEF ConsumeStarts, consumerVars, downstreamVars, poolVars
<1>3. CASE ConsumeFails
  BY <1>3 DEF ConsumeFails, consumerVars, downstreamVars
<1>4. CASE StartGivesUp
  BY <1>4 DEF StartGivesUp, consumerVars, downstreamVars
<1>5. CASE HostCancelsStart
  BY <1>5 DEF HostCancelsStart, consumerVars, downstreamVars, lifeVars
<1>6. CASE ShutdownCancels
  BY <1>6 DEF ShutdownCancels, consumerVars, downstreamVars
<1>7. CASE DrainEnds
  BY <1>7 DEF DrainEnds, consumerVars, downstreamVars
<1>8. CASE ShutdownEnds
  <2>1. ConsumerTypeOK(Stages)'
    BY <1>8, AnswerType DEF ShutdownEnds, Wire
  <2> QED
    BY <1>8, <2>1 DEF ShutdownEnds, downstreamVars, poolVars
<1>9. CASE Restart
  <2>1. ConsumerTypeOK(Stages)'
    BY <1>9, ProcessDiesType DEF Restart
  <2>2. restarts' \in 0..MaxRestarts
    BY <1>9, ReceiverAssumption DEF Restart
  <2> QED
    BY <1>9, <2>1, <2>2 DEF Restart, downstreamVars
<1> QED
  BY <1>1, <1>2, <1>3, <1>4, <1>5, <1>6, <1>7, <1>8, <1>9 DEF Lifecycle

LEMMA CallbackType ==
  ASSUME TypeOK, NEW o \in Objs, ReceiveMessage(o) \/ CallbackStep(o)
  PROVE  TypeOK'
<1> Callback \in Procs
  BY DEF Procs
<1>1. CASE ReceiveMessage(o)
  <2>1. ConsumerTypeOK(Stages)'
    BY <1>1, DeliverType DEF ReceiveMessage, TypeOK, Stages
  <2> QED
    BY <1>1, <2>1, DownstreamType
    DEF ReceiveMessage, TypeOK, poolVars, lifeVars
<1>2. CASE CallbackHandles(o)
  BY <1>2, HandleType DEF CallbackHandles
<1>3. CASE CallbackOffersJob(o) \/ EnqueueJob(o) \/ DropJob(o)
  <2>1. ConsumerTypeOK(Stages)'
    BY <1>3 DEF CallbackOffersJob, EnqueueJob, DropJob, TypeOK, ConsumerTypeOK, Stages,
                serverVars
  <2>2. D!DownstreamTypeOK'
    BY <1>3, DownstreamType DEF CallbackOffersJob, EnqueueJob, DropJob, TypeOK
  <2> QED
    BY <1>3, <2>1, <2>2 DEF CallbackOffersJob, EnqueueJob, DropJob, TypeOK, lifeVars
<1> QED
  BY <1>1, <1>2, <1>3 DEF CallbackStep

LEMMA NextType == TypeOK /\ [Next]_vars => TypeOK'
<1> SUFFICES ASSUME TypeOK, [Next]_vars PROVE TypeOK'
  OBVIOUS
<1>1. CASE Lifecycle
  BY <1>1, LifecycleType
<1>2. ASSUME NEW o \in Objs, ReceiveMessage(o) \/ CallbackStep(o) PROVE TypeOK'
  BY <1>2, CallbackType
<1>3. ASSUME NEW w \in Workers, ReadJobsField(w) \/ WorkerExits(w) PROVE TypeOK'
  BY <1>3 DEF ReadJobsField, WorkerExits, TypeOK, ConsumerTypeOK,
              D!DownstreamTypeOK, consumerVars, downstreamVars, lifeVars
<1>4. ASSUME NEW w \in Workers, NEW o \in Objs, TakeJob(w, o) PROVE TypeOK'
  BY <1>4, HandleType DEF TakeJob, Procs
<1>5. ASSUME NEW p \in Procs, NEW o \in Objs, Returns(p, o) PROVE TypeOK'
  BY <1>5, ReturnsType
<1>6. CASE Server
  <2>1. ConsumerTypeOK(Stages)'
    BY <1>6, ServerStepType, DeliveryLostType DEF Server, TypeOK
  <2> QED
    BY <1>6, <2>1, DownstreamType DEF Server, ReceiverIdle, TypeOK, poolVars, lifeVars
<1>7. CASE UNCHANGED vars
  BY <1>7 DEF vars, TypeOK, ConsumerTypeOK, D!DownstreamTypeOK, consumerVars,
              lifeVars, poolVars
<1> QED
  BY <1>1, <1>2, <1>3, <1>4, <1>5, <1>6, <1>7 DEF Next

(* Every variable keeps its type in every behaviour of the receiver.        *)
THEOREM TypeCorrect == Spec => []TypeOK
  BY InitType, NextType, PTL DEF Spec

------------------------------------------------------------------------------
(* Ownership, phases and the closed channel.                                *)

LEMMA InitWork == Init => Ownership /\ Phases /\ NoSendOnClosedJobs
  BY DEF Init, ConsumerInit, Ownership, Phases, NoSendOnClosedJobs, AllGone, Stages,
         At, Procs

(* A free goroutine that takes a message owns it, or answers it at once.    *)
LEMMA HandleWork ==
  ASSUME WorkInv, NEW p \in Procs, NEW o \in Objs, Handle(p, o),
         held[p] = {}, stage[o] \in {"inbox", "queued"},
         p = Callback => life # "closing"
  PROVE  (Ownership /\ Phases /\ NoSendOnClosedJobs)'
<1> USE DEF WorkInv
<1>1. /\ stage \in [Objs -> Stages \union Wire \union {"free"}]
      /\ held \in [Procs -> SUBSET Objs]
      /\ worker \in [Workers -> {"top", "recv", "stuck", "busy", "gone"}]
  BY DEF TypeOK, ConsumerTypeOK
<1>2. life \notin {"new", "starting", "unwinding", "stopped"}
  BY DEF Phases, Stages
<1>3. \A q \in Procs : o \notin held[q]
  BY DEF Ownership
<1>4. CASE RejectUnreadable(p, o)
  <2>1. /\ stage'[o] \in {"term", "free"}
        /\ \A x \in Objs \ {o} : stage'[x] = stage[x]
    BY <1>4, <1>1 DEF RejectUnreadable, Answer
  <2>2. held' = held /\ \A w \in Workers : w # p => worker'[w] = worker[w]
    BY <1>4, <1>1 DEF RejectUnreadable, Release
  <2>3. Ownership'
    BY <2>1, <2>2, <1>1, <1>3 DEF Ownership, Procs
  <2>4. Phases'
    BY <2>1, <2>2, <1>1, <1>2 DEF Phases, At, Handle, lifeVars, Stages
  <2> QED
    BY <2>1, <2>3, <2>4, <1>1 DEF NoSendOnClosedJobs, Handle
<1>5. CASE BeginConsume(p, o)
  <2>1. /\ stage'[o] = "consume"
        /\ \A x \in Objs \ {o} : stage'[x] = stage[x]
    BY <1>5, <1>1 DEF BeginConsume
  <2>2. /\ held'[p] = {o}
        /\ \A q \in Procs \ {p} : held'[q] = held[q]
        /\ \A w \in Workers : worker'[w] = IF w = p THEN "busy" ELSE worker[w]
    BY <1>5, <1>1 DEF BeginConsume
  <2>3. Ownership'
    BY <2>1, <2>2, <1>1, <1>3 DEF Ownership, Procs
  <2>4. Phases'
    BY <2>1, <2>2, <1>1, <1>2, ReceiverAssumption
    DEF Phases, At, Handle, lifeVars, Stages, Procs
  <2> QED
    BY <2>1, <2>3, <2>4, <1>1 DEF NoSendOnClosedJobs, Handle
<1> QED
  BY <1>4, <1>5 DEF Handle

(* A call that returned leaves its goroutine with nothing.                  *)
LEMMA ReturnsWork ==
  ASSUME WorkInv, NEW p \in Procs, NEW o \in Objs, NEW a \in Wire,
         ConsumeReturns(p, o, a)
  PROVE  (Ownership /\ Phases /\ NoSendOnClosedJobs)'
<1> USE DEF WorkInv
<1>1. /\ stage \in [Objs -> Stages \union Wire \union {"free"}]
      /\ held \in [Procs -> SUBSET Objs]
      /\ worker \in [Workers -> {"top", "recv", "stuck", "busy", "gone"}]
  BY DEF TypeOK, ConsumerTypeOK
<1>2. o \in held[p] /\ stage[o] = "consume"
  BY DEF ConsumeReturns
<1>3. life \notin {"new", "starting", "unwinding", "stopped"}
  BY <1>2 DEF Phases, Stages
<1>4. /\ stage'[o] \in {a, "free"}
      /\ \A x \in Objs \ {o} : stage'[x] = stage[x]
  BY <1>1 DEF ConsumeReturns, Answer
<1>5. /\ held'[p] = {}
      /\ \A q \in Procs \ {p} : held'[q] = held[q]
      /\ \A w \in Workers : worker'[w] = IF w = p THEN "top" ELSE worker[w]
  BY <1>1 DEF ConsumeReturns, Release
<1>6. Ownership'
  BY <1>1, <1>2, <1>4, <1>5 DEF Ownership, Procs, Wire
<1>7. Phases'
  BY <1>1, <1>3, <1>4, <1>5
  DEF Phases, At, ConsumeReturns, lifeVars, Stages, Procs, Wire
<1> QED
  BY <1>1, <1>4, <1>6, <1>7 DEF NoSendOnClosedJobs, ConsumeReturns, Wire

(* Start and Shutdown: the channel is closed only with the callback idle,   *)
(* and the connection only with every goroutine gone.                       *)
LEMMA LifecycleWork ==
  ASSUME WorkInv, Lifecycle
  PROVE  (Ownership /\ Phases /\ NoSendOnClosedJobs)'
<1> USE DEF WorkInv, At
<1>1. /\ stage \in [Objs -> Stages \union Wire \union {"free"}]
      /\ held \in [Procs -> SUBSET Objs]
      /\ worker \in [Workers -> {"top", "recv", "stuck", "busy", "gone"}]
  BY DEF TypeOK, ConsumerTypeOK
<1>2. CASE StartWorkers
  <2>1. \A o \in Objs : stage[o] \notin Stages
    BY <1>2 DEF StartWorkers, Phases
  <2>2. \A p \in Procs : held[p] = {}
    BY <2>1, <1>1 DEF Ownership, Stages
  <2> QED
    BY <1>2, <1>1, <2>1, <2>2
    DEF StartWorkers, consumerVars, Ownership, Phases, NoSendOnClosedJobs, Stages, Procs
<1>3. CASE ConsumeStarts
  BY <1>3, <1>1 DEF ConsumeStarts, consumerVars, poolVars, Ownership, Phases,
                    NoSendOnClosedJobs, Stages, TypeOK
<1>4. CASE ConsumeFails
  BY <1>4, <1>1 DEF ConsumeFails, consumerVars, Ownership, Phases,
                    NoSendOnClosedJobs, Stages
<1>5. CASE StartGivesUp
  BY <1>5, <1>1 DEF StartGivesUp, consumerVars, Ownership, Phases,
                    NoSendOnClosedJobs, Stages, AllGone
<1>6. CASE HostCancelsStart
  BY <1>6, <1>1 DEF HostCancelsStart, consumerVars, lifeVars, Ownership, Phases,
                    NoSendOnClosedJobs, Stages
<1>7. CASE ShutdownCancels
  BY <1>7, <1>1 DEF ShutdownCancels, consumerVars, Ownership, Phases,
                    NoSendOnClosedJobs, Stages
<1>8. CASE DrainEnds
  <2>1. \A o \in Objs : stage[o] # "enqueue"
    BY <1>8 DEF DrainEnds, Ownership
  <2> QED
    BY <1>8, <1>1, <2>1 DEF DrainEnds, consumerVars, Ownership, Phases,
                            NoSendOnClosedJobs, Stages
<1>9. CASE ShutdownEnds
  <2>1. \A p \in Procs : held[p] = {}
    BY <1>9 DEF ShutdownEnds, AllGone, Ownership, Phases, Procs
  <2>2. \A o \in Objs : stage[o] \notin {"inbox", "enqueue", "consume"}
    BY <1>9, <2>1 DEF ShutdownEnds, Ownership, Phases, Procs
  <2>3. \A o \in Objs : stage'[o] = IF stage[o] = "queued" THEN "free" ELSE stage[o]
    BY <1>9, <1>1 DEF ShutdownEnds, Answer
  <2>4. \A o \in Objs : stage'[o] \notin Stages
    BY <2>2, <2>3 DEF Stages
  <2> QED
    BY <1>9, <1>1, <2>1, <2>4
    DEF ShutdownEnds, poolVars, Ownership, Phases, NoSendOnClosedJobs, Stages, AllGone
<1>10. CASE Restart
  <2>1. \A o \in Objs : stage'[o] \notin Stages
    BY <1>10, <1>1 DEF Restart, ProcessDies, Stages, Wire
  <2> QED
    BY <1>10, <1>1, <2>1
    DEF Restart, Ownership, Phases, NoSendOnClosedJobs, Stages, AllGone, Procs
<1> QED
  BY <1>2, <1>3, <1>4, <1>5, <1>6, <1>7, <1>8, <1>9, <1>10 DEF Lifecycle

LEMMA CallbackWork ==
  ASSUME WorkInv, NEW o \in Objs, ReceiveMessage(o) \/ CallbackStep(o)
  PROVE  (Ownership /\ Phases /\ NoSendOnClosedJobs)'
<1> USE DEF WorkInv, At
<1> Callback \in Procs /\ \A w \in Workers : w \in Procs /\ w # Callback
  BY ReceiverAssumption DEF Procs
<1>1. /\ stage \in [Objs -> Stages \union Wire \union {"free"}]
      /\ held \in [Procs -> SUBSET Objs]
  BY DEF TypeOK, ConsumerTypeOK
<1>2. CASE ReceiveMessage(o)
  <2>1. stage[o] = "free" /\ stage' = [stage EXCEPT ![o] = "inbox"]
    BY <1>2 DEF ReceiveMessage, Deliver
  <2> QED
    BY <1>2, <1>1, <2>1 DEF ReceiveMessage, poolVars, lifeVars, Ownership, Phases,
                            NoSendOnClosedJobs, Stages, AllGone
<1>3. CASE CallbackHandles(o)
  BY <1>3, HandleWork DEF CallbackHandles
<1>4. CASE CallbackOffersJob(o)
  <2>1. \A p \in Procs : o \notin held[p]
    BY <1>4 DEF CallbackOffersJob, Ownership
  <2>2. jobs = "open"
    BY <1>4 DEF CallbackOffersJob, Phases, TypeOK
  <2> QED
    BY <1>4, <1>1, <2>1, <2>2 DEF CallbackOffersJob, lifeVars, Ownership, Phases,
                            NoSendOnClosedJobs, Stages, AllGone
<1>5. CASE EnqueueJob(o) \/ DropJob(o)
  <2>1. held[Callback] = {o} /\ \A p \in Procs : p # Callback => o \notin held[p]
    BY <1>5, <1>1 DEF EnqueueJob, DropJob, Ownership
  <2>2. /\ stage[o] = "enqueue" /\ stage'[o] \in {"queued", "free"}
        /\ \A x \in Objs \ {o} : stage'[x] = stage[x]
        /\ held' = [held EXCEPT ![Callback] = {}]
    BY <1>5, <1>1 DEF EnqueueJob, DropJob
  <2>3. UNCHANGED <<lifeVars, jobs, worker>>
    BY <1>5 DEF EnqueueJob, DropJob
  <2>4. life \notin {"new", "starting", "unwinding", "stopped"}
    BY <2>2 DEF Phases, Stages
  <2> QED
    BY <1>1, <2>1, <2>2, <2>3, <2>4 DEF lifeVars, Ownership, Phases,
                            NoSendOnClosedJobs, Stages, AllGone
<1> QED
  BY <1>2, <1>3, <1>4, <1>5 DEF CallbackStep

LEMMA NextWork == WorkInv /\ [Next]_vars => WorkInv'
<1> SUFFICES ASSUME WorkInv, [Next]_vars
             PROVE  (Ownership /\ Phases /\ NoSendOnClosedJobs)'
  BY NextType DEF WorkInv
<1> USE DEF WorkInv
<1>1. CASE Lifecycle
  BY <1>1, LifecycleWork
<1>2. ASSUME NEW o \in Objs, ReceiveMessage(o) \/ CallbackStep(o)
      PROVE  (Ownership /\ Phases /\ NoSendOnClosedJobs)'
  BY <1>2, CallbackWork
<1>3. ASSUME NEW w \in Workers, ReadJobsField(w) \/ WorkerExits(w)
      PROVE  (Ownership /\ Phases /\ NoSendOnClosedJobs)'
  BY <1>3 DEF ReadJobsField, WorkerExits, consumerVars, lifeVars, Ownership, Phases,
              NoSendOnClosedJobs, AllGone, At, TypeOK, Stages
<1>4. ASSUME NEW w \in Workers, NEW o \in Objs, TakeJob(w, o)
      PROVE  (Ownership /\ Phases /\ NoSendOnClosedJobs)'
  <2>1. w \in Procs /\ w # Callback /\ held[w] = {}
    BY <1>4, ReceiverAssumption DEF TakeJob, Procs, Ownership
  <2> QED
    BY <1>4, <2>1, HandleWork DEF TakeJob
<1>5. ASSUME NEW p \in Procs, NEW o \in Objs, Returns(p, o)
      PROVE  (Ownership /\ Phases /\ NoSendOnClosedJobs)'
  <2>1. PICK a \in Wire : ConsumeReturns(p, o, a)
    BY <1>5 DEF Returns, ConsumeOk, ConsumeRetryable, ConsumePermanent, Wire
  <2> QED
    BY <2>1, ReturnsWork
<1>6. CASE Server
  <2>1. \A o \in Objs : stage'[o] = stage[o] \/ (stage[o] \in Wire /\ stage'[o] = "free")
    BY <1>6, ServerStepStages DEF Server, DeliveryLost, TypeOK
  <2> QED
    BY <1>6, <2>1 DEF Server, ReceiverIdle, poolVars, lifeVars, Ownership, Phases,
                      NoSendOnClosedJobs, AllGone, At, Stages, Wire, TypeOK
<1>7. CASE UNCHANGED vars
  BY <1>7 DEF vars, consumerVars, lifeVars, poolVars, Ownership, Phases,
              NoSendOnClosedJobs, AllGone, At
<1> QED
  BY <1>1, <1>2, <1>3, <1>4, <1>5, <1>6, <1>7 DEF Next

LEMMA WorkInvariant == Spec => []WorkInv
<1>1. Init => WorkInv
  BY InitType, InitWork DEF WorkInv
<1> QED
  BY <1>1, NextWork, PTL DEF Spec

(* Whatever the interleaving of the callback, the workers and Shutdown, the *)
(* callback never sends on the channel that stopWorkers closed.             *)
THEOREM ClosedChannelNeverSentOn == Spec => []NoSendOnClosedJobs
<1>1. WorkInv => NoSendOnClosedJobs
  BY DEF WorkInv
<1> QED
  BY <1>1, WorkInvariant, PTL

(* When the connection is closed, no goroutine is left and no message is in *)
(* the process.                                                             *)
THEOREM ConnectionClosedLast == Spec => []ConnectionOutlivesWork
<1>1. WorkInv => ConnectionOutlivesWork
  BY DEF WorkInv, Phases, ConnectionOutlivesWork
<1> QED
  BY <1>1, WorkInvariant, PTL

------------------------------------------------------------------------------
(* The part of ShutdownTerminates that is safety.                           *)

(* While Shutdown waits for the subscription to drain and for the workers,  *)
(* everything it waits for can go on: each goroutine sees the cancelled     *)
(* context, a busy worker is in a downstream call, the callback in a call   *)
(* or in its select, and once the channel is closed nothing is left to be   *)
(* sent on it (receiver.go: Shutdown, stopWorkers).                         *)
ShutdownNeverStuck ==
  life \in {"draining", "closing"} =>
    /\ ctxDone
    /\ \A w \in Workers : worker[w] = "busy" => \E o \in held[w] : stage[o] = "consume"
    /\ \A o \in held[Callback] : stage[o] \in {"enqueue", "consume"}
    /\ \A o \in Objs : stage[o] \in {"inbox", "enqueue"} => life = "draining"

(* The context is cancelled before anything is waited for, and only a       *)
(* worker with a message is busy.                                           *)
Waiting ==
  /\ life \in {"draining", "closing"} => ctxDone
  /\ \A w \in Workers : worker[w] = "busy" => held[w] # {}

LEMMA WaitingImplies == WorkInv /\ Waiting => ShutdownNeverStuck
<1> SUFFICES ASSUME WorkInv, Waiting, life \in {"draining", "closing"}
             PROVE  /\ ctxDone
                    /\ \A w \in Workers : worker[w] = "busy" =>
                         \E o \in held[w] : stage[o] = "consume"
                    /\ \A o \in held[Callback] : stage[o] \in {"enqueue", "consume"}
                    /\ \A o \in Objs : stage[o] \in {"inbox", "enqueue"} => life = "draining"
  BY DEF ShutdownNeverStuck
<1>1. \A w \in Workers : w \in Procs /\ w # Callback
  BY ReceiverAssumption DEF Procs
<1>2. held \in [Procs -> SUBSET Objs] /\ Callback \in Procs
  BY DEF WorkInv, TypeOK, Procs
<1>3. Ownership /\ Phases
  BY DEF WorkInv
<1>4. ASSUME NEW w \in Workers, worker[w] = "busy"
      PROVE  \E o \in held[w] : stage[o] = "consume"
  <2>1. PICK o \in held[w] : TRUE
    BY <1>4 DEF Waiting
  <2>2. o \in Objs /\ stage[o] \in {"enqueue", "consume"}
    BY <1>1, <1>2, <1>3, <2>1 DEF Ownership
  <2>3. stage[o] # "enqueue"
    BY <1>1, <1>2, <1>3, <2>1, <2>2 DEF Ownership
  <2> QED BY <2>1, <2>2, <2>3
<1>5. \A o \in held[Callback] : stage[o] \in {"enqueue", "consume"}
  BY <1>2, <1>3 DEF Ownership
<1>6. ASSUME NEW o \in Objs, stage[o] \in {"inbox", "enqueue"} PROVE life = "draining"
  BY <1>3, <1>6 DEF Ownership, Phases, At
<1> QED BY <1>4, <1>5, <1>6 DEF Waiting

(* A goroutine that takes a message is busy with it, and one that is done   *)
(* with it is not.                                                          *)
LEMMA BusyWithOne ==
  ASSUME WorkInv, Waiting, NEW p \in Procs, NEW S \in SUBSET Objs, NEW at,
         held' = [held EXCEPT ![p] = S],
         worker' = [w \in Workers |-> IF w = p THEN at ELSE worker[w]],
         at = "busy" => S # {}
  PROVE  \A w \in Workers : worker'[w] = "busy" => held'[w] # {}
  BY DEF WorkInv, TypeOK, Waiting, Procs

LEMMA HandleWaiting ==
  ASSUME WorkInv, Waiting, NEW p \in Procs, NEW o \in Objs,
         Handle(p, o) \/ Returns(p, o)
  PROVE  Waiting'
<1>1. UNCHANGED <<life, ctxDone>>
  BY DEF Handle, Returns, ConsumeOk, ConsumeRetryable, ConsumePermanent, ConsumeReturns,
         lifeVars
<1>2. \/ Release(p)
      \/ /\ held' = [held EXCEPT ![p] = {o}]
         /\ worker' = [w \in Workers |-> IF w = p THEN "busy" ELSE worker[w]]
  BY DEF Handle, RejectUnreadable, BeginConsume, Returns, ConsumeOk, ConsumeRetryable,
         ConsumePermanent, ConsumeReturns
<1>3. \A w \in Workers : worker'[w] = "busy" => held'[w] # {}
  <2>1. CASE Release(p)
    <3>1. PICK S, at : S = {} /\ at = "top"
      OBVIOUS
    <3>2. /\ held' = [held EXCEPT ![p] = S] /\ S \in SUBSET Objs /\ at # "busy"
          /\ worker' = [w \in Workers |-> IF w = p THEN at ELSE worker[w]]
      BY <2>1, <3>1 DEF Release
    <3> QED BY <3>2, BusyWithOne
  <2>2. CASE ~Release(p)
    <3>1. PICK S, at : S = {o} /\ at = "busy"
      OBVIOUS
    <3>2. /\ held' = [held EXCEPT ![p] = S] /\ S \in SUBSET Objs /\ S # {}
          /\ worker' = [w \in Workers |-> IF w = p THEN at ELSE worker[w]]
      BY <1>2, <2>2, <3>1
    <3> QED BY <3>2, BusyWithOne
  <2> QED BY <2>1, <2>2
<1> QED BY <1>1, <1>3 DEF Waiting

LEMMA NextWaiting == WorkInv /\ Waiting /\ [Next]_vars => Waiting'
<1> SUFFICES ASSUME WorkInv, Waiting, [Next]_vars PROVE Waiting'
  OBVIOUS
<1>1. /\ worker \in [Workers -> {"top", "recv", "stuck", "busy", "gone"}]
      /\ held \in [Procs -> SUBSET Objs]
      /\ \A w \in Workers : w \in Procs /\ w # Callback
  BY ReceiverAssumption DEF WorkInv, TypeOK, Procs
<1>2. CASE Lifecycle
  <2>1. CASE StartWorkers \/ Restart
    <3>1. life' \in {"starting", "new"} /\ \A w \in Workers : worker'[w] \in {"top", "gone"}
      BY <2>1 DEF StartWorkers, Restart
    <3> QED BY <3>1 DEF Waiting
  <2>2. CASE ConsumeStarts \/ ConsumeFails \/ StartGivesUp
    <3>1. life' \in {"running", "unwinding", "stopped"} /\ UNCHANGED <<worker, held>>
      BY <2>2 DEF ConsumeStarts, ConsumeFails, StartGivesUp, poolVars
    <3> QED BY <3>1 DEF Waiting
  <2>3. CASE HostCancelsStart \/ ShutdownCancels
    <3>1. ctxDone' /\ UNCHANGED <<worker, held>>
      BY <2>3 DEF HostCancelsStart, ShutdownCancels
    <3> QED BY <3>1 DEF Waiting
  <2>4. CASE DrainEnds
    <3>1. life = "draining" /\ UNCHANGED <<ctxDone, worker, held>>
      BY <2>4 DEF DrainEnds
    <3> QED BY <3>1 DEF Waiting
  <2>5. CASE ShutdownEnds
    <3>1. life' = "stopped" /\ UNCHANGED <<worker, held>>
      BY <2>5 DEF ShutdownEnds, poolVars
    <3> QED BY <3>1 DEF Waiting
  <2> QED BY <1>2, <2>1, <2>2, <2>3, <2>4, <2>5 DEF Lifecycle
<1>3. ASSUME NEW o \in Objs, ReceiveMessage(o) PROVE Waiting'
  BY <1>3 DEF ReceiveMessage, poolVars, lifeVars, Waiting
<1>4. ASSUME NEW o \in Objs, CallbackHandles(o) PROVE Waiting'
  BY <1>4, HandleWaiting DEF CallbackHandles, Procs
<1>5. ASSUME NEW o \in Objs, CallbackOffersJob(o) \/ EnqueueJob(o) \/ DropJob(o)
      PROVE  Waiting'
  <2>1. UNCHANGED <<life, ctxDone, worker>>
    BY <1>5 DEF CallbackOffersJob, EnqueueJob, DropJob, lifeVars
  <2>2. \A w \in Workers : held'[w] = held[w]
    BY <1>1, <1>5 DEF CallbackOffersJob, EnqueueJob, DropJob
  <2> QED BY <2>1, <2>2 DEF Waiting
<1>6. ASSUME NEW w \in Workers, ReadJobsField(w) \/ WorkerExits(w) PROVE Waiting'
  <2>1. UNCHANGED <<life, ctxDone, held>>
    BY <1>6 DEF ReadJobsField, WorkerExits, lifeVars
  <2>2. \A v \in Workers : worker'[v] = worker[v] \/ worker'[v] \in {"recv", "stuck", "gone"}
    BY <1>1, <1>6 DEF ReadJobsField, WorkerExits
  <2> QED BY <2>1, <2>2 DEF Waiting
<1>7. ASSUME NEW w \in Workers, NEW o \in Objs, TakeJob(w, o) PROVE Waiting'
  BY <1>1, <1>7, HandleWaiting DEF TakeJob
<1>8. ASSUME NEW p \in Procs, NEW o \in Objs, Returns(p, o) PROVE Waiting'
  BY <1>8, HandleWaiting
<1>9. CASE Server \/ UNCHANGED vars
  BY <1>9 DEF Server, ReceiverIdle, vars, poolVars, lifeVars, Waiting
<1> QED
  BY <1>2, <1>3, <1>4, <1>5, <1>6, <1>7, <1>8, <1>9 DEF Next, CallbackStep

(* Shutdown never waits for a goroutine that cannot go on.                  *)
THEOREM ShutdownWaitsForWork == Spec => []ShutdownNeverStuck
<1>1. Init => Waiting
  BY DEF Init, Waiting
<1> QED BY <1>1, NextWaiting, WaitingImplies, WorkInvariant, PTL DEF Spec

------------------------------------------------------------------------------
(* What the answers rest on.                                                *)

(* The record of what the pipeline was offered, took and refused only       *)
(* grows.                                                                   *)
LEMMA DownstreamGrows ==
  ASSUME D!DownstreamTypeOK, NEW S \in SUBSET Msgs,
         D!Offer(S) \/ D!Accept(S) \/ D!Refuse(S) \/ UNCHANGED downstreamVars
  PROVE  /\ offered \subseteq offered' /\ refused \subseteq refused'
         /\ \A m \in Msgs : accepted[m] > 0 => accepted'[m] > 0
  BY ConsumerAssumption DEF D!DownstreamTypeOK, D!Offer, D!Accept, D!Refuse,
                            downstreamVars

LEMMA NextGrows ==
  ASSUME TypeOK, [Next]_vars
  PROVE  /\ offered \subseteq offered' /\ refused \subseteq refused'
         /\ \A m \in Msgs : accepted[m] > 0 => accepted'[m] > 0
<1>1. PICK S \in SUBSET Msgs :
        D!Offer(S) \/ D!Accept(S) \/ D!Refuse(S) \/ UNCHANGED downstreamVars
  <2> \A o \in Objs : {Msg(o)} \in SUBSET Msgs
    BY MsgOfObject
  <2>1. CASE Lifecycle
    BY <2>1 DEF Lifecycle, StartWorkers, ConsumeStarts, ConsumeFails, StartGivesUp,
                HostCancelsStart, ShutdownCancels, DrainEnds, ShutdownEnds, Restart
  <2>2. ASSUME NEW p \in Procs, NEW o \in Objs, Handle(p, o)
        PROVE  D!Offer({Msg(o)}) \/ UNCHANGED downstreamVars
    BY <2>2 DEF Handle, RejectUnreadable, BeginConsume
  <2>3. ASSUME NEW o \in Objs, ReceiveMessage(o) \/ CallbackStep(o)
        PROVE  D!Offer({Msg(o)}) \/ UNCHANGED downstreamVars
    BY <2>2, <2>3 DEF ReceiveMessage, CallbackStep, CallbackHandles, CallbackOffersJob,
                      EnqueueJob, DropJob, Procs
  <2>4. ASSUME NEW w \in Workers, ReadJobsField(w) \/ WorkerExits(w)
        PROVE  UNCHANGED downstreamVars
    BY <2>4 DEF ReadJobsField, WorkerExits
  <2>5. ASSUME NEW w \in Workers, NEW o \in Objs, TakeJob(w, o)
        PROVE  D!Offer({Msg(o)}) \/ UNCHANGED downstreamVars
    BY <2>2, <2>5 DEF TakeJob, Procs
  <2>6. ASSUME NEW p \in Procs, NEW o \in Objs, Returns(p, o)
        PROVE  D!Accept({Msg(o)}) \/ D!Refuse({Msg(o)}) \/ UNCHANGED downstreamVars
    BY <2>6 DEF Returns, ConsumeOk, ConsumeRetryable, ConsumePermanent
  <2>7. CASE Server \/ UNCHANGED vars
    BY <2>7 DEF Server, ReceiverIdle, vars, downstreamVars
  <2> QED
    BY <2>1, <2>3, <2>4, <2>5, <2>6, <2>7 DEF Next
<1> QED
  BY <1>1, DownstreamGrows DEF TypeOK

LEMMA NextJustified == WorkInv /\ Justified /\ [Next]_vars => Justified'
<1> SUFFICES ASSUME WorkInv, Justified, [Next]_vars, NEW x \in Objs
             PROVE  /\ stage'[x] = "consume" => Msg(x) \in offered' \ Unreadable
                    /\ stage'[x] = "nak" => Msg(x) \in offered'
                    /\ stage'[x] = "ack" => accepted'[Msg(x)] > 0
                    /\ stage'[x] = "term" => Msg(x) \in refused' \union Unreadable
  BY DEF Justified
<1>1. /\ stage \in [Objs -> Stages \union Wire \union {"free"}]
      /\ accepted \in [Msgs -> 0..ExpiryCap + 1]
      /\ Msg(x) \in Msgs
  BY MsgOfObject DEF WorkInv, TypeOK, ConsumerTypeOK, D!DownstreamTypeOK
<1>2. CASE stage'[x] = stage[x] \/ stage'[x] \in {"free", "inbox", "enqueue", "queued"}
  BY <1>1, <1>2, NextGrows DEF Justified, WorkInv
<1>3. ASSUME NEW p \in Procs, NEW o \in Objs, Handle(p, o)
      PROVE  \/ stage'[x] = stage[x] \/ stage'[x] = "free"
             \/ stage'[x] = "consume" /\ Msg(x) \in offered' \ Unreadable
             \/ stage'[x] = "term" /\ Msg(x) \in Unreadable
  <2>1. CASE RejectUnreadable(p, o)
    BY <2>1, <1>1 DEF RejectUnreadable, Answer
  <2>2. CASE BeginConsume(p, o)
    BY <2>2, <1>1 DEF BeginConsume, D!Offer
  <2> QED
    BY <1>3, <2>1, <2>2 DEF Handle
<1>4. CASE Lifecycle
  <2>1. stage'[x] = stage[x] \/ stage'[x] = "free"
    BY <1>4, <1>1 DEF Lifecycle, StartWorkers, ConsumeStarts, ConsumeFails, StartGivesUp,
                HostCancelsStart, ShutdownCancels, DrainEnds, ShutdownEnds, Restart,
                consumerVars, Answer, ProcessDies
  <2> QED
    BY <2>1, <1>2
<1>5. ASSUME NEW o \in Objs, ReceiveMessage(o) \/ CallbackStep(o)
      PROVE  \/ stage'[x] = stage[x]
             \/ stage'[x] \in {"free", "inbox", "enqueue", "queued"}
             \/ \E p \in Procs : Handle(p, o)
  BY <1>5, <1>1 DEF ReceiveMessage, Deliver, CallbackStep, CallbackHandles,
                    CallbackOffersJob, EnqueueJob, DropJob, Procs
<1>6. ASSUME NEW w \in Workers, ReadJobsField(w) \/ WorkerExits(w)
      PROVE  stage'[x] = stage[x]
  BY <1>6 DEF ReadJobsField, WorkerExits, consumerVars
<1>7. ASSUME NEW w \in Workers, NEW o \in Objs, TakeJob(w, o)
      PROVE  \E p \in Procs : Handle(p, o)
  BY <1>7 DEF TakeJob, Procs
<1>8. ASSUME NEW p \in Procs, NEW o \in Objs, Returns(p, o)
      PROVE  \/ stage'[x] = stage[x] \/ stage'[x] = "free"
             \/ stage'[x] = "ack" /\ accepted'[Msg(x)] > 0
             \/ stage'[x] = "nak" /\ Msg(x) \in offered'
             \/ stage'[x] = "term" /\ Msg(x) \in refused'
  <2>1. ASSUME NEW a, ConsumeReturns(p, o, a)
        PROVE  /\ stage[o] = "consume"
               /\ stage'[x] \in {stage[x], "free"} \/ (x = o /\ stage'[x] = a)
    BY <2>1, <1>1 DEF ConsumeReturns, Answer
  <2>2. CASE ConsumeOk(p, o)
    <3>1. accepted'[Msg(o)] > 0
      BY <2>2, <1>1, MsgOfObject, ConsumerAssumption DEF ConsumeOk, D!Accept
    <3> QED
      BY <2>1, <2>2, <3>1 DEF ConsumeOk
  <2>3. CASE ConsumeRetryable(p, o)
    BY <2>1, <2>3 DEF ConsumeRetryable, Justified, downstreamVars
  <2>4. CASE ConsumePermanent(p, o)
    BY <2>1, <2>4 DEF ConsumePermanent, D!Refuse
  <2> QED
    BY <1>8, <2>2, <2>3, <2>4 DEF Returns
<1>9. CASE Server
  BY <1>9, <1>2, ServerStepStages DEF Server, DeliveryLost, WorkInv, TypeOK
<1>10. CASE UNCHANGED vars
  BY <1>10, <1>2 DEF vars, consumerVars
<1> QED
  BY <1>2, <1>3, <1>4, <1>5, <1>6, <1>7, <1>8, <1>9, <1>10 DEF Next

(* Only a delivery and the server itself touch the server's records.        *)
LEMMA ServerUntouched ==
  ASSUME [Next]_vars
  PROVE  \/ UNCHANGED serverVars
         \/ \E o \in Objs : Deliver(o, "inbox") /\ UNCHANGED downstreamVars
         \/ Server
<1>1. CASE Lifecycle
  BY <1>1 DEF Lifecycle, StartWorkers, ConsumeStarts, ConsumeFails, StartGivesUp,
              HostCancelsStart, ShutdownCancels, DrainEnds, ShutdownEnds, Restart,
              consumerVars, serverVars, Answer, ProcessDies
<1>2. ASSUME NEW p \in Procs, NEW o \in Objs, Handle(p, o)
      PROVE  UNCHANGED serverVars
  BY <1>2 DEF Handle, RejectUnreadable, BeginConsume, Answer, serverVars
<1>3. ASSUME NEW o \in Objs, CallbackStep(o)
      PROVE  UNCHANGED serverVars
  BY <1>2, <1>3 DEF CallbackStep, CallbackHandles, CallbackOffersJob, EnqueueJob, DropJob,
                    Procs
<1>4. ASSUME NEW w \in Workers, ReadJobsField(w) \/ WorkerExits(w)
      PROVE  UNCHANGED serverVars
  BY <1>4 DEF ReadJobsField, WorkerExits, consumerVars, serverVars
<1>5. ASSUME NEW w \in Workers, NEW o \in Objs, TakeJob(w, o)
      PROVE  UNCHANGED serverVars
  BY <1>2, <1>5 DEF TakeJob, Procs
<1>6. ASSUME NEW p \in Procs, NEW o \in Objs, Returns(p, o)
      PROVE  UNCHANGED serverVars
  BY <1>6 DEF Returns, ConsumeOk, ConsumeRetryable, ConsumePermanent, ConsumeReturns,
              Answer, serverVars
<1>7. CASE UNCHANGED vars
  BY <1>7 DEF vars, consumerVars, serverVars
<1> QED
  BY <1>1, <1>3, <1>4, <1>5, <1>6, <1>7 DEF Next, ReceiveMessage

(* A message that was never offered has no Nak on its way, so only an       *)
(* expiry makes it ready again.                                             *)
LEMMA NextAttempts == WorkInv /\ Justified /\ AttemptsToCome /\ [Next]_vars
                        => AttemptsToCome'
<1> SUFFICES ASSUME WorkInv, Justified, AttemptsToCome, [Next]_vars,
                    NEW m \in Msgs, m \notin Unreadable \union offered',
                    expired'[m] < ExpiryCap
             PROVE  delivered'[m] + Ready(m)' <= 1 + expired'[m]
  BY DEF AttemptsToCome
<1>1. /\ status \in [Msgs -> Statuses] /\ delivered \in [Msgs -> 0..MaxDeliver]
      /\ expired \in [Msgs -> 0..ExpiryCap] /\ MaxDeliver \in Nat /\ ExpiryCap \in Nat
  BY ConsumerAssumption DEF WorkInv, TypeOK, ConsumerTypeOK
<1>2. m \notin offered
  BY NextGrows DEF WorkInv
<1>3. expired[m] < ExpiryCap => delivered[m] + Ready(m) <= 1 + expired[m]
  BY <1>2 DEF AttemptsToCome
<1>4. CASE UNCHANGED serverVars
  BY <1>3, <1>4 DEF serverVars, Ready
<1>5. ASSUME NEW n \in Msgs, Deliverable(n), CountDelivery(n)
      PROVE  delivered'[m] + Ready(m)' <= 1 + expired'[m]
  <2>1. CASE n = m
    <3>1. /\ status[m] = "ready" /\ status'[m] = "pending" /\ expired' = expired
          /\ delivered'[m] \in Nat /\ delivered'[m] <= delivered[m] + 1
      BY <1>1, <1>5, <2>1 DEF Deliverable, CountDelivery
    <3> QED
      BY <1>1, <1>3, <3>1 DEF Ready
  <2>2. CASE n # m
    BY <1>1, <1>3, <1>5, <2>2 DEF CountDelivery, Ready
  <2> QED
    BY <2>1, <2>2
<1>6. ASSUME NEW n \in Msgs, AckWaitExpires(n)
      PROVE  delivered'[m] + Ready(m)' <= 1 + expired'[m]
  <2>1. CASE n = m
    <3>1. /\ status[m] = "pending" /\ status'[m] = "ready" /\ delivered' = delivered
          /\ expired'[m] = IF expired[m] < ExpiryCap THEN expired[m] + 1 ELSE expired[m]
      BY <1>1, <1>6, <2>1 DEF AckWaitExpires
    <3> QED
      BY <1>1, <1>3, <3>1 DEF Ready
  <2>2. CASE n # m
    BY <1>1, <1>3, <1>6, <2>2 DEF AckWaitExpires, Ready
  <2> QED
    BY <2>1, <2>2
<1>7. ASSUME NEW o \in Objs, AnswerEnds(o)
      PROVE  delivered'[m] + Ready(m)' <= 1 + expired'[m]
  <2>1. delivered' = delivered /\ expired' = expired
    BY <1>7 DEF AnswerEnds, AckArrives, TermArrives, NakArrives, AnswerLost
  <2>2. status'[m] = "ready" => status[m] = "ready"
    <3>1. CASE NakArrives(o)
      <4>1. Msg(o) # m
        BY <1>2, <3>1 DEF NakArrives, Justified
      <4> QED
        BY <1>1, <3>1, <4>1 DEF NakArrives
    <3>2. CASE AckArrives(o) \/ TermArrives(o) \/ AnswerLost(o)
      BY <1>1, <3>2 DEF AckArrives, TermArrives, AnswerLost
    <3> QED
      BY <1>7, <3>1, <3>2 DEF AnswerEnds
  <2> QED
    BY <1>1, <1>3, <2>1, <2>2 DEF Ready
<1> QED
  BY <1>4, <1>5, <1>6, <1>7, ServerUntouched, MsgOfObject
  DEF Deliver, Server, ServerStep, DeliveryLost

(* A step of the receiver makes no object live, and one that accepts a      *)
(* message ends the object it accepted.                                     *)
LEMMA ReceiverEndsLives ==
  ASSUME WorkInv, [Next]_vars, UNCHANGED serverVars, NEW m \in Msgs
  PROVE  /\ Live(Stages, m)' \subseteq Live(Stages, m)
         /\ \/ accepted'[m] = accepted[m]
            \/ /\ accepted'[m] <= accepted[m] + 1
               /\ \E o \in Live(Stages, m) : Live(Stages, m)' \subseteq Live(Stages, m) \ {o}
<1>1. /\ stage \in [Objs -> Stages \union Wire \union {"free"}]
      /\ accepted \in [Msgs -> 0..ExpiryCap + 1] /\ ExpiryCap \in Nat
      /\ status \in [Msgs -> Statuses]
  BY ConsumerAssumption DEF WorkInv, TypeOK, ConsumerTypeOK, D!DownstreamTypeOK
<1>2. SUFFICES \/ /\ accepted' = accepted
                  /\ \A x \in Objs : stage'[x] \in Stages \union {"nak"}
                                      => stage[x] \in Stages \union {"nak"}
               \/ \E p \in Procs, o \in Objs : ConsumeOk(p, o)
  <2>1. CASE \E p \in Procs, o \in Objs : ConsumeOk(p, o)
    <3>1. PICK p \in Procs, o \in Objs : ConsumeOk(p, o)
      BY <2>1
    <3>2. /\ stage[o] = "consume" /\ stage'[o] \in {"ack", "free"}
          /\ \A x \in Objs \ {o} : stage'[x] = stage[x]
      BY <1>1, <3>1 DEF ConsumeOk, ConsumeReturns, Answer
    <3>3. CASE Msg(o) = m
      <4>1. o \in Live(Stages, m) /\ Live(Stages, m)' \subseteq Live(Stages, m) \ {o}
        BY <3>2, <3>3 DEF Live, Stages
      <4>2. accepted'[m] <= accepted[m] + 1
        BY <1>1, <3>1 DEF ConsumeOk, D!Accept
      <4> QED
        BY <4>1, <4>2
    <3>4. CASE Msg(o) # m
      <4>1. Live(Stages, m)' \subseteq Live(Stages, m)
        BY <3>2, <3>4 DEF Live, Stages
      <4>2. accepted'[m] = accepted[m]
        BY <1>1, <3>1, <3>4 DEF ConsumeOk, D!Accept
      <4> QED
        BY <4>1, <4>2
    <3> QED
      BY <3>3, <3>4
  <2> QED
    BY <1>2, <2>1 DEF Live
<1>3. CASE Lifecycle
  BY <1>1, <1>3 DEF Lifecycle, StartWorkers, ConsumeStarts, ConsumeFails, StartGivesUp,
              HostCancelsStart, ShutdownCancels, DrainEnds, ShutdownEnds, Restart,
              consumerVars, downstreamVars, Answer, ProcessDies, Stages, Wire
<1>4. ASSUME NEW p \in Procs, NEW o \in Objs, Handle(p, o), stage[o] \in {"inbox", "queued"}
      PROVE  /\ accepted' = accepted
             /\ \A x \in Objs : stage'[x] \in Stages \union {"nak"}
                                 => stage[x] \in Stages \union {"nak"}
  BY <1>1, <1>4 DEF Handle, RejectUnreadable, BeginConsume, Answer, D!Offer,
                    downstreamVars, Stages, Wire
<1>5. ASSUME NEW o \in Objs, ReceiveMessage(o) PROVE FALSE
  BY <1>1, <1>5, MsgOfObject DEF ReceiveMessage, Deliver, Deliverable, CountDelivery, serverVars
<1>6. ASSUME NEW o \in Objs, CallbackStep(o)
      PROVE  /\ accepted' = accepted
             /\ \A x \in Objs : stage'[x] \in Stages \union {"nak"}
                                 => stage[x] \in Stages \union {"nak"}
  <2>1. CASE CallbackHandles(o)
    BY <1>4, <2>1 DEF CallbackHandles, Procs
  <2>2. CASE CallbackOffersJob(o) \/ EnqueueJob(o) \/ DropJob(o)
    BY <1>1, <2>2 DEF CallbackOffersJob, EnqueueJob, DropJob, downstreamVars, Stages
  <2> QED
    BY <1>6, <2>1, <2>2 DEF CallbackStep
<1>7. ASSUME NEW w \in Workers, ReadJobsField(w) \/ WorkerExits(w)
      PROVE  accepted' = accepted /\ stage' = stage
  BY <1>7 DEF ReadJobsField, WorkerExits, consumerVars, downstreamVars
<1>8. ASSUME NEW w \in Workers, NEW o \in Objs, TakeJob(w, o)
      PROVE  /\ accepted' = accepted
             /\ \A x \in Objs : stage'[x] \in Stages \union {"nak"}
                                 => stage[x] \in Stages \union {"nak"}
  BY <1>4, <1>8 DEF TakeJob, Procs
<1>9. ASSUME NEW p \in Procs, NEW o \in Objs, ConsumeRetryable(p, o) \/ ConsumePermanent(p, o)
      PROVE  /\ accepted' = accepted
             /\ \A x \in Objs : stage'[x] \in Stages \union {"nak"}
                                 => stage[x] \in Stages \union {"nak"}
  BY <1>1, <1>9 DEF ConsumeRetryable, ConsumePermanent, ConsumeReturns, Answer,
                    D!Refuse, downstreamVars, Stages
<1>10. CASE Server
  <2>1. accepted' = accepted
    BY <1>10 DEF Server, ReceiverIdle, downstreamVars
  <2>2. \A x \in Objs : stage'[x] = stage[x] \/ stage'[x] = "free"
    BY <1>10, ServerStepStages DEF Server, DeliveryLost, WorkInv, TypeOK
  <2> QED
    BY <2>1, <2>2 DEF Stages
<1>11. CASE UNCHANGED vars
  BY <1>11 DEF vars, consumerVars
<1> QED
  BY <1>3, <1>5, <1>6, <1>7, <1>8, <1>9, <1>10, <1>11 DEF Next, Returns

LEMMA NextAcceptances == WorkInv /\ AcceptancesToCome /\ [Next]_vars
                           => AcceptancesToCome'
<1> SUFFICES ASSUME WorkInv, AcceptancesToCome, [Next]_vars,
                    NEW m \in Msgs, expired'[m] < ExpiryCap
             PROVE  accepted'[m] + ToCome(Stages, m)' <= 1 + expired'[m]
  BY DEF AcceptancesToCome
<1>1. /\ accepted[m] \in Nat /\ accepted'[m] \in Nat /\ expired[m] \in Nat
      /\ ConsumerTypeOK(Stages)
  <2>1. TypeOK /\ TypeOK'
    BY NextType DEF WorkInv
  <2> QED
    BY <2>1, ConsumerAssumption DEF TypeOK, ConsumerTypeOK, D!DownstreamTypeOK
<1>2. expired[m] < ExpiryCap => accepted[m] + ToCome(Stages, m) <= 1 + expired[m]
  BY DEF AcceptancesToCome
<1>3. CASE UNCHANGED serverVars
  <2>1. expired' = expired
    BY <1>3 DEF serverVars
  <2>2. CASE accepted'[m] = accepted[m]
    <3>1. /\ ToCome(Stages, m)' \in Nat /\ ToCome(Stages, m) \in Nat
          /\ ToCome(Stages, m)' <= ToCome(Stages, m)
      BY <1>3, ReceiverEndsLives, NothingNew
    <3> QED
      BY <1>1, <1>2, <2>1, <2>2, <3>1
  <2>3. CASE accepted'[m] # accepted[m]
    <3>1. accepted'[m] <= accepted[m] + 1
      BY <1>3, <2>3, ReceiverEndsLives
    <3>2. PICK o \in Live(Stages, m) : Live(Stages, m)' \subseteq Live(Stages, m) \ {o}
      BY <1>3, <2>3, ReceiverEndsLives
    <3>3. /\ ToCome(Stages, m)' \in Nat /\ ToCome(Stages, m) \in Nat
          /\ ToCome(Stages, m)' + 1 <= ToCome(Stages, m)
      BY <1>3, <3>2, OneLess
    <3> QED
      BY <1>1, <1>2, <2>1, <3>1, <3>3
  <2> QED
    BY <2>2, <2>3
<1>4. ASSUME NEW o \in Objs, Deliver(o, "inbox"), UNCHANGED downstreamVars
      PROVE  accepted'[m] + ToCome(Stages, m)' <= 1 + expired'[m]
  <2>1. /\ ToCome(Stages, m)' \in Nat /\ ToCome(Stages, m) \in Nat
        /\ ToCome(Stages, m)' <= ToCome(Stages, m) /\ expired' = expired
    BY <1>1, <1>4, DeliverToCome
  <2> QED
    BY <1>1, <1>2, <1>4, <2>1 DEF downstreamVars
<1>5. CASE Server
  <2>1. "free" \notin Stages
    BY DEF Stages
  <2>2. ServerStep \/ \E n \in Msgs : DeliveryLost(n)
    BY <1>5 DEF Server
  <2>3. /\ ToCome(Stages, m)' \in Nat /\ ToCome(Stages, m) \in Nat
        /\ expired'[m] \in Nat /\ expired[m] < ExpiryCap
        /\ ToCome(Stages, m)' + expired[m] <= ToCome(Stages, m) + expired'[m]
    BY <1>1, <2>1, <2>2, ServerToCome
  <2>4. accepted' = accepted
    BY <1>5 DEF Server, ReceiverIdle, downstreamVars
  <2> QED
    BY <1>1, <1>2, <2>3, <2>4
<1> QED
  BY <1>3, <1>4, <1>5, ServerUntouched

------------------------------------------------------------------------------
(* The inductive invariant and what follows from it.                        *)

LEMMA InitIInv == Init => IInv
<1> SUFFICES ASSUME Init PROVE IInv
  OBVIOUS
<1>1. /\ \A o \in Objs : stage[o] = "free"
      /\ \A m \in Msgs : /\ status[m] = "ready" /\ delivered[m] = 0
                         /\ expired[m] = 0 /\ accepted[m] = 0
  BY DEF Init, ConsumerInit, D!DownstreamInit
<1>2. WorkInv
  BY InitType, InitWork DEF WorkInv
<1>3. Justified
  BY <1>1 DEF Justified
<1>4. AttemptsToCome
  BY <1>1 DEF AttemptsToCome, Ready
<1>5. ASSUME NEW m \in Msgs PROVE ToCome(Stages, m) = 1
  <2>1. Live(Stages, m) = {}
    BY <1>1 DEF Live, Stages
  <2> QED
    BY <1>1, <2>1, FS_EmptySet DEF ToCome, Ready
<1>6. AcceptancesToCome
  BY <1>1, <1>5 DEF AcceptancesToCome
<1> QED
  BY <1>2, <1>3, <1>4, <1>6 DEF IInv

LEMMA InductiveInvariant == Spec => []IInv
<1>1. IInv /\ [Next]_vars => IInv'
  BY NextWork, NextJustified, NextAttempts, NextAcceptances DEF IInv
<1> QED
  BY <1>1, InitIInv, PTL DEF Spec

(* However stale deliveries, answers in flight, Shutdown, crashes and the   *)
(* expiries of AckWait interleave, the pipeline takes a message again only  *)
(* when AckWait expired on it.                                              *)
THEOREM NoDuplicateWithoutExpiry == Spec => []DuplicatesNeedExpiry
<1>1. IInv => DuplicatesNeedExpiry
  <2> SUFFICES ASSUME IInv, NEW m \in Msgs, expired[m] < ExpiryCap
               PROVE  accepted[m] <= 1 + expired[m]
    BY DEF DuplicatesNeedExpiry
  <2>1. accepted[m] \in Nat /\ expired[m] \in Nat
    BY ConsumerAssumption DEF IInv, WorkInv, TypeOK, ConsumerTypeOK, D!DownstreamTypeOK
  <2>2. accepted[m] + ToCome(Stages, m) <= 1 + expired[m]
    BY DEF IInv, AcceptancesToCome
  <2> QED
    BY <2>1, <2>2, ToComeNat
<1> QED
  BY <1>1, InductiveInvariant, PTL

(* Until a readable message is offered to the pipeline, an expiry of        *)
(* AckWait is the only thing that uses up more than its first attempt.      *)
THEOREM AttemptsBurn == Spec => []AttemptsBurnOnlyByExpiry
<1>1. IInv => AttemptsBurnOnlyByExpiry
  <2> SUFFICES ASSUME IInv, NEW m \in Msgs \ (Unreadable \union offered),
                      expired[m] < ExpiryCap
               PROVE  delivered[m] <= 1 + expired[m]
    BY DEF AttemptsBurnOnlyByExpiry
  <2>1. delivered[m] \in Nat /\ expired[m] \in Nat
    BY ConsumerAssumption DEF IInv, WorkInv, TypeOK, ConsumerTypeOK
  <2>2. delivered[m] + Ready(m) <= 1 + expired[m]
    BY DEF IInv, AttemptsToCome
  <2> QED
    BY <2>1, <2>2, ToComeNat
<1> QED
  BY <1>1, InductiveInvariant, PTL

------------------------------------------------------------------------------
(* The receiver implements the at-least-once contract.                      *)

LEMMA InitImplements == Init => A!Init
<1> SUFFICES ASSUME Init PROVE A!Init
  OBVIOUS
<1>1. /\ \A m \in Msgs : status[m] = "ready" /\ accepted[m] = 0
      /\ refused = {}
  BY DEF Init, ConsumerInit, D!DownstreamInit
<1> QED
  BY <1>1 DEF A!Init

(* An answer that arrives settles a message the pipeline answered for, or   *)
(* changes nothing the contract sees.                                       *)
LEMMA AnswerImplements ==
  ASSUME IInv, NEW o \in Objs, AnswerEnds(o), UNCHANGED downstreamVars
  PROVE  A!Next \/ UNCHANGED A!avars
<1>1. status \in [Msgs -> Statuses] /\ Msg(o) \in Msgs
  BY MsgOfObject DEF IInv, WorkInv, TypeOK, ConsumerTypeOK
<1>2. accepted' = accepted /\ refused' = refused
  BY DEF downstreamVars
<1>3. CASE AckArrives(o) /\ ~Settled(Msg(o))
  <2>1. accepted[Msg(o)] > 0
    BY <1>3 DEF AckArrives, IInv, Justified
  <2>2. status[Msg(o)] \notin {"acked", "termed"} /\ status' = [status EXCEPT ![Msg(o)] = "acked"]
    BY <1>1, <1>3 DEF AckArrives, Settled
  <2>3. A!Acknowledge(Msg(o))
    BY <1>1, <1>2, <2>1, <2>2 DEF A!Acknowledge, A!Owed
  <2> QED
    BY <1>1, <2>3 DEF A!Next
<1>4. CASE TermArrives(o) /\ ~Settled(Msg(o))
  <2>1. Msg(o) \in refused \union Unreadable
    BY <1>4 DEF TermArrives, IInv, Justified
  <2>2. status[Msg(o)] \notin {"acked", "termed"} /\ status' = [status EXCEPT ![Msg(o)] = "termed"]
    BY <1>1, <1>4 DEF TermArrives, Settled
  <2>3. A!Discard(Msg(o))
    BY <1>1, <1>2, <2>1, <2>2 DEF A!Discard, A!Owed
  <2> QED
    BY <1>1, <2>3 DEF A!Next
<1>5. CASE (AckArrives(o) \/ TermArrives(o)) /\ Settled(Msg(o))
  <2>1. status' = status
    BY <1>1, <1>5 DEF AckArrives, TermArrives
  <2> QED
    BY <1>2, <2>1 DEF A!avars
<1>6. CASE NakArrives(o) \/ AnswerLost(o)
  <2>1. \A m \in Msgs : \/ status'[m] = status[m]
                        \/ status[m] = "pending" /\ status'[m] = "ready"
    BY <1>1, <1>6 DEF NakArrives, AnswerLost
  <2> QED
    BY <1>2, <2>1 DEF A!avars
<1> QED
  BY <1>3, <1>4, <1>5, <1>6 DEF AnswerEnds

(* A call that returns is a taking or a rejection of its message.           *)
LEMMA ReturnsImplements ==
  ASSUME IInv, NEW p \in Procs, NEW o \in Objs, Returns(p, o)
  PROVE  A!Next \/ UNCHANGED A!avars
<1>1. /\ accepted \in [Msgs -> 0..ExpiryCap + 1] /\ ExpiryCap \in Nat
      /\ Msg(o) \in Msgs
  BY MsgOfObject, ConsumerAssumption DEF IInv, WorkInv, TypeOK, D!DownstreamTypeOK
<1>2. status' = status
  BY DEF Returns, ConsumeOk, ConsumeRetryable, ConsumePermanent, ConsumeReturns, Answer
<1>3. Msg(o) \notin Unreadable
  BY DEF Returns, ConsumeOk, ConsumeRetryable, ConsumePermanent, ConsumeReturns,
         IInv, Justified
<1>4. CASE ConsumeOk(p, o)
  <2>1. \A m \in Msgs : accepted'[m] > 0 <=> m = Msg(o) \/ accepted[m] > 0
    BY <1>1, <1>4 DEF ConsumeOk, D!Accept
  <2>2. refused' = refused
    BY <1>4 DEF ConsumeOk, D!Accept
  <2>3. A!Take({Msg(o)})
    BY <1>1, <1>2, <1>3, <2>1, <2>2 DEF A!Take
  <2> QED
    BY <1>1, <2>3 DEF A!Next
<1>5. CASE ConsumePermanent(p, o)
  <2>1. A!Reject({Msg(o)})
    BY <1>2, <1>3, <1>5 DEF ConsumePermanent, D!Refuse, A!Reject
  <2> QED
    BY <1>1, <2>1 DEF A!Next
<1>6. CASE ConsumeRetryable(p, o)
  BY <1>2, <1>6 DEF ConsumeRetryable, downstreamVars, A!avars
<1> QED
  BY <1>4, <1>5, <1>6 DEF Returns

(* Every step of the receiver is a step of the contract or none of its      *)
(* business.                                                                *)
LEMMA NextImplements == IInv /\ [Next]_vars => A!Next \/ UNCHANGED A!avars
<1> SUFFICES ASSUME IInv, [Next]_vars PROVE A!Next \/ UNCHANGED A!avars
  OBVIOUS
<1>1. status \in [Msgs -> Statuses]
  BY DEF IInv, WorkInv, TypeOK, ConsumerTypeOK
<1>2. ASSUME NEW m \in Msgs, Deliverable(m), CountDelivery(m), UNCHANGED <<accepted, refused>>
      PROVE  UNCHANGED A!avars
  <2>1. status[m] = "ready" /\ status' = [status EXCEPT ![m] = "pending"]
    BY <1>2 DEF Deliverable, CountDelivery
  <2> QED
    BY <1>1, <1>2, <2>1 DEF A!avars
<1>3. CASE Lifecycle
  BY <1>3 DEF Lifecycle, StartWorkers, ConsumeStarts, ConsumeFails, StartGivesUp,
              HostCancelsStart, ShutdownCancels, DrainEnds, ShutdownEnds, Restart,
              consumerVars, downstreamVars, Answer, ProcessDies, A!avars
<1>4. ASSUME NEW p \in Procs, NEW o \in Objs, Handle(p, o)
      PROVE  UNCHANGED A!avars
  BY <1>4 DEF Handle, RejectUnreadable, BeginConsume, Answer, D!Offer, serverVars,
              downstreamVars, A!avars
<1>5. ASSUME NEW o \in Objs, ReceiveMessage(o) PROVE UNCHANGED A!avars
  BY <1>2, <1>5, MsgOfObject DEF ReceiveMessage, Deliver, downstreamVars
<1>6. ASSUME NEW o \in Objs, CallbackStep(o) PROVE UNCHANGED A!avars
  BY <1>4, <1>6 DEF CallbackStep, CallbackHandles, CallbackOffersJob, EnqueueJob, DropJob,
                    Procs, serverVars, downstreamVars, A!avars
<1>7. ASSUME NEW w \in Workers, ReadJobsField(w) \/ WorkerExits(w)
      PROVE  UNCHANGED A!avars
  BY <1>7 DEF ReadJobsField, WorkerExits, consumerVars, downstreamVars, A!avars
<1>8. ASSUME NEW w \in Workers, NEW o \in Objs, TakeJob(w, o)
      PROVE  UNCHANGED A!avars
  BY <1>4, <1>8 DEF TakeJob, Procs
<1>9. CASE Server
  <2>1. UNCHANGED downstreamVars
    BY <1>9 DEF Server, ReceiverIdle
  <2>2. ASSUME NEW m \in Msgs, AckWaitExpires(m) PROVE UNCHANGED A!avars
    <3>1. status[m] = "pending" /\ status' = [status EXCEPT ![m] = "ready"]
      BY <2>2 DEF AckWaitExpires
    <3> QED
      BY <1>1, <2>1, <3>1 DEF downstreamVars, A!avars
  <2>3. ASSUME NEW m \in Msgs, DeliveryLost(m) PROVE UNCHANGED A!avars
    BY <1>2, <2>1, <2>3 DEF DeliveryLost, downstreamVars
  <2> QED
    BY <1>9, <2>1, <2>2, <2>3, AnswerImplements DEF Server, ServerStep
<1>10. CASE UNCHANGED vars
  BY <1>10 DEF vars, consumerVars, A!avars
<1> QED
  BY <1>3, <1>5, <1>6, <1>7, <1>8, <1>9, <1>10, ReturnsImplements DEF Next

(* The receiver implements the at-least-once contract: no interleaving      *)
(* settles a message the pipeline did not answer for.                       *)
THEOREM ImplementsAtLeastOnce == Spec => AtLeastOnceDelivery
<1>1. IInv /\ [Next]_vars => [A!Next]_A!avars
  BY NextImplements
<1> QED
  BY <1>1, InitImplements, InductiveInvariant, PTL DEF Spec, A!Spec, AtLeastOnceDelivery
==============================================================================
