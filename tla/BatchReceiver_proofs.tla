------------------------- MODULE BatchReceiver_proofs -------------------------
(****************************************************************************)
(* Proofs about BatchReceiver, for every set of messages, workers, copies   *)
(* and every bound.  Batches says who holds what and what a downstream call *)
(* is made of; Justified, what each answer rests on; AcceptancesToCome      *)
(* counts what may still happen to a message.  Each property of the         *)
(* receiver follows from their conjunction IInv, which every step           *)
(* preserves.                                                               *)
(****************************************************************************)
EXTENDS BatchReceiver, FiniteSetTheorems, TLAPS

------------------------------------------------------------------------------
(* The consumer: what each of its steps does to the types and to how often  *)
(* a message may still be accepted.  SingleReceiver_proofs rests on         *)
(* the same lemmas.                                                         *)

(* Whether the server may hand m out, as a number of deliveries to come.    *)
Ready(m) == IF status[m] = "ready" THEN 1 ELSE 0

(* The objects of m that may still lead to an acceptance: those at a stage  *)
(* of S inside the process, and the Naks that would make m ready again.     *)
Live(S, m) == {o \in Objs : Msg(o) = m /\ stage[o] \in S \union {"nak"}}

(* How often m may still be accepted if AckWait never expires on it again.  *)
ToCome(S, m) == Cardinality(Live(S, m)) + Ready(m)

(* Every object is a copy of a message of the stream.                       *)
LEMMA MsgOfObject == \A o \in Objs : Msg(o) \in Msgs
  BY DEF Objs, Msg

(* Handing a message to the process keeps the types.                        *)
LEMMA DeliverType ==
  ASSUME NEW S, NEW s \in S, NEW o \in Objs, ConsumerTypeOK(S), Deliver(o, s)
  PROVE  ConsumerTypeOK(S)'
<1> Msg(o) \in Msgs
  BY MsgOfObject
<1>1. status' \in [Msgs -> Statuses] /\ expired' \in [Msgs -> 0..ExpiryCap]
  BY DEF Deliver, CountDelivery, ConsumerTypeOK, Statuses
<1>2. delivered' \in [Msgs -> 0..MaxDeliver]
  BY ConsumerAssumption DEF Deliver, CountDelivery, ConsumerTypeOK
<1>3. stage' \in [Objs -> S \union Wire \union {"free"}]
  BY DEF Deliver, ConsumerTypeOK
<1> QED
  BY <1>1, <1>2, <1>3 DEF ConsumerTypeOK

(* So does a delivery that is lost on its way.                              *)
LEMMA DeliveryLostType ==
  ASSUME NEW S, NEW m \in Msgs, ConsumerTypeOK(S), DeliveryLost(m)
  PROVE  ConsumerTypeOK(S)'
<1>1. delivered' \in [Msgs -> 0..MaxDeliver]
  BY ConsumerAssumption DEF DeliveryLost, CountDelivery, ConsumerTypeOK
<1> QED
  BY <1>1 DEF DeliveryLost, CountDelivery, ConsumerTypeOK, Statuses

(* So do an expiry and the end of an answer in flight.                      *)
LEMMA ServerStepType ==
  ASSUME NEW S, ConsumerTypeOK(S), ServerStep
  PROVE  ConsumerTypeOK(S)'
<1>1. ASSUME NEW m \in Msgs, AckWaitExpires(m) PROVE ConsumerTypeOK(S)'
  <2>1. expired' \in [Msgs -> 0..ExpiryCap]
    BY <1>1, ConsumerAssumption DEF AckWaitExpires, ConsumerTypeOK
  <2> QED
    BY <1>1, <2>1 DEF AckWaitExpires, ConsumerTypeOK, Statuses
<1>2. ASSUME NEW o \in Objs, AnswerEnds(o) PROVE ConsumerTypeOK(S)'
  <2>1. Msg(o) \in Msgs
    BY MsgOfObject
  <2>2. stage' \in [Objs -> S \union Wire \union {"free"}]
    BY <1>2 DEF AnswerEnds, AckArrives, TermArrives, NakArrives, AnswerLost,
                ConsumerTypeOK
  <2>3. status' \in [Msgs -> Statuses]
    BY <1>2, <2>1 DEF AnswerEnds, AckArrives, TermArrives, NakArrives, AnswerLost,
                ConsumerTypeOK, Statuses
  <2> QED
    BY <1>2, <2>2, <2>3 DEF AnswerEnds, AckArrives, TermArrives, NakArrives,
                            AnswerLost, ConsumerTypeOK
<1> QED
  BY <1>1, <1>2 DEF ServerStep

(* The server by itself moves no object but an answer in flight.            *)
LEMMA ServerStepStages ==
  ASSUME NEW S, ConsumerTypeOK(S), ServerStep, NEW x \in Objs
  PROVE  stage'[x] = stage[x] \/ (stage[x] \in Wire /\ stage'[x] = "free")
<1>1. ASSUME NEW m \in Msgs, AckWaitExpires(m) PROVE stage' = stage
  BY <1>1 DEF AckWaitExpires
<1>2. ASSUME NEW o \in Objs, AnswerEnds(o)
      PROVE  stage[o] \in Wire /\ stage' = [stage EXCEPT ![o] = "free"]
  BY <1>2 DEF AnswerEnds, AckArrives, TermArrives, NakArrives, AnswerLost, Wire
<1>3. stage \in [Objs -> S \union Wire \union {"free"}]
  BY DEF ConsumerTypeOK
<1> QED
  BY <1>1, <1>2, <1>3 DEF ServerStep

(* So does an answer of the process, and the end of the process.            *)
LEMMA AnswerType ==
  ASSUME NEW S, NEW answered, NEW a \in S \union Wire, NEW failed, NEW dropped,
         ConsumerTypeOK(S), Answer(answered, a, failed, dropped)
  PROVE  ConsumerTypeOK(S)'
  BY DEF Answer, ConsumerTypeOK

LEMMA ProcessDiesType ==
  ASSUME NEW S, ConsumerTypeOK(S), ProcessDies
  PROVE  ConsumerTypeOK(S)'
  BY DEF ProcessDies, ConsumerTypeOK

------------------------------------------------------------------------------
(* How the acceptances to come change.                                      *)

LEMMA ObjectSets ==
  \A L \in SUBSET Objs : IsFiniteSet(L) /\ Cardinality(L) \in Nat
<1>1. IsFiniteSet(Objs)
  BY ConsumerAssumption, FS_Product DEF Objs
<1> QED
  BY <1>1, FS_Subset, FS_CardinalityType

LEMMA ToComeNat ==
  ASSUME NEW S, NEW m \in Msgs
  PROVE  ToCome(S, m) \in Nat /\ Ready(m) \in Nat
<1>1. Live(S, m) \in SUBSET Objs
  BY DEF Live
<1>2. Cardinality(Live(S, m)) \in Nat
  BY <1>1, ObjectSets
<1> QED
  BY <1>2 DEF ToCome, Ready

(* A step that leaves the server's records alone and gives m no new live    *)
(* object adds nothing to come.                                             *)
LEMMA NothingNew ==
  ASSUME NEW S, NEW m \in Msgs, UNCHANGED serverVars,
         Live(S, m)' \subseteq Live(S, m)
  PROVE  /\ ToCome(S, m)' \in Nat /\ ToCome(S, m) \in Nat
         /\ ToCome(S, m)' <= ToCome(S, m)
<1>1. Live(S, m) \in SUBSET Objs /\ Live(S, m)' \in SUBSET Objs
  BY DEF Live
<1>2. Cardinality(Live(S, m)') <= Cardinality(Live(S, m))
  BY <1>1, ObjectSets, FS_Subset
<1>3. Cardinality(Live(S, m)) \in Nat /\ Cardinality(Live(S, m)') \in Nat
  BY <1>1, ObjectSets
<1> QED
  BY <1>2, <1>3 DEF ToCome, Ready, serverVars

(* One that ends a live object of m takes one away.                         *)
LEMMA OneLess ==
  ASSUME NEW S, NEW m \in Msgs, UNCHANGED serverVars, NEW o \in Live(S, m),
         Live(S, m)' \subseteq Live(S, m) \ {o}
  PROVE  /\ ToCome(S, m)' \in Nat /\ ToCome(S, m) \in Nat
         /\ ToCome(S, m)' + 1 <= ToCome(S, m)
<1>1. /\ Live(S, m) \in SUBSET Objs /\ Live(S, m)' \in SUBSET Objs
      /\ Live(S, m) \ {o} \in SUBSET Objs
  BY DEF Live
<1>2. /\ Cardinality(Live(S, m)') <= Cardinality(Live(S, m) \ {o})
      /\ Cardinality(Live(S, m) \ {o}) = Cardinality(Live(S, m)) - 1
  BY <1>1, ObjectSets, FS_Subset, FS_RemoveElement
<1>3. Cardinality(Live(S, m)) \in Nat /\ Cardinality(Live(S, m)') \in Nat
  BY <1>1, ObjectSets
<1> QED
  BY <1>2, <1>3 DEF ToCome, Ready, serverVars

(* A delivery turns what was to come into a live object, at most.           *)
LEMMA DeliverToCome ==
  ASSUME NEW S, NEW m \in Msgs, NEW s, NEW o \in Objs,
         ConsumerTypeOK(S), Deliver(o, s)
  PROVE  /\ ToCome(S, m)' \in Nat /\ ToCome(S, m) \in Nat
         /\ ToCome(S, m)' <= ToCome(S, m) /\ expired' = expired
<1>1. /\ status \in [Msgs -> Statuses]
      /\ stage \in [Objs -> S \union Wire \union {"free"}]
      /\ Msg(o) \in Msgs
  BY MsgOfObject DEF ConsumerTypeOK
<1>2. /\ status[Msg(o)] = "ready" /\ expired' = expired
      /\ status' = [status EXCEPT ![Msg(o)] = "pending"]
      /\ stage' = [stage EXCEPT ![o] = s]
  BY DEF Deliver, Deliverable, CountDelivery
<1>3. Live(S, m) \in SUBSET Objs /\ Live(S, m)' \in SUBSET Objs
  BY DEF Live
<1>4. /\ Cardinality(Live(S, m)) \in Nat /\ Cardinality(Live(S, m)') \in Nat
      /\ IsFiniteSet(Live(S, m))
  BY <1>3, ObjectSets
<1>5. CASE Msg(o) = m
  <2>1. Live(S, m)' \subseteq Live(S, m) \union {o}
    BY <1>1, <1>2 DEF Live
  <2>2. Cardinality(Live(S, m)') <= Cardinality(Live(S, m)) + 1
    <3>1. IsFiniteSet(Live(S, m) \union {o})
      BY <1>4, FS_AddElement
    <3>2. Cardinality(Live(S, m)') <= Cardinality(Live(S, m) \union {o})
      BY <2>1, <3>1, FS_Subset
    <3>3. Cardinality(Live(S, m) \union {o}) \in
            {Cardinality(Live(S, m)), Cardinality(Live(S, m)) + 1}
      BY <1>4, FS_AddElement
    <3> QED
      BY <3>2, <3>3, <1>4
  <2>3. Ready(m) = 1 /\ Ready(m)' = 0
    BY <1>1, <1>2, <1>5 DEF Ready
  <2> QED
    BY <1>2, <1>4, <2>2, <2>3 DEF ToCome
<1>6. CASE Msg(o) # m
  <2>1. Live(S, m)' \subseteq Live(S, m)
    BY <1>1, <1>2, <1>6 DEF Live
  <2>2. Cardinality(Live(S, m)') <= Cardinality(Live(S, m))
    BY <2>1, <1>4, FS_Subset
  <2>3. Ready(m)' = Ready(m) /\ Ready(m) \in Nat
    BY <1>1, <1>2, <1>6 DEF Ready
  <2> QED
    BY <1>2, <1>4, <2>2, <2>3 DEF ToCome
<1> QED
  BY <1>5, <1>6

(* The server adds an acceptance to come only by an expiry: a Nak that      *)
(* arrives trades its object for a delivery, a lost delivery takes one.     *)
LEMMA ServerToCome ==
  ASSUME NEW S, "free" \notin S, NEW m \in Msgs, ConsumerTypeOK(S),
         expired'[m] < ExpiryCap, ServerStep \/ \E n \in Msgs : DeliveryLost(n)
  PROVE  /\ ToCome(S, m)' \in Nat /\ ToCome(S, m) \in Nat
         /\ expired[m] \in Nat /\ expired'[m] \in Nat
         /\ expired[m] < ExpiryCap
         /\ ToCome(S, m)' + expired[m] <= ToCome(S, m) + expired'[m]
<1>1. /\ status \in [Msgs -> Statuses] /\ expired \in [Msgs -> 0..ExpiryCap]
      /\ stage \in [Objs -> S \union Wire \union {"free"}] /\ ExpiryCap \in Nat
  BY ConsumerAssumption DEF ConsumerTypeOK
<1>2. Live(S, m) \in SUBSET Objs /\ Live(S, m)' \in SUBSET Objs
  BY DEF Live
<1>3. /\ Cardinality(Live(S, m)) \in Nat /\ Cardinality(Live(S, m)') \in Nat
      /\ IsFiniteSet(Live(S, m))
  BY <1>2, ObjectSets
<1>4. Ready(m) \in 0..1 /\ Ready(m)' \in 0..1
  BY DEF Ready
<1>5. ASSUME NEW n \in Msgs, DeliveryLost(n)
      PROVE  /\ expired' = expired /\ Live(S, m)' = Live(S, m) /\ Ready(m)' <= Ready(m)
  BY <1>1, <1>5 DEF DeliveryLost, CountDelivery, Live, Ready
<1>6. ASSUME NEW n \in Msgs, AckWaitExpires(n)
      PROVE  /\ expired[m] < ExpiryCap /\ Live(S, m)' = Live(S, m)
             /\ Ready(m)' + expired[m] <= Ready(m) + expired'[m]
  <2>1. Live(S, m)' = Live(S, m)
    BY <1>6 DEF AckWaitExpires, Live
  <2>2. CASE n = m
    <3>1. /\ status'[m] = "ready" /\ status[m] = "pending"
          /\ expired'[m] = IF expired[m] < ExpiryCap THEN expired[m] + 1 ELSE expired[m]
      BY <1>1, <1>6, <2>2 DEF AckWaitExpires
    <3> QED
      BY <1>1, <2>1, <3>1 DEF Ready
  <2>3. CASE n # m
    <3>1. status'[m] = status[m] /\ expired'[m] = expired[m]
      BY <1>1, <1>6, <2>3 DEF AckWaitExpires
    <3> QED
      BY <1>1, <2>1, <3>1 DEF Ready
  <2> QED
    BY <2>2, <2>3
<1>7. ASSUME NEW o \in Objs, AnswerEnds(o)
      PROVE  /\ expired' = expired
             /\ \/ Live(S, m)' \subseteq Live(S, m) /\ Ready(m)' <= Ready(m)
                \/ o \in Live(S, m) /\ Live(S, m)' \subseteq Live(S, m) \ {o}
  <2>1. expired' = expired /\ stage' = [stage EXCEPT ![o] = "free"] /\ stage[o] \in Wire
    BY <1>7 DEF AnswerEnds, AckArrives, TermArrives, NakArrives, AnswerLost, Wire
  <2>2. Live(S, m)' \subseteq Live(S, m)
    BY <1>1, <2>1 DEF Live
  <2>3. CASE stage[o] = "nak" /\ Msg(o) = m
    BY <1>1, <2>1, <2>3 DEF Live
  <2>4. CASE stage[o] # "nak" \/ Msg(o) # m
    <3>1. status'[m] = "ready" => status[m] = "ready"
      BY <1>1, <1>7, <2>4, MsgOfObject
      DEF AnswerEnds, AckArrives, TermArrives, NakArrives, AnswerLost
    <3> QED
      BY <2>1, <2>2, <3>1 DEF Ready
  <2> QED
    BY <2>1, <2>3, <2>4
<1>8. ASSUME Live(S, m)' \subseteq Live(S, m)
      PROVE  Cardinality(Live(S, m)') <= Cardinality(Live(S, m))
  BY <1>8, <1>3, FS_Subset
<1>9. ASSUME NEW o \in Live(S, m), Live(S, m)' \subseteq Live(S, m) \ {o}
      PROVE  Cardinality(Live(S, m)') + 1 <= Cardinality(Live(S, m))
  <2>1. /\ IsFiniteSet(Live(S, m) \ {o})
        /\ Cardinality(Live(S, m) \ {o}) = Cardinality(Live(S, m)) - 1
    BY <1>3, FS_RemoveElement
  <2>2. Cardinality(Live(S, m)') <= Cardinality(Live(S, m) \ {o})
    BY <1>9, <2>1, FS_Subset
  <2> QED
    BY <1>3, <2>1, <2>2
<1> QED
  <2>1. expired'[m] \in Nat /\ expired[m] \in Nat
    BY <1>1, <1>5, <1>6, <1>7 DEF ServerStep, AckWaitExpires
  <2>2. CASE \E n \in Msgs : DeliveryLost(n)
    BY <2>2, <2>1, <1>3, <1>4, <1>5, <1>8 DEF ToCome
  <2>3. CASE \E n \in Msgs : AckWaitExpires(n)
    BY <2>3, <2>1, <1>3, <1>4, <1>6, <1>8 DEF ToCome
  <2>4. CASE \E o \in Objs : AnswerEnds(o)
    BY <2>4, <2>1, <1>3, <1>4, <1>7, <1>8, <1>9 DEF ToCome
  <2> QED
    BY <2>2, <2>3, <2>4 DEF ServerStep

------------------------------------------------------------------------------
(* The inductive invariant, in named parts.                                 *)

(* A fetched message is in the batch of exactly one worker, which is at     *)
(* work on it, and a message is in a call only while its worker waits for   *)
(* that call.                                                               *)
Ownership ==
  /\ \A w \in Workers : \A o \in held[w] : stage[o] \in Stages
  /\ \A v, w \in Workers : v # w => held[v] \intersect held[w] = {}
  /\ \A w \in Workers : held[w] # {} => worker[w] \in {"fetch", "group", "consume"}
  /\ \A o \in Objs : stage[o] \in Stages => \E w \in Workers : o \in held[w]
  /\ \A w \in Workers : worker[w] # "consume" => Call(w) = {}

(* What a batch holds at each point of handleMessages.                      *)
Batches ==
  /\ \A w \in Workers : worker[w] \in {"group", "consume"} =>
       \A o \in held[w] : Msg(o) \notin Undecodable
  /\ \A w \in Workers : \A o \in Call(w) : Msg(o) \notin Unreadable
  /\ \A w \in Workers : worker[w] = "consume" =>
       /\ Call(w) # {}
       /\ ~grouped => Call(w) = held[w]

(* Before Start and after Shutdown every worker is gone.                    *)
Phases ==
  /\ conn <=> life \in {"running", "closing"}
  /\ ~conn => AllGone

WorkInv == TypeOK /\ Ownership /\ Batches /\ Phases /\ OneSubjectPerCall

(* What a message went through before it reached its stage.                 *)
Justified ==
  \A o \in Objs :
    /\ stage[o] = "ack" => accepted[Msg(o)] > 0
    /\ stage[o] = "term" => Msg(o) \in refused \union Unreadable
    /\ (grouped /\ stage[o] = "term") =>
         Msg(o) \in Unreadable \/ \E p \in Poison : SubjectOf[p] = Subject(o)

(* An acceptance needs an object of the message or a delivery to come, and  *)
(* only an expiry adds one.                                                 *)
AcceptancesToCome ==
  \A m \in Msgs :
    expired[m] < ExpiryCap =>
      accepted[m] + ToCome(Stages, m) <= 1 + expired[m]

IInv == WorkInv /\ Justified /\ RefusalStaysInSubject /\ AcceptancesToCome

------------------------------------------------------------------------------
(* What the steps of a worker do to the messages of its batch.              *)

StepOf(w) == WorkerStep(w) \/ \E o \in Objs : FetchDelivers(w, o)

LEMMA FetchEndsMoves ==
  ASSUME TypeOK, NEW w \in Workers, FetchEnds(w)
  PROVE  /\ held'[w] = {o \in held[w] : Msg(o) \notin Undecodable}
         /\ \A o \in Objs :
              IF o \in held[w] /\ Msg(o) \in Undecodable
                THEN stage'[o] \in {"term", "free"} ELSE stage'[o] = stage[o]
         /\ worker[w] = "fetch"
         /\ worker'[w] = IF held'[w] = {} THEN "top" ELSE "group"
         /\ \A v \in Workers \ {w} : held'[v] = held[v] /\ worker'[v] = worker[v]
         /\ UNCHANGED <<serverVars, lifeVars, downstreamVars>>
<1> DEFINE bad == {o \in held[w] : Msg(o) \in Undecodable}
<1>1. /\ worker[w] = "fetch" /\ Keep(w, held[w] \ bad) /\ UNCHANGED <<lifeVars, downstreamVars>>
      /\ \E failed \in SUBSET bad : Answer(bad, "term", failed, {})
  BY DEF FetchEnds
<1>2. /\ held \in [Workers -> SUBSET Objs]
      /\ worker \in [Workers -> {"top", "fetch", "group", "consume", "gone"}]
  BY DEF TypeOK
<1>3. /\ held'[w] = held[w] \ bad
      /\ worker'[w] = IF held'[w] = {} THEN "top" ELSE "group"
      /\ \A v \in Workers \ {w} : held'[v] = held[v] /\ worker'[v] = worker[v]
  BY <1>1, <1>2 DEF Keep
<1>4. /\ \A o \in Objs : IF o \in bad THEN stage'[o] \in {"term", "free"} ELSE stage'[o] = stage[o]
      /\ UNCHANGED serverVars
  BY <1>1 DEF Answer, serverVars
<1> QED
  BY <1>1, <1>3, <1>4

LEMMA CallBeginsMoves ==
  ASSUME TypeOK, NEW w \in Workers, NEW G \in Groups(w), CallBegins(w, G)
  PROVE  /\ G \subseteq held[w]
         /\ held'[w] = {o \in held[w] : o \notin G \/ Msg(o) \notin Malformed}
         /\ \A o \in Objs :
              IF o \in G
                THEN IF Msg(o) \in Malformed THEN stage'[o] \in {"term", "free"}
                                             ELSE stage'[o] = "consume"
                ELSE stage'[o] = stage[o]
         /\ worker[w] = "group"
         /\ \/ /\ worker'[w] = "consume" /\ \E o \in G : Msg(o) \notin Malformed
            \/ /\ worker'[w] = IF held'[w] = {} THEN "top" ELSE "group"
               /\ \A o \in G : Msg(o) \in Malformed
         /\ \A v \in Workers \ {w} : held'[v] = held[v] /\ worker'[v] = worker[v]
         /\ UNCHANGED <<serverVars, lifeVars, accepted, refused>>
<1> DEFINE bad == {o \in G : Msg(o) \in Malformed}
           valid == G \ bad
<1>1. /\ held \in [Workers -> SUBSET Objs]
      /\ worker \in [Workers -> {"top", "fetch", "group", "consume", "gone"}]
  BY DEF TypeOK
<1>2. G \subseteq held[w]
  BY DEF Groups
<1>3. /\ worker[w] = "group"
      /\ \E failed \in SUBSET bad :
           stage' = [o \in Objs |-> IF o \in failed THEN "free"
                                    ELSE IF o \in bad THEN "term"
                                    ELSE IF o \in valid THEN "consume" ELSE stage[o]]
      /\ IF valid = {}
           THEN Keep(w, held[w] \ bad)
           ELSE /\ held' = [held EXCEPT ![w] = @ \ bad]
                /\ worker' = [worker EXCEPT ![w] = "consume"]
      /\ D!Offer(MsgsOf(valid)) /\ UNCHANGED <<serverVars, lifeVars>>
  BY DEF CallBegins
<1>4. \A o \in Objs :
        IF o \in bad THEN stage'[o] \in {"term", "free"}
        ELSE IF o \in valid THEN stage'[o] = "consume" ELSE stage'[o] = stage[o]
  BY <1>3
<1>5. /\ held'[w] = held[w] \ bad
      /\ \A v \in Workers \ {w} : held'[v] = held[v] /\ worker'[v] = worker[v]
      /\ worker'[w] = IF valid # {} THEN "consume" ELSE IF held'[w] = {} THEN "top" ELSE "group"
  <2>1. CASE valid = {}
    BY <1>1, <1>3, <2>1 DEF Keep
  <2>2. CASE valid # {}
    BY <1>1, <1>3, <2>2
  <2> QED
    BY <2>1, <2>2
<1> QED
  BY <1>2, <1>3, <1>4, <1>5 DEF D!Offer

LEMMA CallReturnsMoves ==
  ASSUME TypeOK, NEW w \in Workers, NEW a \in Wire, NEW failed \in SUBSET Call(w),
         NEW ends \in BOOLEAN, CallReturns(w, a, failed, ends)
  PROVE  /\ held'[w] = IF ends THEN {} ELSE {o \in held[w] : o \notin Call(w)}
         /\ \A o \in Objs :
              IF o \in Call(w) THEN stage'[o] = IF o \in failed THEN "free" ELSE a
              ELSE IF ends /\ o \in held[w] THEN stage'[o] = "free" ELSE stage'[o] = stage[o]
         /\ worker[w] = "consume"
         /\ worker'[w] = IF held'[w] = {} THEN "top" ELSE "group"
         /\ \A v \in Workers \ {w} : held'[v] = held[v] /\ worker'[v] = worker[v]
         /\ UNCHANGED <<serverVars, lifeVars>>
<1> DEFINE dropped == IF ends THEN held[w] \ Call(w) ELSE {}
<1>1. /\ worker[w] = "consume" /\ Answer(Call(w), a, failed, dropped)
      /\ Keep(w, (held[w] \ Call(w)) \ dropped) /\ UNCHANGED lifeVars
  BY DEF CallReturns
<1>2. /\ held \in [Workers -> SUBSET Objs]
      /\ worker \in [Workers -> {"top", "fetch", "group", "consume", "gone"}]
  BY DEF TypeOK
<1>3. /\ held'[w] = (held[w] \ Call(w)) \ dropped
      /\ worker'[w] = IF held'[w] = {} THEN "top" ELSE "group"
      /\ \A v \in Workers \ {w} : held'[v] = held[v] /\ worker'[v] = worker[v]
  BY <1>1, <1>2 DEF Keep
<1>4. Call(w) \subseteq held[w]
  BY DEF Call
<1>5. /\ \A o \in Objs :
           stage'[o] = IF o \in dropped \union (Call(w) \intersect failed) THEN "free"
                       ELSE IF o \in Call(w) THEN a ELSE stage[o]
      /\ UNCHANGED serverVars
  BY <1>1 DEF Answer, serverVars
<1> QED
  BY <1>1, <1>3, <1>4, <1>5

(* Whatever a call returns, it is one of these.                             *)
LEMMA ReturnsIsCallReturns ==
  ASSUME NEW w \in Workers, Returns(w)
  PROVE  \E a \in Wire, failed \in SUBSET Call(w), ends \in BOOLEAN :
           /\ CallReturns(w, a, failed, ends)
           /\ ends => Call(w) = {} \/ a # "ack" \/ failed # {}
           /\ a = "ack" => D!Accept(MsgsOf(Call(w)))
           /\ a = "nak" => UNCHANGED downstreamVars
           /\ a = "term" => D!Refuse(MsgsOf(Call(w)))
<1>1. CASE CallOk(w)
  <2>1. PICK failed \in SUBSET Call(w) : CallReturns(w, "ack", failed, failed # {})
    BY <1>1 DEF CallOk
  <2>2. D!Accept(MsgsOf(Call(w)))
    BY <1>1 DEF CallOk
  <2> QED
    BY <2>1, <2>2 DEF Wire
<1>2. CASE CallRetryable(w)
  <2>1. PICK failed \in SUBSET Call(w) : CallReturns(w, "nak", failed, TRUE)
    BY <1>2 DEF CallRetryable
  <2> QED
    BY <1>2, <2>1 DEF CallRetryable, Wire
<1>3. CASE CallPermanent(w)
  <2>1. PICK failed \in SUBSET Call(w) : CallReturns(w, "term", failed, TRUE)
    BY <1>3 DEF CallPermanent
  <2> QED
    BY <1>3, <2>1 DEF CallPermanent, Wire
<1> QED
  BY <1>1, <1>2, <1>3 DEF Returns

------------------------------------------------------------------------------
(* Types.                                                                   *)

LEMMA InitType == Init => TypeOK
<1> SUFFICES ASSUME Init PROVE TypeOK
  OBVIOUS
<1>1. ConsumerTypeOK(Stages)
  BY ConsumerAssumption DEF Init, ConsumerInit, ConsumerTypeOK, Statuses
<1>2. D!DownstreamTypeOK
  BY ConsumerAssumption DEF Init, D!DownstreamInit, D!DownstreamTypeOK
<1>3. restarts \in 0..MaxRestarts
  BY BatchAssumption DEF Init
<1> QED
  BY <1>1, <1>2, <1>3 DEF Init, TypeOK

(* The steps of the pipeline's histories keep their types.                  *)
LEMMA DownstreamType ==
  ASSUME D!DownstreamTypeOK, NEW S \in SUBSET Msgs,
         D!Offer(S) \/ D!Accept(S) \/ D!Refuse(S) \/ UNCHANGED downstreamVars
  PROVE  D!DownstreamTypeOK'
  BY ConsumerAssumption DEF D!DownstreamTypeOK, D!Offer, D!Accept, D!Refuse,
                            downstreamVars

(* The messages of a set of objects are messages of the stream.             *)
LEMMA MsgsOfObjects == \A S \in SUBSET Objs : MsgsOf(S) \in SUBSET Msgs
  BY MsgOfObject DEF MsgsOf

LEMMA CallInBatch ==
  ASSUME TypeOK, NEW w \in Workers
  PROVE  /\ Call(w) \in SUBSET Objs /\ held[w] \in SUBSET Objs
         /\ Call(w) = {o \in held[w] : stage[o] = "consume"}
  BY DEF Call, TypeOK

(* A worker's step leaves every other worker where it is.                   *)
LEMMA WorkerType ==
  ASSUME TypeOK, NEW w \in Workers, StepOf(w)
  PROVE  TypeOK'
<1> USE DEF TypeOK
<1>1. CASE FetchBegins(w) \/ WorkerExits(w)
  BY <1>1 DEF FetchBegins, WorkerExits, consumerVars, lifeVars, downstreamVars,
              ConsumerTypeOK, D!DownstreamTypeOK
<1>2. ASSUME NEW o \in Objs, FetchDelivers(w, o) PROVE TypeOK'
  <2>1. ConsumerTypeOK(Stages)'
    BY <1>2, DeliverType DEF FetchDelivers, Stages
  <2> QED
    BY <1>2, <2>1, DownstreamType DEF FetchDelivers, lifeVars
<1>3. CASE FetchEnds(w)
  <2> DEFINE bad == {o \in held[w] : Msg(o) \in Undecodable}
  <2>1. PICK failed \in SUBSET bad : Answer(bad, "term", failed, {})
    BY <1>3 DEF FetchEnds
  <2>2. ConsumerTypeOK(Stages)'
    BY <2>1, AnswerType DEF Wire
  <2>3. /\ Keep(w, held[w] \ bad) /\ UNCHANGED <<lifeVars, downstreamVars>>
    BY <1>3 DEF FetchEnds
  <2> QED
    BY <2>2, <2>3, DownstreamType DEF Keep, lifeVars
<1>4. ASSUME NEW G \in Groups(w), CallBegins(w, G) PROVE TypeOK'
  <2> DEFINE bad == {o \in G : Msg(o) \in Malformed}
  <2>1. G \subseteq held[w] /\ held[w] \in SUBSET Objs
    BY DEF Groups
  <2>2. /\ held' \in [Workers -> SUBSET Objs]
        /\ worker' \in [Workers -> {"top", "fetch", "group", "consume", "gone"}]
    <3>1. CASE G \ bad = {}
      BY <1>4, <3>1 DEF CallBegins, Keep
    <3>2. CASE G \ bad # {}
      BY <1>4, <3>2 DEF CallBegins
    <3> QED
      BY <3>1, <3>2
  <2>3. ConsumerTypeOK(Stages)'
    BY <1>4 DEF CallBegins, ConsumerTypeOK, Stages, Wire, serverVars
  <2>4. D!DownstreamTypeOK'
    BY <1>4, <2>1, DownstreamType, MsgsOfObjects DEF CallBegins
  <2> QED
    BY <1>4, <2>2, <2>3, <2>4 DEF CallBegins, lifeVars
<1>5. CASE Returns(w)
  <2>1. PICK a \in Wire, failed \in SUBSET Call(w), ends \in BOOLEAN :
          CallReturns(w, a, failed, ends)
    BY <1>5, ReturnsIsCallReturns
  <2>2. ConsumerTypeOK(Stages)'
    BY <2>1, AnswerType DEF CallReturns
  <2>3. D!DownstreamTypeOK'
    BY <1>5, DownstreamType, MsgsOfObjects, CallInBatch
    DEF Returns, CallOk, CallRetryable, CallPermanent
  <2> QED
    BY <2>1, <2>2, <2>3 DEF CallReturns, Keep, lifeVars
<1> QED
  BY <1>1, <1>2, <1>3, <1>4, <1>5 DEF StepOf, WorkerStep

LEMMA LifecycleType ==
  ASSUME TypeOK, Lifecycle
  PROVE  TypeOK'
<1> USE DEF TypeOK, ConsumerTypeOK, D!DownstreamTypeOK
<1>1. CASE StartWorkers
  BY <1>1 DEF StartWorkers, consumerVars, downstreamVars
<1>2. CASE HostCancelsStart \/ ShutdownCancels \/ ShutdownEnds
  BY <1>2 DEF HostCancelsStart, ShutdownCancels, ShutdownEnds, consumerVars, downstreamVars
<1>3. CASE Restart
  <2>1. ConsumerTypeOK(Stages)'
    BY <1>3, ProcessDiesType DEF Restart
  <2>2. restarts' \in 0..MaxRestarts
    BY <1>3, BatchAssumption DEF Restart
  <2> QED
    BY <1>3, <2>1, <2>2 DEF Restart, downstreamVars
<1> QED
  BY <1>1, <1>2, <1>3 DEF Lifecycle

(* Every step is a worker's, the lifecycle's or the server's.               *)
LEMMA Steps ==
  ASSUME [Next]_vars
  PROVE  Lifecycle \/ (\E w \in Workers : StepOf(w)) \/ Server \/ UNCHANGED vars
  BY DEF Next, StepOf

LEMMA NextType == TypeOK /\ [Next]_vars => TypeOK'
<1> SUFFICES ASSUME TypeOK, [Next]_vars PROVE TypeOK'
  OBVIOUS
<1>1. CASE Server
  <2>1. ConsumerTypeOK(Stages)'
    BY <1>1, ServerStepType, DeliveryLostType DEF Server, TypeOK
  <2> QED
    BY <1>1, <2>1, DownstreamType DEF Server, ReceiverIdle, TypeOK, lifeVars
<1>2. CASE UNCHANGED vars
  BY <1>2 DEF vars, TypeOK, ConsumerTypeOK, D!DownstreamTypeOK, consumerVars,
              lifeVars, downstreamVars
<1> QED
  BY <1>1, <1>2, Steps, LifecycleType, WorkerType

(* Every variable keeps its type in every behaviour of the receiver.        *)
THEOREM BatchTypeCorrect == Spec => []TypeOK
  BY InitType, NextType, PTL DEF Spec

------------------------------------------------------------------------------
(* Who holds what, and what a call is made of.                              *)

LEMMA InitWork == Init => Ownership /\ Batches /\ Phases /\ OneSubjectPerCall
  BY DEF Init, ConsumerInit, Ownership, Batches, Phases, OneSubjectPerCall, Call,
         AllGone, Stages

(* The calls of the workers that do not move stay what they were.           *)
LEMMA OtherCalls ==
  ASSUME WorkInv, NEW w \in Workers,
         \A o \in Objs : o \notin held[w] /\ o \notin held'[w] => stage'[o] = stage[o],
         held'[w] \in SUBSET Objs, \A o \in held'[w] : \A v \in Workers \ {w} : o \notin held[v],
         \A v \in Workers \ {w} : held'[v] = held[v]
  PROVE  \A v \in Workers \ {w} :
           Call(v)' = Call(v) /\ \A o \in held[v] : stage'[o] = stage[o]
<1> SUFFICES ASSUME NEW v \in Workers \ {w}
             PROVE  Call(v)' = Call(v) /\ \A o \in held[v] : stage'[o] = stage[o]
  OBVIOUS
<1>1. held[v] \in SUBSET Objs /\ held[v] \intersect held[w] = {}
  BY DEF WorkInv, TypeOK, Ownership
<1>2. \A o \in held[v] : stage'[o] = stage[o]
  BY <1>1
<1> QED
  BY <1>2 DEF Call

(* What one step of the worker w must leave in its own batch for the whole  *)
(* receiver to stay in order.                                               *)
LEMMA OwnBatch ==
  ASSUME WorkInv, TypeOK', NEW w \in Workers, worker[w] # "gone",
         UNCHANGED lifeVars,
         \A v \in Workers \ {w} : held'[v] = held[v] /\ worker'[v] = worker[v],
         \A o \in Objs : o \notin held[w] /\ o \notin held'[w] => stage'[o] = stage[o],
         \A o \in held'[w] : o \in held[w] \/ stage[o] = "free",
         \A o \in held[w] : o \notin held'[w] => stage'[o] \notin Stages,
         \A o \in held'[w] : stage'[o] \in Stages,
         held'[w] # {} => worker'[w] \in {"fetch", "group", "consume"},
         worker'[w] # "consume" => \A o \in held'[w] : stage'[o] # "consume",
         worker'[w] \in {"group", "consume"} => \A o \in held'[w] : Msg(o) \notin Undecodable,
         \A o \in Call(w)' : Msg(o) \notin Unreadable,
         worker'[w] = "consume" => Call(w)' # {} /\ (~grouped => Call(w)' = held'[w]),
         grouped => \A o, p \in Call(w)' : Subject(o) = Subject(p)
  PROVE  (Ownership /\ Batches /\ Phases /\ OneSubjectPerCall)'
<1>1. /\ held \in [Workers -> SUBSET Objs] /\ held' \in [Workers -> SUBSET Objs]
      /\ \A o \in held'[w] : \A v \in Workers \ {w} : o \notin held[v]
  <2>1. /\ held \in [Workers -> SUBSET Objs] /\ held' \in [Workers -> SUBSET Objs]
    BY DEF WorkInv, TypeOK
  <2>2. ASSUME NEW o \in held'[w], NEW v \in Workers \ {w} PROVE o \notin held[v]
    <3>1. o \in held[w] => o \notin held[v]
      BY DEF WorkInv, Ownership
    <3>2. stage[o] = "free" => o \notin held[v]
      BY DEF WorkInv, Ownership, Stages
    <3> QED
      BY <2>2, <3>1, <3>2
  <2> QED
    BY <2>1, <2>2
<1>2. \A v \in Workers \ {w} : Call(v)' = Call(v) /\ \A o \in held[v] : stage'[o] = stage[o]
  <2>1. held'[w] \in SUBSET Objs
    BY <1>1
  <2> QED
    BY <1>1, <2>1, OtherCalls
<1>3. Ownership'
  <2>1. \A v \in Workers : \A o \in held'[v] : stage'[o] \in Stages
    BY <1>2 DEF WorkInv, Ownership
  <2>2. \A u, v \in Workers : u # v => held'[u] \intersect held'[v] = {}
    BY <1>1 DEF WorkInv, Ownership
  <2>3. \A v \in Workers : held'[v] # {} => worker'[v] \in {"fetch", "group", "consume"}
    BY DEF WorkInv, Ownership
  <2>4. ASSUME NEW o \in Objs, stage'[o] \in Stages PROVE \E v \in Workers : o \in held'[v]
    <3>1. CASE o \in held'[w]
      BY <3>1
    <3>2. CASE o \notin held'[w]
      <4>1. o \notin held[w] /\ stage[o] \in Stages
        BY <2>4, <3>2
      <4>2. PICK v \in Workers : o \in held[v]
        BY <4>1 DEF WorkInv, Ownership
      <4> QED
        BY <4>1, <4>2
    <3> QED
      BY <3>1, <3>2
  <2>5. \A v \in Workers : worker'[v] # "consume" => Call(v)' = {}
    <3>1. worker'[w] # "consume" => Call(w)' = {}
      BY DEF Call
    <3> QED
      BY <1>2, <3>1 DEF WorkInv, Ownership
  <2> QED
    BY <2>1, <2>2, <2>3, <2>4, <2>5 DEF Ownership
<1>4. Batches'
  <2>1. \A v \in Workers : worker'[v] \in {"group", "consume"} =>
          \A o \in held'[v] : Msg(o) \notin Undecodable
    BY DEF WorkInv, Batches
  <2>2. \A v \in Workers : \A o \in Call(v)' : Msg(o) \notin Unreadable
    BY <1>2 DEF WorkInv, Batches
  <2>3. grouped' = grouped
    BY DEF lifeVars
  <2>4. \A v \in Workers : worker'[v] = "consume" =>
          Call(v)' # {} /\ (~grouped' => Call(v)' = held'[v])
    BY <1>2, <2>3 DEF WorkInv, Batches
  <2> QED
    BY <2>1, <2>2, <2>4 DEF Batches
<1>5. Phases'
  <2>1. conn
    BY DEF WorkInv, Phases, AllGone
  <2> QED
    BY <2>1 DEF WorkInv, Phases, lifeVars
<1>6. OneSubjectPerCall'
  <2>1. grouped' = grouped
    BY DEF lifeVars
  <2>2. \A v \in Workers : grouped => \A o, p \in Call(v)' : Subject(o) = Subject(p)
    BY <1>2 DEF WorkInv, OneSubjectPerCall
  <2> QED
    BY <2>1, <2>2 DEF OneSubjectPerCall, Subject
<1> QED
  BY <1>3, <1>4, <1>5, <1>6

LEMMA WorkerWork ==
  ASSUME WorkInv, NEW w \in Workers, StepOf(w)
  PROVE  (Ownership /\ Batches /\ Phases /\ OneSubjectPerCall)'
<1> DEFINE Goal == (Ownership /\ Batches /\ Phases /\ OneSubjectPerCall)'
<1>1. /\ TypeOK /\ TypeOK'
      /\ held \in [Workers -> SUBSET Objs]
      /\ stage \in [Objs -> Stages \union Wire \union {"free"}]
      /\ worker \in [Workers -> {"top", "fetch", "group", "consume", "gone"}]
  BY WorkerType DEF WorkInv, TypeOK, ConsumerTypeOK
<1>2. /\ \A o \in held[w] : o \in Objs /\ stage[o] \in Stages
      /\ worker[w] # "consume" => \A o \in held[w] : stage[o] # "consume"
      /\ held[w] # {} => worker[w] \in {"fetch", "group", "consume"}
      /\ worker[w] \in {"group", "consume"} => \A o \in held[w] : Msg(o) \notin Undecodable
  BY <1>1 DEF WorkInv, Ownership, Batches, Call
<1>3. CASE FetchBegins(w)
  <2>1. /\ worker[w] = "top" /\ worker' = [worker EXCEPT ![w] = "fetch"]
        /\ held' = held /\ stage' = stage /\ UNCHANGED lifeVars
    BY <1>3 DEF FetchBegins, consumerVars
  <2>2. held[w] = {}
    BY <1>2, <2>1
  <2>3. Call(w)' = {}
    BY <2>1, <2>2 DEF Call
  <2> QED
    BY <1>1, <2>1, <2>2, <2>3, OwnBatch
<1>4. CASE WorkerExits(w)
  <2>1. /\ worker[w] = "top" /\ worker' = [worker EXCEPT ![w] = "gone"]
        /\ held' = held /\ stage' = stage /\ UNCHANGED lifeVars
    BY <1>4 DEF WorkerExits, consumerVars
  <2>2. held[w] = {}
    BY <1>2, <2>1
  <2>3. Call(w)' = {}
    BY <2>1, <2>2 DEF Call
  <2> QED
    BY <1>1, <2>1, <2>2, <2>3, OwnBatch
<1>5. ASSUME NEW o \in Objs, FetchDelivers(w, o) PROVE Goal
  <2>1. /\ worker[w] = "fetch" /\ worker' = worker /\ UNCHANGED lifeVars
        /\ stage[o] = "free" /\ stage' = [stage EXCEPT ![o] = "fetched"]
        /\ held' = [held EXCEPT ![w] = @ \union {o}]
    BY <1>5 DEF FetchDelivers, Deliver
  <2>2. /\ held'[w] = held[w] \union {o}
        /\ \A v \in Workers \ {w} : held'[v] = held[v] /\ worker'[v] = worker[v]
        /\ stage'[o] = "fetched" /\ \A x \in Objs : x # o => stage'[x] = stage[x]
    BY <1>1, <2>1
  <2>3. \A x \in held'[w] : stage'[x] \in Stages /\ stage'[x] # "consume"
    BY <1>2, <2>1, <2>2 DEF Stages
  <2>4. Call(w)' = {}
    BY <2>3 DEF Call
  <2> QED
    BY <1>1, <2>1, <2>2, <2>3, <2>4, OwnBatch
<1>6. CASE FetchEnds(w)
  <2>1. /\ held'[w] = {o \in held[w] : Msg(o) \notin Undecodable}
        /\ \A o \in Objs :
             IF o \in held[w] /\ Msg(o) \in Undecodable
               THEN stage'[o] \in {"term", "free"} ELSE stage'[o] = stage[o]
        /\ worker[w] = "fetch"
        /\ worker'[w] = IF held'[w] = {} THEN "top" ELSE "group"
        /\ \A v \in Workers \ {w} : held'[v] = held[v] /\ worker'[v] = worker[v]
        /\ UNCHANGED lifeVars
    BY <1>1, <1>6, FetchEndsMoves
  <2>2. \A x \in held'[w] : stage'[x] \in Stages /\ stage'[x] # "consume"
    BY <1>2, <2>1
  <2>3. Call(w)' = {}
    BY <2>2 DEF Call
  <2>4. \A x \in held[w] : x \notin held'[w] => stage'[x] \notin Stages
    BY <1>2, <2>1 DEF Stages
  <2> QED
    BY <1>1, <2>1, <2>2, <2>3, <2>4, OwnBatch
<1>7. ASSUME NEW G \in Groups(w), CallBegins(w, G) PROVE Goal
  <2>1. /\ G \subseteq held[w]
        /\ held'[w] = {o \in held[w] : o \notin G \/ Msg(o) \notin Malformed}
        /\ \A o \in Objs :
             IF o \in G
               THEN IF Msg(o) \in Malformed THEN stage'[o] \in {"term", "free"}
                                            ELSE stage'[o] = "consume"
               ELSE stage'[o] = stage[o]
        /\ worker[w] = "group"
        /\ \/ /\ worker'[w] = "consume" /\ \E o \in G : Msg(o) \notin Malformed
           \/ /\ worker'[w] = IF held'[w] = {} THEN "top" ELSE "group"
              /\ \A o \in G : Msg(o) \in Malformed
        /\ \A v \in Workers \ {w} : held'[v] = held[v] /\ worker'[v] = worker[v]
        /\ UNCHANGED lifeVars
    BY <1>1, <1>7, CallBeginsMoves
  <2>2. Call(w)' = {o \in G : Msg(o) \notin Malformed}
    BY <1>2, <2>1 DEF Call
  <2>3. \A x \in held'[w] : stage'[x] \in Stages
    BY <1>2, <2>1 DEF Stages
  <2>4. \A x \in held[w] : x \notin held'[w] => stage'[x] \notin Stages
    BY <1>2, <2>1 DEF Stages
  <2>5. \A o \in Call(w)' : Msg(o) \notin Unreadable
    BY <1>2, <2>1, <2>2 DEF Unreadable
  <2>6. worker'[w] = "consume" => Call(w)' # {} /\ (~grouped => Call(w)' = held'[w])
    BY <2>1, <2>2 DEF Groups
  <2>7. grouped => \A o, p \in Call(w)' : Subject(o) = Subject(p)
    BY <2>2 DEF Groups
  <2>8. worker'[w] # "consume" => \A x \in held'[w] : stage'[x] # "consume"
    BY <1>2, <2>1
  <2>9. held'[w] # {} => worker'[w] \in {"group", "consume"}
    BY <2>1
  <2> QED
    BY <1>1, <1>2, <2>1, <2>3, <2>4, <2>5, <2>6, <2>7, <2>8, <2>9, OwnBatch
<1>8. CASE Returns(w)
  <2>1. PICK a \in Wire, failed \in SUBSET Call(w), ends \in BOOLEAN :
          CallReturns(w, a, failed, ends)
    BY <1>8, ReturnsIsCallReturns
  <2>2. /\ held'[w] = IF ends THEN {} ELSE {o \in held[w] : o \notin Call(w)}
        /\ \A o \in Objs :
             IF o \in Call(w) THEN stage'[o] = IF o \in failed THEN "free" ELSE a
             ELSE IF ends /\ o \in held[w] THEN stage'[o] = "free" ELSE stage'[o] = stage[o]
        /\ worker[w] = "consume"
        /\ worker'[w] = IF held'[w] = {} THEN "top" ELSE "group"
        /\ \A v \in Workers \ {w} : held'[v] = held[v] /\ worker'[v] = worker[v]
        /\ UNCHANGED lifeVars
    BY <1>1, <2>1, CallReturnsMoves
  <2>3. \A x \in held'[w] : stage'[x] = stage[x] /\ x \notin Call(w)
    BY <1>2, <2>2
  <2>4. \A x \in held'[w] : stage'[x] \in Stages /\ stage'[x] # "consume"
    BY <1>2, <2>2, <2>3 DEF Call
  <2>5. Call(w)' = {}
    BY <2>4 DEF Call
  <2>6. \A x \in held[w] : x \notin held'[w] => stage'[x] \notin Stages
    BY <1>2, <2>2 DEF Stages, Wire
  <2>7. \A x \in Objs : x \notin held[w] /\ x \notin held'[w] => stage'[x] = stage[x]
    BY <2>2, CallInBatch, <1>1
  <2> QED
    BY <1>1, <1>2, <2>2, <2>4, <2>5, <2>6, <2>7, OwnBatch
<1> QED
  BY <1>3, <1>4, <1>5, <1>6, <1>7, <1>8 DEF StepOf, WorkerStep

LEMMA LifecycleWork ==
  ASSUME WorkInv, Lifecycle
  PROVE  (Ownership /\ Batches /\ Phases /\ OneSubjectPerCall)'
<1> USE DEF WorkInv
<1>1. /\ held \in [Workers -> SUBSET Objs]
      /\ stage \in [Objs -> Stages \union Wire \union {"free"}]
      /\ worker \in [Workers -> {"top", "fetch", "group", "consume", "gone"}]
  BY DEF TypeOK, ConsumerTypeOK
<1>2. CASE StartWorkers
  <2>1. \A w \in Workers : held[w] = {}
    BY <1>1, <1>2 DEF StartWorkers, Phases, AllGone, Ownership, TypeOK
  <2>2. \A w \in Workers : held'[w] = {} /\ Call(w)' = {} /\ worker'[w] = "top"
    BY <1>2, <2>1 DEF StartWorkers, Call
  <2>3. stage' = stage /\ conn' /\ life' = "running"
    BY <1>2 DEF StartWorkers, consumerVars
  <2> QED
    BY <2>1, <2>2, <2>3 DEF Ownership, Batches, Phases, OneSubjectPerCall
<1>3. CASE HostCancelsStart \/ ShutdownCancels \/ ShutdownEnds
  <2>1. UNCHANGED <<stage, held, worker, grouped>>
    BY <1>3 DEF HostCancelsStart, ShutdownCancels, ShutdownEnds, consumerVars
  <2>2. Ownership' /\ Batches' /\ OneSubjectPerCall'
    BY <2>1 DEF Ownership, Batches, OneSubjectPerCall, Call, Subject
  <2>3. Phases'
    BY <1>3, <2>1 DEF HostCancelsStart, ShutdownCancels, ShutdownEnds, Phases, AllGone
  <2> QED
    BY <2>2, <2>3
<1>4. CASE Restart
  <2>1. \A o \in Objs : stage'[o] \notin Stages
    BY <1>4, <1>1 DEF Restart, ProcessDies, Stages, Wire
  <2>2. \A w \in Workers : held'[w] = {} /\ Call(w)' = {} /\ worker'[w] = "gone"
    BY <1>4 DEF Restart, Call
  <2>3. ~conn' /\ life' = "new"
    BY <1>4 DEF Restart
  <2> QED
    BY <2>1, <2>2, <2>3 DEF Ownership, Batches, Phases, OneSubjectPerCall, AllGone
<1> QED
  BY <1>2, <1>3, <1>4 DEF Lifecycle

LEMMA NextWork == WorkInv /\ [Next]_vars => WorkInv'
<1> SUFFICES ASSUME WorkInv, [Next]_vars
             PROVE  (Ownership /\ Batches /\ Phases /\ OneSubjectPerCall)'
  BY NextType DEF WorkInv
<1>1. CASE Server
  <2>1. \A o \in Objs : stage'[o] = stage[o] \/ (stage[o] \in Wire /\ stage'[o] = "free")
    BY <1>1, ServerStepStages DEF Server, DeliveryLost, WorkInv, TypeOK
  <2>2. \A o \in Objs : stage'[o] \in Stages <=> stage[o] \in Stages
    BY <2>1 DEF Stages, Wire
  <2>3. UNCHANGED <<held, worker, grouped, life, conn>>
    BY <1>1 DEF Server, ReceiverIdle, lifeVars
  <2>4. \A w \in Workers : Call(w)' = Call(w)
    BY <2>1, <2>3 DEF Call, Wire, WorkInv, TypeOK
  <2>5. Ownership'
    BY <2>2, <2>3, <2>4 DEF WorkInv, TypeOK, Ownership
  <2> QED
    BY <2>3, <2>4, <2>5 DEF WorkInv, Batches, Phases, AllGone, OneSubjectPerCall, Subject
<1>2. CASE UNCHANGED vars
  BY <1>2 DEF vars, consumerVars, lifeVars, WorkInv, Ownership, Batches, Phases, AllGone,
              OneSubjectPerCall, Call, Subject
<1> QED
  BY <1>1, <1>2, Steps, LifecycleWork, WorkerWork

LEMMA WorkInvariant == Spec => []WorkInv
<1>1. Init => WorkInv
  BY InitType, InitWork DEF WorkInv
<1> QED
  BY <1>1, NextWork, PTL DEF Spec

(* With batch_group_by_subject every downstream call has one subject,       *)
(* whatever the groups before it did and whatever the other workers hold.   *)
THEOREM CallsHaveOneSubject == Spec => []OneSubjectPerCall
<1>1. WorkInv => OneSubjectPerCall
  BY DEF WorkInv
<1> QED
  BY <1>1, WorkInvariant, PTL

(* When the connection is closed, every worker has returned and no message  *)
(* is in a batch.                                                           *)
THEOREM ConnectionClosedAfterBatches == Spec => []ConnectionOutlivesWork
<1>1. WorkInv => ConnectionOutlivesWork
  BY DEF WorkInv, Phases, AllGone, Ownership, ConnectionOutlivesWork
<1> QED
  BY <1>1, WorkInvariant, PTL

------------------------------------------------------------------------------
(* The part of ShutdownTerminates that is safety.                           *)

(* While Shutdown waits for the workers, each of them can go on: it sees    *)
(* the cancelled context before the next fetch, a worker between two groups *)
(* has a group to handle, and one in a downstream call has the messages     *)
(* whose answer ends it (receiver_batch.go: batchWorkerLoop).               *)
ShutdownNeverStuck ==
  life = "closing" =>
    /\ ctxDone
    /\ \A w \in Workers : worker[w] = "group" => \E G \in Groups(w) : G # {}
    /\ \A w \in Workers : worker[w] = "consume" => Call(w) # {}

(* The context is cancelled before the workers are waited for, and no       *)
(* worker is left with an empty batch.                                      *)
Waiting ==
  /\ life = "closing" => ctxDone
  /\ \A w \in Workers : worker[w] = "group" => held[w] # {}

LEMMA WaitingImplies == WorkInv /\ Waiting => ShutdownNeverStuck
<1> SUFFICES ASSUME WorkInv, Waiting, life = "closing"
             PROVE  /\ ctxDone
                    /\ \A w \in Workers : worker[w] = "group" => \E G \in Groups(w) : G # {}
                    /\ \A w \in Workers : worker[w] = "consume" => Call(w) # {}
  BY DEF ShutdownNeverStuck
<1>1. ASSUME NEW w \in Workers, worker[w] = "group" PROVE \E G \in Groups(w) : G # {}
  <2>1. PICK o \in held[w] : TRUE
    BY <1>1 DEF Waiting
  <2>2. PICK G : G = IF grouped THEN {p \in held[w] : Subject(p) = Subject(o)} ELSE held[w]
    OBVIOUS
  <2>3. o \in G /\ G \in Groups(w)
    BY <2>1, <2>2 DEF Groups
  <2> QED BY <2>3
<1> QED BY <1>1 DEF Waiting, WorkInv, Batches

(* What Keep leaves of a batch decides whether the worker goes on with it.  *)
LEMMA KeepWaiting ==
  ASSUME WorkInv, Waiting, NEW w \in Workers, NEW S, Keep(w, S)
  PROVE  \A v \in Workers : worker'[v] = "group" => held'[v] # {}
  BY DEF Keep, WorkInv, TypeOK, Waiting

LEMMA NextWaiting == WorkInv /\ Waiting /\ [Next]_vars => Waiting'
<1> SUFFICES ASSUME WorkInv, Waiting, [Next]_vars PROVE Waiting'
  OBVIOUS
<1>1. worker \in [Workers -> {"top", "fetch", "group", "consume", "gone"}]
      /\ held \in [Workers -> SUBSET Objs]
  BY DEF WorkInv, TypeOK
<1>2. CASE StartWorkers \/ Restart
  <2>1. life' # "closing" /\ \A w \in Workers : worker'[w] \in {"top", "gone"}
    BY <1>2 DEF StartWorkers, Restart
  <2> QED BY <2>1 DEF Waiting
<1>3. CASE HostCancelsStart \/ ShutdownCancels \/ ShutdownEnds
  <2>1. UNCHANGED <<worker, held>> /\ (ctxDone' \/ life' # "closing")
    BY <1>3 DEF HostCancelsStart, ShutdownCancels, ShutdownEnds
  <2> QED BY <2>1 DEF Waiting
<1>4. ASSUME NEW w \in Workers, FetchBegins(w) \/ WorkerExits(w) PROVE Waiting'
  <2>1. UNCHANGED <<life, ctxDone, held>>
    BY <1>4 DEF FetchBegins, WorkerExits, lifeVars
  <2>2. \A v \in Workers : worker'[v] = worker[v] \/ worker'[v] \in {"fetch", "gone"}
    BY <1>1, <1>4 DEF FetchBegins, WorkerExits
  <2> QED BY <2>1, <2>2 DEF Waiting
<1>5. ASSUME NEW w \in Workers, NEW S, Keep(w, S), UNCHANGED lifeVars PROVE Waiting'
  BY <1>5, KeepWaiting DEF Waiting, lifeVars
<1>6. ASSUME NEW w \in Workers, FetchEnds(w) \/ Returns(w) PROVE Waiting'
  <2>1. PICK S : Keep(w, S) /\ UNCHANGED lifeVars
    BY <1>6 DEF FetchEnds, Returns, CallOk, CallRetryable, CallPermanent, CallReturns
  <2> QED BY <1>5, <2>1
<1>7. ASSUME NEW w \in Workers, NEW G \in Groups(w), CallBegins(w, G) PROVE Waiting'
  <2>1. UNCHANGED lifeVars
    BY <1>7 DEF CallBegins
  <2>2. CASE \E S : Keep(w, S)
    BY <1>5, <2>1, <2>2
  <2>3. CASE ~\E S : Keep(w, S)
    <3>1. /\ worker' = [worker EXCEPT ![w] = "consume"]
          /\ \A v \in Workers : v # w => held'[v] = held[v]
      BY <1>1, <1>7, <2>3 DEF CallBegins
    <3> QED BY <1>1, <2>1, <3>1 DEF Waiting, lifeVars
  <2> QED BY <2>2, <2>3
<1>8. ASSUME NEW w \in Workers, NEW o \in Objs, FetchDelivers(w, o) PROVE Waiting'
  <2>1. UNCHANGED <<life, ctxDone, worker>> /\ \A v \in Workers : held[v] \subseteq held'[v]
    BY <1>1, <1>8 DEF FetchDelivers, lifeVars
  <2> QED BY <2>1 DEF Waiting
<1>9. CASE Server \/ UNCHANGED vars
  BY <1>9 DEF Server, ReceiverIdle, vars, lifeVars, Waiting
<1> QED
  BY <1>2, <1>3, <1>4, <1>6, <1>7, <1>8, <1>9 DEF Next, Lifecycle, WorkerStep

(* Shutdown never waits for a worker that cannot go on.                     *)
THEOREM BatchShutdownWaitsForWork == Spec => []ShutdownNeverStuck
<1>1. Init => Waiting
  BY DEF Init, Waiting
<1> QED BY <1>1, NextWaiting, WaitingImplies, WorkInvariant, PTL DEF Spec

------------------------------------------------------------------------------
(* A message is let go unanswered only with a failure of its own batch.     *)

LEMMA ReturnsStrands ==
  ASSUME WorkInv, NEW v \in Workers, Returns(v),
         NEW x \in Objs, stage[x] = "fetched", stage'[x] = "free"
  PROVE  x \in held[v] /\ grouped /\ \E p \in Call(v) : stage'[p] # "ack"
<1>1. PICK a \in Wire, failed \in SUBSET Call(v), ends \in BOOLEAN :
        /\ CallReturns(v, a, failed, ends)
        /\ ends => Call(v) = {} \/ a # "ack" \/ failed # {}
  BY ReturnsIsCallReturns
<1>2. TypeOK
  BY DEF WorkInv
<1>3. /\ held'[v] = IF ends THEN {} ELSE {o \in held[v] : o \notin Call(v)}
      /\ \A o \in Objs :
           IF o \in Call(v) THEN stage'[o] = IF o \in failed THEN "free" ELSE a
           ELSE IF ends /\ o \in held[v] THEN stage'[o] = "free" ELSE stage'[o] = stage[o]
      /\ worker[v] = "consume"
      /\ worker'[v] = IF held'[v] = {} THEN "top" ELSE "group"
      /\ \A u \in Workers \ {v} : held'[u] = held[u] /\ worker'[u] = worker[u]
      /\ UNCHANGED <<serverVars, lifeVars>>
  BY <1>1, <1>2, CallReturnsMoves
<1>4. x \notin Call(v)
  BY DEF Call
<1>5. ends /\ x \in held[v]
  BY <1>3, <1>4
<1>6. Call(v) # {} /\ Call(v) \subseteq Objs /\ (~grouped => Call(v) = held[v])
  BY <1>2, <1>3, CallInBatch DEF WorkInv, Batches
<1>7. grouped
  BY <1>4, <1>5, <1>6
<1>8. \E p \in Call(v) : stage'[p] # "ack"
  <2>1. CASE a # "ack"
    BY <1>3, <1>6, <2>1
  <2>2. CASE failed # {}
    BY <1>3, <1>6, <2>2
  <2> QED
    BY <1>1, <1>5, <1>6, <2>1, <2>2
<1> QED
  BY <1>5, <1>7, <1>8

LEMMA NextStrands ==
  ASSUME WorkInv, [Next]_vars, NEW w \in Workers, NEW o \in held[w],
         stage[o] = "fetched", stage'[o] = "free", restarts' = restarts
  PROVE  \/ Msg(o) \in Unreadable
         \/ grouped /\ \E p \in Call(w) : stage'[p] # "ack"
<1>1. /\ held \in [Workers -> SUBSET Objs] /\ o \in Objs
      /\ restarts \in 0..MaxRestarts /\ TypeOK
      /\ stage \in [Objs -> Stages \union Wire \union {"free"}]
  BY DEF WorkInv, TypeOK, ConsumerTypeOK
<1>2. \A v \in Workers : v # w => o \notin held[v]
  BY DEF WorkInv, Ownership
<1>3. CASE Lifecycle
  <2>1. stage' = stage \/ restarts' = restarts + 1
    BY <1>3 DEF Lifecycle, StartWorkers, HostCancelsStart, ShutdownCancels, ShutdownEnds,
                Restart, consumerVars
  <2>2. restarts' # restarts + 1
    BY <1>1
  <2> QED
    BY <2>1, <2>2
<1>4. CASE Server \/ UNCHANGED vars
  BY <1>1, <1>4, ServerStepStages
  DEF Server, DeliveryLost, Wire, vars, consumerVars, WorkInv, TypeOK
<1>5. ASSUME NEW v \in Workers, FetchBegins(v) \/ WorkerExits(v) PROVE FALSE
  BY <1>5 DEF FetchBegins, WorkerExits, consumerVars
<1>6. ASSUME NEW v \in Workers, NEW x \in Objs, FetchDelivers(v, x) PROVE FALSE
  BY <1>1, <1>6 DEF FetchDelivers, Deliver
<1>7. ASSUME NEW v \in Workers, FetchEnds(v) PROVE Msg(o) \in Unreadable
  BY <1>1, <1>7, FetchEndsMoves DEF Unreadable
<1>8. ASSUME NEW v \in Workers, NEW G \in Groups(v), CallBegins(v, G)
      PROVE  Msg(o) \in Unreadable
  BY <1>1, <1>8, CallBeginsMoves DEF Unreadable
<1>9. ASSUME NEW v \in Workers, Returns(v)
      PROVE  grouped /\ \E p \in Call(w) : stage'[p] # "ack"
  <2>1. o \in held[v] /\ grouped /\ \E p \in Call(v) : stage'[p] # "ack"
    BY <1>1, <1>9, ReturnsStrands
  <2> QED
    BY <1>2, <2>1
<1> QED
  BY <1>3, <1>4, <1>5, <1>6, <1>7, <1>8, <1>9, Steps DEF StepOf, WorkerStep

(* A batch that meets no failure answers every message of it: a readable    *)
(* message is let go only behind a call of its own batch that did not       *)
(* acknowledge everything, or with the process.                             *)
THEOREM StrandedOnlyByFailure == Spec => StrandedOnlyAfterFailure
<1>1. WorkInv /\ [Next]_vars =>
        [\A w \in Workers : \A o \in held[w] :
           stage[o] = "fetched" /\ stage'[o] = "free" /\ restarts' = restarts
           => \/ Msg(o) \in Unreadable
              \/ grouped /\ \E p \in Call(w) : stage'[p] # "ack"]_vars
  BY NextStrands
<1> QED
  BY <1>1, WorkInvariant, PTL DEF Spec, StrandedOnlyAfterFailure

------------------------------------------------------------------------------
(* What the answers rest on.                                                *)

(* What the lifecycle and the server do to an object: nothing, or its end.  *)
LEMMA IdleMoves ==
  ASSUME WorkInv, Lifecycle \/ Server \/ UNCHANGED vars
  PROVE  /\ UNCHANGED <<downstreamVars, grouped>>
         /\ \A x \in Objs : stage'[x] = stage[x] \/ stage'[x] = "free"
<1>1. stage \in [Objs -> Stages \union Wire \union {"free"}] /\ ConsumerTypeOK(Stages)
  BY DEF WorkInv, TypeOK, ConsumerTypeOK
<1>2. CASE Lifecycle
  BY <1>1, <1>2 DEF Lifecycle, StartWorkers, HostCancelsStart, ShutdownCancels, ShutdownEnds,
                    Restart, consumerVars, ProcessDies
<1>3. CASE Server
  <2>1. \A x \in Objs : stage'[x] = stage[x] \/ stage'[x] = "free"
    BY <1>1, <1>3, ServerStepStages DEF Server, DeliveryLost
  <2> QED
    BY <1>3, <2>1 DEF Server, ReceiverIdle, lifeVars
<1>4. CASE UNCHANGED vars
  BY <1>4 DEF vars, consumerVars, lifeVars
<1> QED
  BY <1>2, <1>3, <1>4

(* The same of a step of a worker that is not the return of a call.         *)
LEMMA WorkMoves ==
  ASSUME WorkInv, NEW w \in Workers, StepOf(w), ~Returns(w)
  PROVE  /\ UNCHANGED <<accepted, refused, grouped>>
         /\ \A x \in Objs : \/ stage'[x] \in {stage[x], "free"}
                            \/ stage[x] = "free" /\ stage'[x] = "fetched"
                            \/ stage[x] \in Stages /\ stage'[x] = "consume"
                            \/ Msg(x) \in Unreadable /\ stage'[x] = "term"
         /\ UNCHANGED serverVars \/ \E o \in Objs : Deliver(o, "fetched")
<1>1. stage \in [Objs -> Stages \union Wire \union {"free"}] /\ TypeOK
  BY DEF WorkInv, TypeOK, ConsumerTypeOK
<1>2. CASE FetchBegins(w) \/ WorkerExits(w)
  BY <1>2 DEF FetchBegins, WorkerExits, consumerVars, lifeVars, downstreamVars, serverVars
<1>3. ASSUME NEW o \in Objs, FetchDelivers(w, o)
      PROVE  /\ UNCHANGED <<accepted, refused, grouped>> /\ Deliver(o, "fetched")
             /\ stage[o] = "free" /\ stage' = [stage EXCEPT ![o] = "fetched"]
  BY <1>3 DEF FetchDelivers, Deliver, lifeVars, downstreamVars
<1>4. CASE FetchEnds(w)
  <2>1. /\ \A o \in Objs :
             IF o \in held[w] /\ Msg(o) \in Undecodable
               THEN stage'[o] \in {"term", "free"} ELSE stage'[o] = stage[o]
        /\ UNCHANGED <<serverVars, lifeVars, downstreamVars>>
    BY <1>1, <1>4, FetchEndsMoves
  <2> QED
    BY <2>1 DEF Unreadable, lifeVars, downstreamVars
<1>5. ASSUME NEW G \in Groups(w), CallBegins(w, G)
      PROVE  /\ UNCHANGED <<serverVars, accepted, refused, grouped>>
             /\ \A x \in Objs : \/ stage'[x] \in {stage[x], "free"}
                                \/ stage[x] \in Stages /\ stage'[x] = "consume"
                                \/ Msg(x) \in Unreadable /\ stage'[x] = "term"
  <2>1. /\ G \subseteq held[w]
        /\ \A o \in Objs :
             IF o \in G
               THEN IF Msg(o) \in Malformed THEN stage'[o] \in {"term", "free"}
                                            ELSE stage'[o] = "consume"
               ELSE stage'[o] = stage[o]
        /\ UNCHANGED <<serverVars, lifeVars, accepted, refused>>
    BY <1>1, <1>5, CallBeginsMoves
  <2>2. \A o \in held[w] : stage[o] \in Stages
    BY DEF WorkInv, Ownership
  <2> QED
    BY <2>1, <2>2 DEF Unreadable, lifeVars
<1> QED
  BY <1>1, <1>2, <1>3, <1>4, <1>5 DEF StepOf, WorkerStep

(* The return of a call answers the objects of the call and lets go those   *)
(* of its batch, and the pipeline's word on the call covers its messages.   *)
LEMMA ReturnMoves ==
  ASSUME WorkInv, NEW w \in Workers, Returns(w)
  PROVE  \E a \in Wire :
           /\ \A x \in Objs : \/ stage'[x] \in {stage[x], "free"}
                              \/ x \in Call(w) /\ stage'[x] = a
           /\ \A x \in Call(w) : stage'[x] \in {a, "free"}
           /\ a = "ack" => D!Accept(MsgsOf(Call(w)))
           /\ a = "nak" => UNCHANGED downstreamVars
           /\ a = "term" => D!Refuse(MsgsOf(Call(w)))
           /\ UNCHANGED <<serverVars, lifeVars>>
<1>1. PICK a \in Wire, failed \in SUBSET Call(w), ends \in BOOLEAN :
        /\ CallReturns(w, a, failed, ends)
        /\ a = "ack" => D!Accept(MsgsOf(Call(w)))
        /\ a = "nak" => UNCHANGED downstreamVars
        /\ a = "term" => D!Refuse(MsgsOf(Call(w)))
  BY ReturnsIsCallReturns
<1>2. TypeOK
  BY DEF WorkInv
<1>3. /\ held'[w] = IF ends THEN {} ELSE {o \in held[w] : o \notin Call(w)}
      /\ \A o \in Objs :
           IF o \in Call(w) THEN stage'[o] = IF o \in failed THEN "free" ELSE a
           ELSE IF ends /\ o \in held[w] THEN stage'[o] = "free" ELSE stage'[o] = stage[o]
      /\ worker[w] = "consume"
      /\ worker'[w] = IF held'[w] = {} THEN "top" ELSE "group"
      /\ \A u \in Workers \ {w} : held'[u] = held[u] /\ worker'[u] = worker[u]
      /\ UNCHANGED <<serverVars, lifeVars>>
  BY <1>1, <1>2, CallReturnsMoves
<1>4. Call(w) \in SUBSET Objs
  BY <1>2, CallInBatch
<1>5. /\ \A x \in Objs : \/ stage'[x] \in {stage[x], "free"}
                         \/ x \in Call(w) /\ stage'[x] = a
      /\ \A x \in Call(w) : stage'[x] \in {a, "free"}
  BY <1>3, <1>4
<1> QED
  BY <1>1, <1>3, <1>5

(* The record of what the pipeline took and refused only grows.             *)
LEMMA NextGrows ==
  ASSUME WorkInv, [Next]_vars
  PROVE  /\ refused \subseteq refused' /\ grouped' = grouped
         /\ \A m \in Msgs : accepted[m] > 0 => accepted'[m] > 0
<1>1. accepted \in [Msgs -> 0..ExpiryCap + 1] /\ ExpiryCap \in Nat
  BY ConsumerAssumption DEF WorkInv, TypeOK, D!DownstreamTypeOK
<1>2. CASE Lifecycle \/ Server \/ UNCHANGED vars
  BY <1>2, IdleMoves DEF downstreamVars
<1>3. ASSUME NEW w \in Workers, StepOf(w), ~Returns(w)
      PROVE  UNCHANGED <<accepted, refused, grouped>>
  BY <1>3, WorkMoves
<1>4. ASSUME NEW w \in Workers, Returns(w)
      PROVE  /\ refused \subseteq refused' /\ grouped' = grouped
             /\ \A m \in Msgs : accepted[m] > 0 => accepted'[m] > 0
  <2>1. /\ \/ D!Accept(MsgsOf(Call(w))) \/ D!Refuse(MsgsOf(Call(w)))
           \/ UNCHANGED downstreamVars
        /\ grouped' = grouped
    BY <1>4 DEF Returns, CallOk, CallRetryable, CallPermanent, CallReturns, lifeVars
  <2> QED
    BY <1>1, <2>1 DEF D!Accept, D!Refuse, downstreamVars
<1> QED
  BY <1>2, <1>3, <1>4, Steps

LEMMA NextJustified == WorkInv /\ Justified /\ [Next]_vars => Justified'
<1> SUFFICES ASSUME WorkInv, Justified, [Next]_vars, NEW x \in Objs
             PROVE  /\ stage'[x] = "ack" => accepted'[Msg(x)] > 0
                    /\ stage'[x] = "term" => Msg(x) \in refused' \union Unreadable
                    /\ (grouped' /\ stage'[x] = "term") =>
                         Msg(x) \in Unreadable \/ \E p \in Poison : SubjectOf[p] = Subject(x)
  BY DEF Justified, Subject
<1>1. /\ accepted \in [Msgs -> 0..ExpiryCap + 1] /\ ExpiryCap \in Nat
      /\ Msg(x) \in Msgs
  BY MsgOfObject, ConsumerAssumption DEF WorkInv, TypeOK, D!DownstreamTypeOK
<1>2. CASE stage'[x] = stage[x] \/ stage'[x] \notin {"ack", "term"}
  BY <1>1, <1>2, NextGrows DEF Justified
<1>3. CASE Lifecycle \/ Server \/ UNCHANGED vars
  BY <1>2, <1>3, IdleMoves
<1>4. ASSUME NEW w \in Workers, StepOf(w), ~Returns(w)
      PROVE  \/ stage'[x] = stage[x] \/ stage'[x] \notin {"ack", "term"}
             \/ stage'[x] = "term" /\ Msg(x) \in Unreadable
  BY <1>4, WorkMoves
<1>5. ASSUME NEW w \in Workers, Returns(w)
      PROVE  \/ stage'[x] = stage[x] \/ stage'[x] \notin {"ack", "term"}
             \/ stage'[x] = "ack" /\ accepted'[Msg(x)] > 0
             \/ /\ stage'[x] = "term" /\ Msg(x) \in refused'
                /\ grouped => \E p \in Poison : SubjectOf[p] = Subject(x)
  <2>1. PICK a \in Wire :
          /\ \A y \in Objs : \/ stage'[y] \in {stage[y], "free"}
                             \/ y \in Call(w) /\ stage'[y] = a
          /\ a = "ack" => D!Accept(MsgsOf(Call(w)))
          /\ a = "term" => D!Refuse(MsgsOf(Call(w)))
    BY <1>5, ReturnMoves
  <2>2. CASE x \in Call(w) /\ stage'[x] = "ack" /\ a = "ack"
    <3>1. Msg(x) \in MsgsOf(Call(w))
      BY <2>2 DEF MsgsOf
    <3> QED
      BY <1>1, <2>1, <2>2, <3>1 DEF D!Accept
  <2>3. CASE x \in Call(w) /\ stage'[x] = "term" /\ a = "term"
    <3>1. Msg(x) \in MsgsOf(Call(w))
      BY <2>3 DEF MsgsOf
    <3>2. Msg(x) \in refused' /\ MsgsOf(Call(w)) \intersect Poison # {}
      BY <2>1, <2>3, <3>1 DEF D!Refuse
    <3>3. PICK o \in Call(w) : Msg(o) \in Poison
      BY <3>2 DEF MsgsOf
    <3>4. grouped => Subject(o) = Subject(x)
      BY <2>3 DEF WorkInv, OneSubjectPerCall
    <3> QED
      BY <2>3, <3>2, <3>3, <3>4 DEF Subject
  <2> QED
    BY <2>1, <2>2, <2>3
<1> QED
  BY <1>2, <1>3, <1>4, <1>5, Steps, NextGrows

(* A message is marked as terminated only when a Term arrives.              *)
LEMMA NextRefusal ==
  ASSUME WorkInv, Justified, RefusalStaysInSubject, [Next]_vars
  PROVE  RefusalStaysInSubject'
<1> SUFFICES ASSUME NEW m \in Msgs \ Unreadable, grouped', status'[m] = "termed"
             PROVE  \E p \in Poison : SubjectOf[p] = SubjectOf[m]
  BY DEF RefusalStaysInSubject
<1>1. status \in [Msgs -> Statuses] /\ TypeOK
  BY DEF WorkInv, TypeOK, ConsumerTypeOK
<1>2. grouped
  BY NextGrows
<1>3. CASE status[m] = "termed"
  BY <1>2, <1>3 DEF RefusalStaysInSubject
<1>4. CASE status'[m] # status[m]
  <2>1. ~ UNCHANGED serverVars
    BY <1>4 DEF serverVars
  <2>2. ASSUME NEW o, Deliver(o, "fetched") PROVE FALSE
    BY <1>1, <1>4, <2>2 DEF Deliver, CountDelivery
  <2>3. ~ Lifecycle /\ ~ UNCHANGED vars
    BY <2>1 DEF Lifecycle, StartWorkers, HostCancelsStart, ShutdownCancels, ShutdownEnds,
                Restart, ProcessDies, consumerVars, serverVars, vars
  <2>4. \A w \in Workers : ~ StepOf(w)
    BY <2>1, <2>2, WorkMoves, ReturnMoves
  <2>5. Server
    BY <2>3, <2>4, Steps
  <2>6. PICK o \in Objs : TermArrives(o)
    BY <1>1, <1>4, <2>5 DEF Server, ServerStep, AckWaitExpires, DeliveryLost, CountDelivery,
                            AnswerEnds, AckArrives, NakArrives, AnswerLost
  <2>7. stage[o] = "term" /\ Msg(o) = m
    BY <1>1, <1>4, <2>6 DEF TermArrives
  <2> QED
    BY <1>2, <2>7 DEF Justified, Subject
<1> QED
  BY <1>3, <1>4

(* An object leaves the pool of free ones only by a delivery, which the     *)
(* server records.                                                          *)
LEMMA StepFetches ==
  ASSUME WorkInv, NEW w \in Workers, StepOf(w), UNCHANGED serverVars, NEW x \in Objs
  PROVE  ~(stage[x] = "free" /\ stage'[x] = "fetched")
<1>1. status \in [Msgs -> Statuses] /\ TypeOK
  BY DEF WorkInv, TypeOK, ConsumerTypeOK
<1>2. CASE FetchBegins(w) \/ WorkerExits(w)
  BY <1>2 DEF FetchBegins, WorkerExits, consumerVars
<1>3. ASSUME NEW o \in Objs, FetchDelivers(w, o) PROVE FALSE
  BY <1>1, <1>3, MsgOfObject
  DEF FetchDelivers, Deliver, Deliverable, CountDelivery, serverVars
<1>4. CASE FetchEnds(w)
  BY <1>1, <1>4, FetchEndsMoves
<1>5. ASSUME NEW G \in Groups(w), CallBegins(w, G)
      PROVE  stage'[x] \in {stage[x], "free", "term", "consume"}
  BY <1>1, <1>5, CallBeginsMoves
<1>6. CASE Returns(w)
  <2>1. PICK a \in Wire :
          \A y \in Objs : \/ stage'[y] \in {stage[y], "free"}
                          \/ y \in Call(w) /\ stage'[y] = a
    BY <1>6, ReturnMoves
  <2> QED
    BY <2>1 DEF Wire
<1> QED
  BY <1>2, <1>3, <1>4, <1>5, <1>6 DEF StepOf, WorkerStep

------------------------------------------------------------------------------
(* How often a message may still be accepted.                               *)

(* A call that returns makes no object live, and when it accepts a message  *)
(* it ends an object of that message.                                       *)
LEMMA ReturnEndsLives ==
  ASSUME WorkInv, NEW w \in Workers, Returns(w), NEW m \in Msgs
  PROVE  /\ Live(Stages, m)' \subseteq Live(Stages, m)
         /\ \/ accepted'[m] = accepted[m]
            \/ /\ accepted'[m] <= accepted[m] + 1
               /\ \E o \in Live(Stages, m) : Live(Stages, m)' \subseteq Live(Stages, m) \ {o}
<1>1. /\ accepted \in [Msgs -> 0..ExpiryCap + 1] /\ ExpiryCap \in Nat
      /\ stage \in [Objs -> Stages \union Wire \union {"free"}]
      /\ Call(w) \in SUBSET Objs /\ \A o \in Call(w) : stage[o] = "consume"
  BY ConsumerAssumption, CallInBatch
  DEF WorkInv, TypeOK, ConsumerTypeOK, D!DownstreamTypeOK, Call
<1>2. PICK a \in Wire :
        /\ \A x \in Objs : \/ stage'[x] \in {stage[x], "free"}
                           \/ x \in Call(w) /\ stage'[x] = a
        /\ \A x \in Call(w) : stage'[x] \in {a, "free"}
        /\ a = "ack" => D!Accept(MsgsOf(Call(w)))
        /\ a = "nak" => UNCHANGED downstreamVars
        /\ a = "term" => D!Refuse(MsgsOf(Call(w)))
  BY ReturnMoves
<1>3. Live(Stages, m)' \subseteq Live(Stages, m)
  BY <1>1, <1>2 DEF Live, Stages
<1>4. CASE a # "ack"
  <2>1. accepted' = accepted
    BY <1>2, <1>4 DEF Wire, D!Refuse, downstreamVars
  <2> QED
    BY <1>3, <2>1
<1>5. CASE a = "ack"
  <2>1. D!Accept(MsgsOf(Call(w)))
    BY <1>2, <1>5
  <2>2. CASE m \in MsgsOf(Call(w))
    <3>1. PICK o \in Call(w) : Msg(o) = m
      BY <2>2 DEF MsgsOf
    <3>2. o \in Live(Stages, m)
      BY <1>1, <3>1 DEF Live, Stages
    <3>3. stage'[o] \notin Stages \union {"nak"}
      BY <1>2, <1>5, <3>1 DEF Stages
    <3>4. Live(Stages, m)' \subseteq Live(Stages, m) \ {o}
      BY <1>3, <3>3 DEF Live
    <3>5. accepted'[m] <= accepted[m] + 1
      BY <1>1, <2>1 DEF D!Accept
    <3> QED
      BY <1>3, <3>2, <3>4, <3>5
  <2>3. CASE m \notin MsgsOf(Call(w))
    <3>1. accepted'[m] = accepted[m]
      BY <2>1, <2>3 DEF D!Accept
    <3> QED
      BY <1>3, <3>1
  <2> QED
    BY <2>2, <2>3
<1> QED
  BY <1>4, <1>5

LEMMA NextAcceptances == WorkInv /\ AcceptancesToCome /\ [Next]_vars
                           => AcceptancesToCome'
<1> SUFFICES ASSUME WorkInv, AcceptancesToCome, [Next]_vars,
                    NEW m \in Msgs, expired'[m] < ExpiryCap
             PROVE  accepted'[m] + ToCome(Stages, m)' <= 1 + expired'[m]
  BY DEF AcceptancesToCome
<1> DEFINE Goal == accepted'[m] + ToCome(Stages, m)' <= 1 + expired'[m]
<1>1. /\ accepted[m] \in Nat /\ accepted'[m] \in Nat /\ expired[m] \in Nat
      /\ ConsumerTypeOK(Stages)
      /\ stage \in [Objs -> Stages \union Wire \union {"free"}]
  <2>1. TypeOK /\ TypeOK'
    BY NextType DEF WorkInv
  <2> QED
    BY <2>1, ConsumerAssumption DEF TypeOK, ConsumerTypeOK, D!DownstreamTypeOK
<1>2. expired[m] < ExpiryCap => accepted[m] + ToCome(Stages, m) <= 1 + expired[m]
  BY DEF AcceptancesToCome
<1>3. ASSUME UNCHANGED serverVars, accepted' = accepted,
             Live(Stages, m)' \subseteq Live(Stages, m)
      PROVE  Goal
  <2>1. /\ ToCome(Stages, m)' \in Nat /\ ToCome(Stages, m) \in Nat
        /\ ToCome(Stages, m)' <= ToCome(Stages, m)
    BY <1>3, NothingNew
  <2>2. expired' = expired
    BY <1>3 DEF serverVars
  <2> QED
    BY <1>1, <1>2, <1>3, <2>1, <2>2
<1>4. ASSUME NEW w \in Workers, Returns(w) PROVE Goal
  <2>1. UNCHANGED serverVars /\ expired' = expired
    BY <1>4, ReturnMoves DEF serverVars
  <2>2. CASE accepted'[m] = accepted[m]
    <3>1. /\ ToCome(Stages, m)' \in Nat /\ ToCome(Stages, m) \in Nat
          /\ ToCome(Stages, m)' <= ToCome(Stages, m)
      BY <1>4, <2>1, ReturnEndsLives, NothingNew
    <3> QED
      BY <1>1, <1>2, <2>1, <2>2, <3>1
  <2>3. CASE accepted'[m] # accepted[m]
    <3>1. accepted'[m] <= accepted[m] + 1
      BY <1>4, <2>3, ReturnEndsLives
    <3>2. PICK o \in Live(Stages, m) : Live(Stages, m)' \subseteq Live(Stages, m) \ {o}
      BY <1>4, <2>3, ReturnEndsLives
    <3>3. /\ ToCome(Stages, m)' \in Nat /\ ToCome(Stages, m) \in Nat
          /\ ToCome(Stages, m)' + 1 <= ToCome(Stages, m)
      BY <2>1, <3>2, OneLess
    <3> QED
      BY <1>1, <1>2, <2>1, <3>1, <3>3
  <2> QED
    BY <2>2, <2>3
<1>5. ASSUME NEW w \in Workers, StepOf(w), ~Returns(w) PROVE Goal
  <2>1. /\ UNCHANGED <<accepted, refused, grouped>>
        /\ UNCHANGED serverVars \/ \E o \in Objs : Deliver(o, "fetched")
    BY <1>5, WorkMoves
  <2>2. CASE UNCHANGED serverVars
    <3>1. \A x \in Objs : \/ stage'[x] \in {stage[x], "free"}
                          \/ stage[x] = "free" /\ stage'[x] = "fetched"
                          \/ stage[x] \in Stages /\ stage'[x] = "consume"
                          \/ Msg(x) \in Unreadable /\ stage'[x] = "term"
      BY <1>5, WorkMoves
    <3>2. ASSUME NEW x \in Objs PROVE ~(stage[x] = "free" /\ stage'[x] = "fetched")
      BY <1>1, <1>5, <2>2, MsgOfObject, StepFetches
    <3>3. Live(Stages, m)' \subseteq Live(Stages, m)
      BY <1>1, <3>1, <3>2 DEF Live, Stages
    <3> QED
      BY <1>3, <2>1, <2>2, <3>3
  <2>3. ASSUME NEW o \in Objs, Deliver(o, "fetched") PROVE Goal
    <3>1. /\ ToCome(Stages, m)' \in Nat /\ ToCome(Stages, m) \in Nat
          /\ ToCome(Stages, m)' <= ToCome(Stages, m) /\ expired' = expired
      BY <1>1, <2>3, DeliverToCome
    <3> QED
      BY <1>1, <1>2, <2>1, <3>1
  <2> QED
    BY <2>1, <2>2, <2>3
<1>6. CASE Lifecycle \/ UNCHANGED vars
  <2>1. UNCHANGED serverVars
    BY <1>6 DEF Lifecycle, StartWorkers, HostCancelsStart, ShutdownCancels, ShutdownEnds,
                Restart, ProcessDies, consumerVars, serverVars, vars
  <2>2. /\ accepted' = accepted
        /\ \A x \in Objs : stage'[x] = stage[x] \/ stage'[x] = "free"
    BY <1>6, IdleMoves DEF downstreamVars
  <2>3. Live(Stages, m)' \subseteq Live(Stages, m)
    BY <2>2 DEF Live, Stages
  <2> QED
    BY <1>3, <2>1, <2>2, <2>3
<1>7. CASE Server
  <2>1. "free" \notin Stages
    BY DEF Stages
  <2>2. ServerStep \/ \E n \in Msgs : DeliveryLost(n)
    BY <1>7 DEF Server
  <2>3. /\ ToCome(Stages, m)' \in Nat /\ ToCome(Stages, m) \in Nat
        /\ expired'[m] \in Nat /\ expired[m] < ExpiryCap
        /\ ToCome(Stages, m)' + expired[m] <= ToCome(Stages, m) + expired'[m]
    BY <1>1, <2>1, <2>2, ServerToCome
  <2>4. accepted' = accepted
    BY <1>7 DEF Server, ReceiverIdle, downstreamVars
  <2> QED
    BY <1>1, <1>2, <2>3, <2>4
<1> QED
  BY <1>4, <1>5, <1>6, <1>7, Steps

------------------------------------------------------------------------------
(* The inductive invariant and what follows from it.                        *)

LEMMA InitIInv == Init => IInv
<1> SUFFICES ASSUME Init PROVE IInv
  OBVIOUS
<1>1. /\ \A o \in Objs : stage[o] = "free"
      /\ \A m \in Msgs : /\ status[m] = "ready" /\ expired[m] = 0 /\ accepted[m] = 0
  BY DEF Init, ConsumerInit, D!DownstreamInit
<1>2. WorkInv
  BY InitType, InitWork DEF WorkInv
<1>3. Justified /\ RefusalStaysInSubject
  BY <1>1 DEF Justified, RefusalStaysInSubject
<1>4. ASSUME NEW m \in Msgs PROVE ToCome(Stages, m) = 1
  <2>1. Live(Stages, m) = {}
    BY <1>1 DEF Live, Stages
  <2> QED
    BY <1>1, <2>1, FS_EmptySet DEF ToCome, Ready
<1>5. AcceptancesToCome
  BY <1>1, <1>4 DEF AcceptancesToCome
<1> QED
  BY <1>2, <1>3, <1>5 DEF IInv

LEMMA InductiveInvariant == Spec => []IInv
<1>1. IInv /\ [Next]_vars => IInv'
  BY NextWork, NextJustified, NextRefusal, NextAcceptances DEF IInv
<1> QED
  BY <1>1, InitIInv, PTL DEF Spec

(* With batch_group_by_subject a permanent refusal terminates only messages *)
(* on the subject of a message the pipeline cannot take.                    *)
THEOREM RefusalConfined == Spec => []RefusalStaysInSubject
<1>1. IInv => RefusalStaysInSubject
  BY DEF IInv
<1> QED
  BY <1>1, InductiveInvariant, PTL

(* However the workers, the groups let go, answers in flight, Shutdown and  *)
(* crashes interleave, the pipeline takes a message again only when AckWait *)
(* expired on it.                                                           *)
THEOREM NoDuplicateInBatches == Spec => []DuplicatesNeedExpiry
<1>1. IInv => DuplicatesNeedExpiry
  <2> SUFFICES ASSUME IInv, NEW m \in Msgs, expired[m] < ExpiryCap
               PROVE  accepted[m] <= 1 + expired[m]
    BY DEF DuplicatesNeedExpiry
  <2>1. accepted[m] \in Nat /\ expired[m] \in Nat
    BY ConsumerAssumption DEF IInv, WorkInv, TypeOK, ConsumerTypeOK, D!DownstreamTypeOK
  <2>2. accepted[m] + ToCome(Stages, m) <= 1 + expired[m]
    BY DEF IInv, AcceptancesToCome
  <2> QED
    BY <2>1, <2>2, ToComeNat
<1> QED
  BY <1>1, InductiveInvariant, PTL

------------------------------------------------------------------------------
(* The receiver implements the at-least-once contract.                      *)

LEMMA InitImplements == Init => A!Init
<1> SUFFICES ASSUME Init PROVE A!Init
  OBVIOUS
<1>1. /\ \A m \in Msgs : status[m] = "ready" /\ accepted[m] = 0
      /\ refused = {}
  BY DEF Init, ConsumerInit, D!DownstreamInit
<1> QED
  BY <1>1 DEF A!Init

(* An answer that arrives settles a message the pipeline answered for, or   *)
(* changes nothing the contract sees.                                       *)
LEMMA AnswerImplements ==
  ASSUME IInv, NEW o \in Objs, AnswerEnds(o), UNCHANGED downstreamVars
  PROVE  A!Next \/ UNCHANGED A!avars
<1>1. status \in [Msgs -> Statuses] /\ Msg(o) \in Msgs
  BY MsgOfObject DEF IInv, WorkInv, TypeOK, ConsumerTypeOK
<1>2. accepted' = accepted /\ refused' = refused
  BY DEF downstreamVars
<1>3. CASE AckArrives(o) /\ ~Settled(Msg(o))
  <2>1. accepted[Msg(o)] > 0
    BY <1>3 DEF AckArrives, IInv, Justified
  <2>2. status[Msg(o)] \notin {"acked", "termed"} /\ status' = [status EXCEPT ![Msg(o)] = "acked"]
    BY <1>1, <1>3 DEF AckArrives, Settled
  <2>3. A!Acknowledge(Msg(o))
    BY <1>1, <1>2, <2>1, <2>2 DEF A!Acknowledge, A!Owed
  <2> QED
    BY <1>1, <2>3 DEF A!Next
<1>4. CASE TermArrives(o) /\ ~Settled(Msg(o))
  <2>1. Msg(o) \in refused \union Unreadable
    BY <1>4 DEF TermArrives, IInv, Justified
  <2>2. status[Msg(o)] \notin {"acked", "termed"} /\ status' = [status EXCEPT ![Msg(o)] = "termed"]
    BY <1>1, <1>4 DEF TermArrives, Settled
  <2>3. A!Discard(Msg(o))
    BY <1>1, <1>2, <2>1, <2>2 DEF A!Discard, A!Owed
  <2> QED
    BY <1>1, <2>3 DEF A!Next
<1>5. CASE (AckArrives(o) \/ TermArrives(o)) /\ Settled(Msg(o))
  <2>1. status' = status
    BY <1>1, <1>5 DEF AckArrives, TermArrives
  <2> QED
    BY <1>2, <2>1 DEF A!avars
<1>6. CASE NakArrives(o) \/ AnswerLost(o)
  <2>1. \A m \in Msgs : \/ status'[m] = status[m]
                        \/ status[m] = "pending" /\ status'[m] = "ready"
    BY <1>1, <1>6 DEF NakArrives, AnswerLost
  <2> QED
    BY <1>2, <2>1 DEF A!avars
<1> QED
  BY <1>3, <1>4, <1>5, <1>6 DEF AnswerEnds

(* A call that returns is a taking or a rejection of its messages.          *)
LEMMA ReturnsImplements ==
  ASSUME IInv, NEW w \in Workers, Returns(w)
  PROVE  A!Next \/ UNCHANGED A!avars
<1> DEFINE called == MsgsOf(Call(w))
<1>1. /\ accepted \in [Msgs -> 0..ExpiryCap + 1] /\ ExpiryCap \in Nat /\ WorkInv
      /\ called \in SUBSET Msgs
  BY MsgsOfObjects, CallInBatch, ConsumerAssumption DEF IInv, WorkInv, TypeOK, D!DownstreamTypeOK
<1>2. called \intersect Unreadable = {}
  BY <1>1 DEF WorkInv, Batches, MsgsOf
<1>3. PICK a \in Wire :
        /\ a = "ack" => D!Accept(called)
        /\ a = "nak" => UNCHANGED downstreamVars
        /\ a = "term" => D!Refuse(called)
        /\ UNCHANGED <<serverVars, lifeVars>>
  BY <1>1, ReturnMoves
<1>4. status' = status
  BY <1>3 DEF serverVars
<1>5. CASE a = "ack"
  <2>1. \A m \in Msgs : accepted'[m] > 0 <=> m \in called \/ accepted[m] > 0
    BY <1>1, <1>3, <1>5 DEF D!Accept
  <2>2. refused' = refused
    BY <1>3, <1>5 DEF D!Accept
  <2>3. A!Take(called)
    BY <1>1, <1>2, <1>4, <2>1, <2>2 DEF A!Take
  <2>4. \E S \in SUBSET Msgs : A!Take(S)
    BY <1>1, <2>3 DEF A!Take
  <2> QED
    BY <2>4 DEF A!Next
<1>6. CASE a = "term"
  <2>1. A!Reject(called)
    BY <1>2, <1>3, <1>4, <1>6 DEF D!Refuse, A!Reject
  <2>2. \E S \in SUBSET Msgs : A!Reject(S)
    BY <1>1, <2>1 DEF A!Reject
  <2> QED
    BY <2>2 DEF A!Next
<1>7. CASE a = "nak"
  BY <1>3, <1>4, <1>7 DEF downstreamVars, A!avars
<1> QED
  BY <1>5, <1>6, <1>7 DEF Wire

(* Every step of the receiver is a step of the contract or none of its      *)
(* business.                                                                *)
LEMMA NextImplements == IInv /\ [Next]_vars => A!Next \/ UNCHANGED A!avars
<1> SUFFICES ASSUME IInv, [Next]_vars PROVE A!Next \/ UNCHANGED A!avars
  OBVIOUS
<1>1. status \in [Msgs -> Statuses] /\ WorkInv
  BY DEF IInv, WorkInv, TypeOK, ConsumerTypeOK
<1>2. ASSUME NEW m \in Msgs, Deliverable(m), CountDelivery(m), UNCHANGED <<accepted, refused>>
      PROVE  UNCHANGED A!avars
  <2>1. status[m] = "ready" /\ status' = [status EXCEPT ![m] = "pending"]
    BY <1>2 DEF Deliverable, CountDelivery
  <2> QED
    BY <1>1, <1>2, <2>1 DEF A!avars
<1>3. CASE Lifecycle \/ UNCHANGED vars
  BY <1>3 DEF Lifecycle, StartWorkers, HostCancelsStart, ShutdownCancels, ShutdownEnds,
              Restart, consumerVars, downstreamVars, ProcessDies, vars, A!avars
<1>4. ASSUME NEW w \in Workers, StepOf(w), ~Returns(w) PROVE UNCHANGED A!avars
  <2>1. /\ UNCHANGED <<accepted, refused>>
        /\ UNCHANGED serverVars \/ \E o \in Objs : Deliver(o, "fetched")
    BY <1>1, <1>4, WorkMoves
  <2>2. CASE UNCHANGED serverVars
    BY <2>1, <2>2 DEF serverVars, A!avars
  <2>3. CASE \E o \in Objs : Deliver(o, "fetched")
    BY <1>2, <2>1, <2>3, MsgOfObject DEF Deliver
  <2> QED
    BY <2>1, <2>2, <2>3
<1>5. CASE Server
  <2>1. UNCHANGED downstreamVars
    BY <1>5 DEF Server, ReceiverIdle
  <2>2. ASSUME NEW m \in Msgs, AckWaitExpires(m) PROVE UNCHANGED A!avars
    <3>1. status[m] = "pending" /\ status' = [status EXCEPT ![m] = "ready"]
      BY <2>2 DEF AckWaitExpires
    <3> QED
      BY <1>1, <2>1, <3>1 DEF downstreamVars, A!avars
  <2>3. ASSUME NEW m \in Msgs, DeliveryLost(m) PROVE UNCHANGED A!avars
    BY <1>2, <2>1, <2>3 DEF DeliveryLost, downstreamVars
  <2> QED
    BY <1>5, <2>1, <2>2, <2>3, AnswerImplements DEF Server, ServerStep
<1> QED
  BY <1>3, <1>4, <1>5, ReturnsImplements, Steps

(* The batch receiver implements the at-least-once contract: no mixture of  *)
(* good, malformed and refused messages and no failure among the groups     *)
(* settles a message the pipeline did not answer for.                       *)
THEOREM BatchImplementsAtLeastOnce == Spec => AtLeastOnceDelivery
<1>1. IInv /\ [Next]_vars => [A!Next]_A!avars
  BY NextImplements
<1> QED
  BY <1>1, InitImplements, InductiveInvariant, PTL DEF Spec, A!Spec, AtLeastOnceDelivery
==============================================================================
