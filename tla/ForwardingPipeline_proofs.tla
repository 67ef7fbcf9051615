----------------------- MODULE ForwardingPipeline_proofs -----------------------
(****************************************************************************)
(* What a pipeline does, for every number of workers, messages, records,    *)
(* values and retries: which connections the exporter has open, that a      *)
(* message whose publication failed for good is not in the stream and never *)
(* will be, that the pipeline implements the contract of EndToEnd, that     *)
(* records go to the subject of their own value, and that a record is       *)
(* stored twice only when its Msg-Id was forgotten.                         *)
(*                                                                          *)
(* IInv is about the exporter: each message is on the wire or stored or     *)
(* gone, under a number no other message has, and a call that has not       *)
(* published has no number.  DeliveryInv is about the records: those a      *)
(* worker owes are stored or in the parts it has left, and an               *)
(* acknowledgement a call waits for is one of its own payload.  AddressInv  *)
(* is about what is sent: the parts of messages, on subjects of their       *)
(* records.  Of Algorithms_proofs it uses the lemmas on Split and on        *)
(* templates, which mention neither its variable nor its constants.         *)
(****************************************************************************)
EXTENDS ForwardingPipeline, Algorithms_proofs

(* What Start and Shutdown leave behind.                                    *)
LifeInv ==
  /\ js \in Nat /\ starting \in Nat /\ starts \in Nat
  /\ js # 0 => starting = 0
  /\ ConnectionsAccounted

IsCall(r) == DOMAIN r = {"stage", "payload", "subject", "client", "send"}

CallsInv ==
  /\ sends \in Nat
  /\ call = [c \in Calls |-> call[c]]
  /\ \A c \in Calls :
       /\ IsCall(call[c]) /\ call[c].send \in 0..sends
       /\ call[c].stage \in {"idle", "client", "publish"} => call[c].send = 0

(* A number is given once, and what is stored is not on the wire.           *)
NumbersInv ==
  /\ \A m \in wire \union stream : m.send \in 1..sends
  /\ \A m, n \in wire : m.send = n.send => m = n
  /\ \A m \in wire, n \in stream : m.send # n.send

IInv == LifeInv /\ CallsInv /\ NumbersInv /\ PermanentNeverStored

LEMMA InitIInv == Init => IInv
<1> SUFFICES ASSUME Init PROVE IInv
  OBVIOUS
<1>1. /\ js = 0 /\ starting = 0 /\ starts = 0 /\ open = {} /\ sends = 0
      /\ wire = {} /\ stream = {} /\ call = [c \in Calls |-> Idle]
  BY DEF Init, ExporterInit
<1>2. LifeInv
  BY <1>1 DEF LifeInv, ConnectionsAccounted
<1>3. \A c \in Calls : IsCall(call[c]) /\ call[c].stage = "idle" /\ call[c].send = 0
  BY <1>1 DEF IsCall, Idle
<1> QED
  BY <1>1, <1>2, <1>3 DEF IInv, CallsInv, NumbersInv, PermanentNeverStored

------------------------------------------------------------------------------
(* Start and Shutdown.                                                      *)

LEMMA LifecycleStep == LifeInv /\ Lifecycle => LifeInv'
<1> SUFFICES ASSUME LifeInv, Lifecycle PROVE LifeInv'
  OBVIOUS
<1> USE DEF LifeInv, ConnectionsAccounted
<1>1. CASE StartConnects
  BY <1>1 DEF StartConnects
<1>2. CASE StartSucceeds
  BY <1>2 DEF StartSucceeds
<1>3. CASE StartFails
  BY <1>3 DEF StartFails
<1>4. CASE Shutdown
  BY <1>4 DEF Shutdown
<1> QED BY <1>1, <1>2, <1>3, <1>4 DEF Lifecycle

------------------------------------------------------------------------------
(* The calls and the messages.                                              *)

MessagesInv == CallsInv /\ NumbersInv /\ PermanentNeverStored

(* What a call may be when n messages were published and msgs are left.     *)
CallOk(r, n, msgs) ==
  /\ IsCall(r) /\ r.send \in 0..n
  /\ r.stage \in {"idle", "client", "publish"} => r.send = 0
  /\ r.stage = "permanent" => \A m \in msgs : m.send # r.send

LEMMA CallsOk ==
  ASSUME MessagesInv, NEW c \in Calls
  PROVE  CallOk(call[c], sends, wire \union stream)
  BY DEF MessagesInv, CallsInv, PermanentNeverStored, CallOk

(* A call that leaves the messages alone, or takes one from the wire.       *)
LEMMA CallMoves ==
  ASSUME MessagesInv, NEW c \in Calls, NEW r, CallOk(r, sends, wire' \union stream),
         call' = [call EXCEPT ![c] = r], wire' \subseteq wire, UNCHANGED <<sends, stream>>
  PROVE  MessagesInv'
<1>1. call' = [d \in Calls |-> call'[d]] /\ call'[c] = r
      /\ \A d \in Calls : d # c => call'[d] = call[d]
  BY DEF MessagesInv, CallsInv
<1>2. \A d \in Calls : CallOk(call'[d], sends, wire' \union stream)
  <2> SUFFICES ASSUME NEW d \in Calls, d # c
               PROVE  CallOk(call[d], sends, wire' \union stream)
    BY <1>1
  <2>1. CallOk(call[d], sends, wire \union stream)
    BY CallsOk
  <2> QED BY <2>1 DEF CallOk
<1>3. CallsInv' /\ PermanentNeverStored'
  BY <1>1, <1>2 DEF MessagesInv, CallsInv, PermanentNeverStored, CallOk
<1>4. NumbersInv'
  BY DEF MessagesInv, NumbersInv
<1> QED BY <1>3, <1>4 DEF MessagesInv

(* The call returns a result that asks nothing.                             *)
LEMMA ReturnsOk ==
  ASSUME MessagesInv, NEW c \in Calls, NEW result \in {"ok", "retryable", "permanent"},
         Returns(c, result), wire' \subseteq wire, UNCHANGED <<sends, stream>>,
         result = "permanent" => \A m \in wire' \union stream : m.send # call[c].send
  PROVE  MessagesInv'
<1>1. PICK q : q = [call[c] EXCEPT !.stage = result, !.client = 0]
  OBVIOUS
<1>2. CallOk(call[c], sends, wire \union stream) /\ call' = [call EXCEPT ![c] = q]
  BY <1>1, CallsOk DEF Returns, MessagesInv, CallsInv
<1>3. IsCall(q) /\ q.stage = result /\ q.send = call[c].send
  BY <1>1, <1>2 DEF CallOk, IsCall
<1>4. CallOk(q, sends, wire' \union stream)
  BY <1>2, <1>3 DEF CallOk
<1> QED BY <1>2, <1>4, CallMoves

LEMMA ConsumeStep ==
  ASSUME MessagesInv, NEW c \in Calls, NEW payload, NEW header, Consume(c, payload, header)
  PROVE  MessagesInv'
<1>1. /\ call[c].stage = "idle" /\ UNCHANGED <<sends, wire, stream>>
      /\ \/ Returns(c, "permanent")
         \/ \E s : call' = [call EXCEPT ![c] = [Idle EXCEPT !.stage = "client",
                                                  !.payload = payload, !.subject = s]]
  BY DEF Consume, transportVars, serverVars
<1>2. CASE Returns(c, "permanent")
  <2>1. call[c].send = 0 /\ \A m \in wire \union stream : m.send \in 1..sends /\ sends \in Nat
    BY <1>1 DEF MessagesInv, CallsInv, NumbersInv
  <2>2. wire' = wire
    BY <1>1
  <2>3. \A m \in wire' \union stream : m.send # call[c].send
    BY <2>1, <2>2
  <2> QED BY <1>1, <1>2, <2>3, ReturnsOk
<1>3. ASSUME NEW s,
             call' = [call EXCEPT ![c] = [Idle EXCEPT !.stage = "client",
                                            !.payload = payload, !.subject = s]]
      PROVE  MessagesInv'
  <2>1. PICK q : q = [Idle EXCEPT !.stage = "client", !.payload = payload, !.subject = s]
    OBVIOUS
  <2>2. IsCall(q) /\ q.stage = "client" /\ q.send = 0
    BY <2>1 DEF IsCall, Idle
  <2>3. CallOk(q, sends, wire' \union stream)
    BY <1>1, <2>2 DEF CallOk, MessagesInv, CallsInv
  <2> QED BY <1>1, <1>3, <2>1, <2>3, CallMoves
<1> QED BY <1>1, <1>2, <1>3

(* A part of a payload is done: the call is forgotten.                      *)
LEMMA CallEndsStep ==
  ASSUME MessagesInv, NEW c \in Calls, NEW result, CallEnds(c, result)
  PROVE  MessagesInv'
<1>1. call' = [call EXCEPT ![c] = Idle] /\ UNCHANGED <<sends, wire, stream>>
  BY DEF CallEnds, transportVars, serverVars
<1>2. CallOk(Idle, sends, wire' \union stream)
  BY <1>1 DEF CallOk, IsCall, Idle, MessagesInv, CallsInv
<1> QED BY <1>1, <1>2, CallMoves

(* A message gets the next number, so no call that failed had it.           *)
LEMMA PublishStep ==
  ASSUME MessagesInv, NEW c \in Calls, Publish(c)
  PROVE  MessagesInv'
<1>1. CASE call[c].client \in open
  <2>1. /\ sends' = sends + 1 /\ stream' = stream
        /\ call' = [call EXCEPT ![c].stage = "wait", ![c].send = sends']
    BY <1>1 DEF Publish, serverVars
  <2>2. PICK msg : wire' = wire \union {msg} /\ msg.send = sends'
    <3> DEFINE new == [send |-> sends', subject |-> call[c].subject,
                       payload |-> call[c].payload,
                       id |-> MsgId(call[c].subject, call[c].payload)]
    <3>1. wire' = wire \union {new}
      BY <1>1 DEF Publish
    <3>2. new.send = sends'
      OBVIOUS
    <3> QED BY <3>1, <3>2
  <2>3. sends \in Nat /\ sends' \in Nat
    BY <2>1 DEF MessagesInv, CallsInv
  <2>4. /\ call' = [d \in Calls |-> call'[d]]
        /\ IsCall(call'[c]) /\ call'[c].stage = "wait" /\ call'[c].send = sends'
        /\ \A d \in Calls : d # c => call'[d] = call[d]
    BY <2>1, CallsOk DEF MessagesInv, CallsInv, CallOk, IsCall
  <2>5. CallsInv'
    BY <2>1, <2>3, <2>4 DEF MessagesInv, CallsInv
  <2>6. NumbersInv'
    BY <2>1, <2>2, <2>3 DEF MessagesInv, NumbersInv
  <2>7. PermanentNeverStored'
    <3> SUFFICES ASSUME NEW d \in Calls, call'[d].stage = "permanent",
                        NEW m \in wire' \union stream'
                 PROVE  m.send # call'[d].send
      BY DEF PermanentNeverStored
    <3>1. call'[d] = call[d] /\ call[d].send \in 0..sends
      BY <2>4 DEF MessagesInv, CallsInv
    <3> QED
      BY <2>1, <2>2, <2>3, <3>1 DEF MessagesInv, PermanentNeverStored
  <2> QED BY <2>5, <2>6, <2>7 DEF MessagesInv
<1>2. CASE call[c].client \notin open
  <2>1. Returns(c, "retryable") /\ UNCHANGED <<sends, wire, stream>>
    BY <1>2 DEF Publish, serverVars
  <2> QED BY <2>1, ReturnsOk
<1> QED BY <1>1, <1>2

(* The steps of a call in the exporter.                                     *)
LEMMA CallStepStep ==
  ASSUME MessagesInv, NEW c \in Calls, CallStep(c)
  PROVE  MessagesInv'
<1>1. CASE ReadClient(c)
  <2>1. call[c].stage = "client" /\ UNCHANGED <<sends, wire, stream>>
    BY <1>1 DEF ReadClient, transportVars, serverVars
  <2>2. CASE Returns(c, "retryable")
    BY <2>1, <2>2, ReturnsOk
  <2>3. CASE call' = [call EXCEPT ![c].stage = "publish", ![c].client = js]
    <3>1. PICK q : q = [[call[c] EXCEPT !.stage = "publish"] EXCEPT !.client = js]
      OBVIOUS
    <3>2. CallOk(call[c], sends, wire \union stream) /\ call' = [call EXCEPT ![c] = q]
      BY <2>3, <3>1, CallsOk DEF MessagesInv, CallsInv
    <3>3. IsCall(q) /\ q.stage = "publish" /\ q.send = call[c].send
      BY <3>1, <3>2 DEF CallOk, IsCall
    <3>4. CallOk(q, sends, wire' \union stream)
      BY <2>1, <3>2, <3>3 DEF CallOk
    <3> QED BY <2>1, <3>2, <3>4, CallMoves
  <2> QED BY <1>1, <2>2, <2>3 DEF ReadClient
<1>2. CASE Publish(c)
  BY <1>2, PublishStep
<1>3. CASE PublishOk(c) \/ PublishTimesOut(c)
  <2>1. PICK result \in {"ok", "retryable"} : Returns(c, result)
    BY <1>3 DEF PublishOk, PublishTimesOut
  <2>2. UNCHANGED <<sends, wire, stream>>
    BY <1>3 DEF PublishOk, PublishTimesOut, serverVars
  <2> QED BY <2>1, <2>2, ReturnsOk
<1>4. CASE PublishUnheard(c)
  <2>1. PICK m \in wire : m.send = call[c].send /\ wire' = wire \ {m}
    BY <1>4 DEF PublishUnheard
  <2>2. Returns(c, "permanent") /\ UNCHANGED <<sends, stream>>
    BY <1>4 DEF PublishUnheard, serverVars
  <2>3. \A n \in wire' \union stream : n.send # call[c].send
    BY <2>1 DEF MessagesInv, NumbersInv
  <2> QED BY <2>1, <2>2, <2>3, ReturnsOk
<1>5. CASE PublishRefused(c)
  <2>1. call[c].stage = "publish" /\ Returns(c, "permanent") /\ UNCHANGED <<sends, wire, stream>>
    BY <1>5 DEF PublishRefused, transportVars, serverVars
  <2>2. call[c].send = 0 /\ \A m \in wire \union stream : m.send \in 1..sends /\ sends \in Nat
    BY <2>1 DEF MessagesInv, CallsInv, NumbersInv
  <2>3. \A m \in wire' \union stream : m.send # call[c].send
    BY <2>1, <2>2
  <2> QED BY <2>1, <2>3, ReturnsOk
<1> QED BY <1>1, <1>2, <1>3, <1>4, <1>5 DEF CallStep

(* The server stores a message of the wire, or the network loses it.        *)
LEMMA ServerStepStep == MessagesInv /\ ServerStep => MessagesInv'
<1> SUFFICES ASSUME MessagesInv, ServerStep PROVE MessagesInv'
  OBVIOUS
<1>1. UNCHANGED <<call, sends>>
  BY DEF ServerStep, Store, MessageLost, WindowPasses, ListeningChanges, transportVars
<1>2. \/ wire' = wire /\ stream' = stream
      \/ \E m \in wire : wire' = wire \ {m} /\ (stream' = stream \/ stream' = stream \union {m})
  BY DEF ServerStep, Store, MessageLost, WindowPasses, ListeningChanges, transportVars,
         serverVars
<1>3. wire' \union stream' \subseteq wire \union stream
  BY <1>2
<1>4. CallsInv' /\ PermanentNeverStored'
  BY <1>1, <1>3 DEF MessagesInv, CallsInv, PermanentNeverStored
<1>5. NumbersInv'
  BY <1>1, <1>2 DEF MessagesInv, NumbersInv
<1> QED BY <1>4, <1>5 DEF MessagesInv

------------------------------------------------------------------------------
(* Every step preserves the invariant.                                      *)
LEMMA StepIInv == IInv /\ [Next]_vars => IInv'
<1> SUFFICES ASSUME IInv, [Next]_vars PROVE IInv'
  OBVIOUS
<1>1. MessagesInv /\ LifeInv
  BY DEF IInv, MessagesInv
<1>2. SUFFICES MessagesInv' /\ LifeInv'
  BY DEF IInv, MessagesInv
<1>3. ASSUME UNCHANGED lifeVars PROVE LifeInv'
  BY <1>1, <1>3 DEF LifeInv, ConnectionsAccounted, lifeVars
<1>4. ASSUME UNCHANGED <<call, transportVars, serverVars>> PROVE MessagesInv'
  BY <1>1, <1>4 DEF MessagesInv, CallsInv, NumbersInv, PermanentNeverStored, transportVars,
                    serverVars
<1>5. ASSUME NEW c \in Calls, WorkerStep(c) PROVE MessagesInv' /\ LifeInv'
  <2>1. CASE \E S \in SUBSET Msgs : DeliverMessages(c, S)
    BY <1>3, <1>4, <2>1 DEF DeliverMessages, exporterVars
  <2>2. CASE HeaderMissing(c)
    BY <1>3, <1>4, <2>2 DEF HeaderMissing, exporterVars
  <2>3. CASE ForwardPart(c)
    <3>1. PICK header : Consume(c, Head(work[c].parts), header)
      BY <2>3 DEF ForwardPart
    <3>2. UNCHANGED lifeVars
      BY <3>1 DEF Consume
    <3> QED BY <1>1, <1>3, <3>1, <3>2, ConsumeStep
  <2>4. CASE PartTaken(c) \/ PartFails(c) \/ PartRefused(c)
    <3>1. \E result : CallEnds(c, result)
      BY <2>4 DEF PartTaken, PartFails, PartRefused
    <3>2. UNCHANGED lifeVars
      BY <3>1 DEF CallEnds
    <3> QED BY <1>1, <1>3, <3>1, <3>2, CallEndsStep
  <2> QED BY <1>5, <2>1, <2>2, <2>3, <2>4 DEF WorkerStep
<1>6. ASSUME NEW c \in Calls, CallStep(c) PROVE MessagesInv' /\ LifeInv'
  <2>1. UNCHANGED lifeVars
    BY <1>6 DEF CallStep, ReadClient, Publish, PublishOk, PublishTimesOut, PublishUnheard,
                PublishRefused
  <2> QED BY <1>1, <1>3, <1>6, <2>1, CallStepStep
<1>7. CASE Lifecycle
  <2>1. UNCHANGED <<call, transportVars, serverVars>>
    BY <1>7 DEF Lifecycle, StartConnects, StartSucceeds, StartFails, Shutdown
  <2> QED BY <1>1, <1>4, <1>7, <2>1, LifecycleStep
<1>8. CASE ServerStep
  <2>1. UNCHANGED lifeVars
    BY <1>8 DEF ServerStep, Store, MessageLost, WindowPasses, ListeningChanges
  <2> QED BY <1>1, <1>3, <1>8, <2>1, ServerStepStep
<1>9. CASE UNCHANGED vars
  BY <1>3, <1>4, <1>9 DEF vars, exporterVars
<1> QED BY <1>5, <1>6, <1>7, <1>8, <1>9 DEF Next

(* The open connections are those of the exporter or of a Start.            *)
THEOREM Connections == Spec => []ConnectionsAccounted
<1>1. IInv => ConnectionsAccounted
  BY DEF IInv, LifeInv
<1> QED BY InitIInv, StepIInv, <1>1, PTL DEF Spec

(* A call that failed for good did not store its message and will not.      *)
THEOREM PermanentIsFinal == Spec => []PermanentNeverStored
<1>1. IInv => PermanentNeverStored
  BY DEF IInv
<1> QED BY InitIInv, StepIInv, <1>1, PTL DEF Spec

------------------------------------------------------------------------------
(* The records of a delivery and of its parts.                              *)

InParts(parts) == UNION {ToSet(parts[i]) : i \in DOMAIN parts}

(* A payload has the records of the messages it is merged from.             *)
LEMMA MergedRecords ==
  ASSUME NEW S \in SUBSET Msgs
  PROVE  /\ Merged(S) \in Seq(Records)
         /\ ToSet(Merged(S)) = UNION {ToSet(Content[m]) : m \in S}
<1>1. PICK n : n = Cardinality(S) /\ n \in Nat
  BY FS_Subset, FS_CardinalityType, PipelineAssumption
<1>2. IsFiniteSet(S)
  BY FS_Subset, PipelineAssumption
<1>3. \E f \in [1..n -> S] : IsInjective(f)
  <2>1. ExistsBijection(1..n, S)
    BY <1>1, <1>2, FS_CardinalityType
  <2>2. PICK f \in Bijection(1..n, S) : TRUE
    BY <2>1 DEF ExistsBijection
  <2>3. f \in [1..n -> S] /\ \A a, b \in 1..n : f[a] = f[b] => a = b
    BY <2>2 DEF Bijection, Injection, IsInjective
  <2> QED BY <2>3 DEF IsInjective
<1>4. PICK g : g = SetToSeq(S)
  OBVIOUS
<1>5. g \in [1..n -> S] /\ IsInjective(g)
  BY <1>1, <1>3, <1>4 DEF SetToSeq
<1>6. \A m \in S : \E i \in 1..n : g[i] = m
  <2>1. g \in Injection(1..n, S)
    BY <1>5 DEF Injection, IsInjective
  <2>2. Cardinality(1..n) = n
    BY <1>1, FS_Interval
  <2>3. g \in Surjection(1..n, S)
    BY <1>1, <1>2, <2>1, <2>2, FS_Injection
  <2> QED BY <2>3 DEF Surjection
<1>7. PICK seqs : seqs = [i \in 1..n |-> Content[g[i]]]
  OBVIOUS
<1>8. seqs \in Seq(Seq(Records)) /\ Len(seqs) = n /\ DOMAIN seqs = 1..n
  <2>1. \A i \in 1..n : Content[g[i]] \in Seq(Records)
    BY <1>5, PipelineAssumption
  <2> QED BY <1>1, <1>7, <2>1
<1>9. Merged(S) = FlattenSeq(seqs)
  BY <1>1, <1>4, <1>7 DEF Merged
<1>10. UNION {ToSet(seqs[i]) : i \in 1..n} = UNION {ToSet(Content[m]) : m \in S}
  <2>1. \A i \in 1..n : seqs[i] = Content[g[i]] /\ g[i] \in S
    BY <1>5, <1>7
  <2>2. \A r : (\E i \in 1..n : r \in ToSet(seqs[i])) <=> \E m \in S : r \in ToSet(Content[m])
    BY <1>6, <2>1
  <2> QED BY <2>2
<1>11. FlattenSeq(seqs) \in Seq(Records)
  BY <1>8, FlattenType
<1>12. ToSet(FlattenSeq(seqs)) = UNION {ToSet(seqs[i]) : i \in DOMAIN seqs}
  BY <1>8, FlattenElements
<1> QED BY <1>8, <1>9, <1>10, <1>11, <1>12, Zenon

------------------------------------------------------------------------------
(* Where the records of a delivery are.  Every record that is to be kept of *)
(* the messages a worker has is stored or in a part still to come.          *)

IsWork(w) ==
  /\ DOMAIN w = {"msgs", "header", "parts"}
  /\ w.msgs \subseteq Msgs
  /\ w.parts \in Seq(Seq(Records)) /\ w.parts # <<>>

Covered(w) == \A m \in w.msgs : \A r \in Kept(m) : r \in Stored \/ r \in InParts(w.parts)

WorkInv ==
  /\ config.missing \in {"error", "drop"}
  /\ work = [c \in Calls |-> work[c]]
  /\ \A c \in Calls : work[c] # Free => IsWork(work[c]) /\ Covered(work[c])
  /\ settled \in [Msgs -> {"no", "acked", "termed"}]

(* A call carries the first part its worker has left; it is stored when the *)
(* call succeeded, and when an acknowledgement waits for it.                *)
Fits(k, w, sent, answers, records) ==
  /\ k.stage # "idle" => w # Free
  /\ k.stage \in {"client", "publish", "wait", "ok"} => k.payload = Head(w.parts)
  /\ k.stage = "ok" => ToSet(k.payload) \subseteq records
  /\ k.stage = "wait" => \A m \in sent : m.send = k.send => m.payload = k.payload
  /\ k.stage = "wait" /\ k.send \in answers => ToSet(k.payload) \subseteq records

FitInv == \A c \in Calls : Fits(call[c], work[c], wire, acked, Stored)

(* An acknowledgement is of a message sent, and a Msg-Id in the window of a *)
(* message stored.                                                          *)
AnswersInv ==
  /\ acked \subseteq 1..sends
  /\ \A m \in wire \union stream : m.id = <<m.subject, m.payload>>
  /\ \A id \in window : \E m \in stream : m.id = id

DeliveryInv == WorkInv /\ FitInv /\ AnswersInv

LEMMA InitDelivery == Init => DeliveryInv
<1> SUFFICES ASSUME Init PROVE DeliveryInv
  OBVIOUS
<1>1. /\ config \in Configs /\ work = [c \in Calls |-> Free]
      /\ settled = [m \in Msgs |-> "no"] /\ call = [c \in Calls |-> Idle]
      /\ wire = {} /\ stream = {} /\ window = {} /\ acked = {}
  BY DEF Init, ExporterInit
<1>2. WorkInv
  BY <1>1 DEF WorkInv, Configs
<1>3. FitInv
  BY <1>1 DEF FitInv, Fits, Idle
<1>4. AnswersInv
  BY <1>1 DEF AnswersInv
<1> QED BY <1>2, <1>3, <1>4 DEF DeliveryInv

LEMMA StoredGrows ==
  ASSUME stream \subseteq stream'
  PROVE  Stored \subseteq Stored'
  BY DEF Stored

LEMMA KeptConstant ==
  ASSUME UNCHANGED <<attr, config>>
  PROVE  \A m : Kept(m)' = Kept(m)
  BY DEF Kept

LEMMA FitsGrows ==
  ASSUME NEW k, NEW w, NEW sent, NEW answers, NEW records, Fits(k, w, sent, answers, records),
         NEW sent2, NEW answers2, NEW records2, sent2 \subseteq sent,
         answers2 \subseteq answers, records \subseteq records2
  PROVE  Fits(k, w, sent2, answers2, records2)
  BY DEF Fits

(* A step that leaves the workers alone.                                    *)
LEMMA WorkUnchanged ==
  ASSUME WorkInv, UNCHANGED <<attr, config, work, settled>>, stream \subseteq stream'
  PROVE  WorkInv'
<1>1. \A w : Covered(w) => Covered(w)'
  <2>1. Stored \subseteq Stored'
    BY StoredGrows
  <2>2. \A m : Kept(m)' = Kept(m)
    BY KeptConstant
  <2> QED BY <2>1, <2>2 DEF Covered
<1> QED BY <1>1 DEF WorkInv

(* A worker gets work or is done.                                           *)
LEMMA WorkReplaced ==
  ASSUME WorkInv, NEW c \in Calls, NEW w, work' = [work EXCEPT ![c] = w],
         UNCHANGED <<attr, config>>, stream \subseteq stream',
         w = Free \/ (IsWork(w) /\ Covered(w)'),
         settled' = settled \/ \E S : \E how \in {"acked", "termed"} : Settle(S, how)
  PROVE  WorkInv'
<1>1. ASSUME NEW d \in Calls, NEW v, v = work'[d], v # Free PROVE IsWork(v) /\ Covered(v)'
  <2>1. CASE d = c
    <3>1. v = w
      BY <1>1, <2>1 DEF WorkInv
    <3> QED BY <1>1, <3>1
  <2>2. CASE d # c
    <3>1. v = work[d]
      BY <1>1, <2>2 DEF WorkInv
    <3>2. IsWork(v) /\ Covered(v)
      BY <1>1, <3>1 DEF WorkInv
    <3>3. Stored \subseteq Stored'
      BY StoredGrows
    <3>4. \A m : Kept(m)' = Kept(m)
      BY KeptConstant
    <3> QED BY <3>2, <3>3, <3>4 DEF Covered
  <2> QED BY <2>1, <2>2
<1>2. settled' \in [Msgs -> {"no", "acked", "termed"}]
  BY DEF WorkInv, Settle
<1>3. work' = [d \in Calls |-> work'[d]]
  BY DEF WorkInv
<1>4. config'.missing \in {"error", "drop"}
  BY DEF WorkInv
<1>5. \A d \in Calls : \A v : v = work'[d] /\ v # Free => IsWork(v) /\ Covered(v)'
  BY <1>1
<1> QED BY <1>2, <1>3, <1>4, <1>5 DEF WorkInv

(* A step of one call or its worker; no message is sent or answered.        *)
LEMMA FitReplaced ==
  ASSUME FitInv, NEW c \in Calls, NEW k, NEW w, k = call'[c], w = work'[c],
         Fits(k, w, wire', acked', Stored'),
         \A d \in Calls : d # c => call'[d] = call[d] /\ work'[d] = work[d],
         wire' \subseteq wire, acked' \subseteq acked, stream \subseteq stream'
  PROVE  FitInv'
<1> SUFFICES ASSUME NEW d \in Calls, NEW l, NEW v, l = call'[d], v = work'[d], d # c
             PROVE  Fits(l, v, wire', acked', Stored')
  BY DEF FitInv
<1>1. Fits(l, v, wire, acked, Stored)
  BY DEF FitInv
<1>2. Stored \subseteq Stored'
  BY StoredGrows
<1> QED BY <1>1, <1>2, FitsGrows

(* A call goes on or returns.                                               *)
LEMMA FitMoves ==
  ASSUME FitInv, CallsInv, NEW c \in Calls, NEW k, call' = [call EXCEPT ![c] = k],
         Fits(k, work[c], wire', acked', Stored'), UNCHANGED work,
         wire' \subseteq wire, acked' \subseteq acked, stream \subseteq stream'
  PROVE  FitInv'
<1>1. call'[c] = k /\ \A d \in Calls : d # c => call'[d] = call[d]
  BY DEF CallsInv
<1> QED BY <1>1, FitReplaced

LEMMA FitReturns ==
  ASSUME FitInv, CallsInv, NEW c \in Calls, NEW result \in {"ok", "retryable", "permanent"},
         Returns(c, result), UNCHANGED work, work[c] # Free,
         wire' \subseteq wire, acked' \subseteq acked, stream \subseteq stream',
         result = "ok" => /\ call[c].payload = Head(work[c].parts)
                          /\ ToSet(call[c].payload) \subseteq Stored
  PROVE  FitInv'
<1>1. PICK k : k = [call[c] EXCEPT !.stage = result, !.client = 0]
  OBVIOUS
<1>2. call' = [call EXCEPT ![c] = k]
  BY <1>1 DEF Returns, CallsInv
<1>3. k.stage = result /\ k.payload = call[c].payload
  BY <1>1 DEF CallsInv, IsCall
<1>4. Stored \subseteq Stored'
  BY StoredGrows
<1>5. Fits(k, work[c], wire', acked', Stored')
  BY <1>3, <1>4 DEF Fits
<1> QED BY <1>2, <1>5, FitMoves

(* A message gets a number that no call and no acknowledgement has.         *)
LEMMA FitPublishes ==
  ASSUME FitInv, AnswersInv, CallsInv, NumbersInv, NEW c \in Calls, Publish(c),
         call[c].client \in open, UNCHANGED work
  PROVE  FitInv' /\ AnswersInv'
<1>1. PICK k, new, n :
        /\ k = call'[c] /\ n = sends + 1
        /\ new = [send |-> n, subject |-> call[c].subject, payload |-> call[c].payload,
                  id |-> MsgId(call[c].subject, call[c].payload)]
  OBVIOUS
<1>2. /\ sends' = n /\ wire' = wire \union {new} /\ UNCHANGED <<acked, stream, window>>
      /\ call[c].stage = "publish"
      /\ call' = [call EXCEPT ![c].stage = "wait", ![c].send = n]
  BY <1>1 DEF Publish, serverVars
<1>3. sends \in Nat /\ n = sends + 1 /\ n \notin acked
  BY <1>1 DEF CallsInv, AnswersInv
<1>4. /\ k.stage = "wait" /\ k.send = n /\ k.payload = call[c].payload
      /\ \A d \in Calls : d # c => call'[d] = call[d]
  BY <1>1, <1>2 DEF CallsInv, IsCall
<1>5. new.send = n /\ new.payload = call[c].payload /\ new.id = <<new.subject, new.payload>>
  BY <1>1 DEF MsgId
<1>6. Stored' = Stored
  BY <1>2 DEF Stored
<1>7. Fits(call[c], work[c], wire, acked, Stored)
  BY DEF FitInv
<1>8. Fits(k, work[c], wire', acked', Stored')
  <2>1. work[c] # Free /\ k.payload = Head(work[c].parts)
    BY <1>2, <1>4, <1>7 DEF Fits
  <2>2. \A m \in wire : m.send # n
    BY <1>3 DEF NumbersInv
  <2>3. \A m \in wire' : m.send = n => m.payload = k.payload
    BY <1>2, <1>4, <1>5, <2>2
  <2> QED BY <1>2, <1>3, <1>4, <2>1, <2>3 DEF Fits
<1>9. ASSUME NEW d \in Calls, d # c PROVE Fits(call[d], work[d], wire', acked', Stored')
  <2>1. Fits(call[d], work[d], wire, acked, Stored)
    BY DEF FitInv
  <2>2. call[d].send # n
    BY <1>3 DEF CallsInv
  <2> QED BY <1>2, <1>5, <1>6, <2>1, <2>2 DEF Fits
<1>10. FitInv'
  <2> SUFFICES ASSUME NEW d \in Calls, NEW l, l = call'[d]
               PROVE  Fits(l, work[d], wire', acked', Stored')
    BY DEF FitInv
  <2>1. CASE d = c
    BY <1>1, <1>8, <2>1
  <2>2. CASE d # c
    BY <1>4, <1>9, <2>2
  <2> QED BY <2>1, <2>2
<1>11. AnswersInv'
  BY <1>2, <1>3, <1>5 DEF AnswersInv
<1> QED BY <1>10, <1>11

(* A message is stored, or its Msg-Id shows that an equal one is.           *)
LEMMA StoreDelivers ==
  ASSUME FitInv, AnswersInv, CallsInv, NumbersInv, NEW m, Store(m), UNCHANGED work
  PROVE  FitInv' /\ AnswersInv'
<1>1. /\ m \in wire /\ wire' = wire \ {m} /\ UNCHANGED <<call, sends>>
      /\ acked' \subseteq acked \union {m.send}
      /\ \/ msgID /\ m.id \in window /\ UNCHANGED <<stream, window>>
         \/ stream' = stream \union {m} /\ window' \subseteq window \union {m.id}
  BY DEF Store
<1>2. stream \subseteq stream' /\ Stored \subseteq Stored'
  BY <1>1, StoredGrows
<1>3. ToSet(m.payload) \subseteq Stored'
  <2>1. \E n \in stream' : n.payload = m.payload
    <3>1. CASE m.id \in window /\ stream' = stream
      <4>1. PICK n \in stream : n.id = m.id
        BY <3>1 DEF AnswersInv
      <4>2. n.id = <<n.subject, n.payload>> /\ m.id = <<m.subject, m.payload>>
        BY <1>1 DEF AnswersInv
      <4>3. <<n.subject, n.payload>> = <<m.subject, m.payload>>
        BY <4>1, <4>2, Zenon
      <4>4. n.payload = m.payload
        BY <4>3
      <4> QED BY <3>1, <4>1, <4>4
    <3>2. CASE stream' = stream \union {m}
      BY <3>2
    <3> QED BY <1>1, <3>1, <3>2
  <2> QED BY <2>1 DEF Stored
<1>4. FitInv'
  <2> SUFFICES ASSUME NEW d \in Calls, NEW k, k = call[d]
               PROVE  Fits(k, work[d], wire', acked', Stored')
    BY <1>1 DEF FitInv
  <2>1. Fits(k, work[d], wire, acked, Stored)
    BY DEF FitInv
  <2>2. ASSUME k.stage = "wait", k.send = m.send PROVE k.payload = m.payload
    BY <1>1, <2>1, <2>2 DEF Fits
  <2> QED BY <1>1, <1>2, <1>3, <2>1, <2>2 DEF Fits
<1>5. AnswersInv'
  <2>1. acked' \subseteq 1..sends'
    BY <1>1 DEF AnswersInv, NumbersInv
  <2>2. \A n \in wire' \union stream' : n.id = <<n.subject, n.payload>>
    BY <1>1 DEF AnswersInv
  <2>3. \A id \in window' : \E n \in stream' : n.id = id
    BY <1>1 DEF AnswersInv
  <2> QED BY <2>1, <2>2, <2>3 DEF AnswersInv
<1> QED BY <1>4, <1>5

(* The steps of the server and the network leave the workers alone.         *)
LEMMA ServerDelivery ==
  ASSUME DeliveryInv, IInv, ServerStep, UNCHANGED sourceVars
  PROVE  DeliveryInv'
<1>1. UNCHANGED <<work, settled, config>> /\ UNCHANGED attr /\ stream \subseteq stream'
  BY DEF ServerStep, Store, MessageLost, WindowPasses, ListeningChanges, sourceVars, configVars,
         serverVars
<1>2. WorkInv'
  BY <1>1, WorkUnchanged DEF DeliveryInv
<1>3. ASSUME NEW m, Store(m) PROVE FitInv' /\ AnswersInv'
  BY <1>1, <1>3, StoreDelivers DEF DeliveryInv, IInv
<1>4. ASSUME UNCHANGED <<call, sends, acked, stream>>, wire' \subseteq wire, window' \subseteq window
      PROVE  FitInv' /\ AnswersInv'
  <2>1. Stored' = Stored
    BY <1>4 DEF Stored
  <2>2. FitInv'
    BY <1>1, <1>4, <2>1, FitsGrows DEF FitInv, DeliveryInv
  <2>3. AnswersInv'
    BY <1>4 DEF AnswersInv, DeliveryInv
  <2> QED BY <2>2, <2>3
<1>5. ASSUME NEW m, MessageLost(m) PROVE FitInv' /\ AnswersInv'
  BY <1>4, <1>5 DEF MessageLost, serverVars
<1>6. ASSUME NEW id, WindowPasses(id) PROVE FitInv' /\ AnswersInv'
  <2>1. UNCHANGED <<call, sends, acked, stream, wire>> /\ window' \subseteq window
    BY <1>6 DEF WindowPasses, transportVars
  <2> QED BY <1>4, <2>1
<1>7. CASE ListeningChanges
  <2>1. UNCHANGED <<call, sends, acked, stream>> /\ wire' = wire /\ window' = window
    BY <1>7 DEF ListeningChanges, transportVars
  <2>2. wire' \subseteq wire /\ window' \subseteq window
    BY <2>1
  <2> QED BY <1>2, <1>4, <2>1, <2>2 DEF DeliveryInv
<1> QED BY <1>2, <1>3, <1>5, <1>6, <1>7 DEF ServerStep, DeliveryInv

(* What a call in the exporter does to the invariant.                       *)
LEMMA CallDelivery ==
  ASSUME DeliveryInv, IInv, NEW c \in Calls, CallStep(c), UNCHANGED sourceVars
  PROVE  DeliveryInv'
<1>1. UNCHANGED <<work, settled, config>> /\ UNCHANGED <<attr, stream, window>>
  BY DEF CallStep, ReadClient, Publish, PublishOk, PublishTimesOut, PublishUnheard,
         PublishRefused, sourceVars, configVars, serverVars
<1>2. WorkInv'
  BY <1>1, WorkUnchanged DEF DeliveryInv
<1>3. FitInv /\ AnswersInv /\ CallsInv /\ NumbersInv
  BY DEF DeliveryInv, IInv
<1>4. Fits(call[c], work[c], wire, acked, Stored)
  BY <1>3 DEF FitInv
<1>5. ASSUME UNCHANGED sends, wire' \subseteq wire, acked' \subseteq acked PROVE AnswersInv'
  BY <1>1, <1>3, <1>5 DEF AnswersInv
<1>6. CASE ReadClient(c)
  <2>1. call[c].stage = "client" /\ UNCHANGED <<sends, wire, acked>>
    BY <1>6 DEF ReadClient, transportVars
  <2>2. work[c] # Free /\ call[c].payload = Head(work[c].parts)
    BY <1>4, <2>1 DEF Fits
  <2>3. CASE Returns(c, "retryable")
    BY <1>1, <1>2, <1>3, <1>5, <2>1, <2>2, <2>3, FitReturns DEF DeliveryInv
  <2>4. CASE call' = [call EXCEPT ![c].stage = "publish", ![c].client = js]
    <3>1. PICK k : k = [[call[c] EXCEPT !.stage = "publish"] EXCEPT !.client = js]
      OBVIOUS
    <3>2. call' = [call EXCEPT ![c] = k] /\ k.stage = "publish" /\ k.payload = call[c].payload
      BY <1>3, <2>4, <3>1 DEF CallsInv, IsCall
    <3>3. Fits(k, work[c], wire', acked', Stored')
      BY <2>2, <3>2 DEF Fits
    <3>4. FitInv'
      BY <1>1, <1>3, <2>1, <3>2, <3>3, FitMoves
    <3> QED BY <1>2, <1>5, <2>1, <3>4 DEF DeliveryInv
  <2> QED BY <1>6, <2>3, <2>4 DEF ReadClient
<1>7. CASE Publish(c)
  <2>1. CASE call[c].client \in open
    BY <1>1, <1>2, <1>3, <1>7, <2>1, FitPublishes DEF DeliveryInv
  <2>2. CASE call[c].client \notin open
    <3>1. call[c].stage = "publish" /\ Returns(c, "retryable") /\ UNCHANGED <<sends, wire, acked>>
      BY <1>7, <2>2 DEF Publish
    <3>2. work[c] # Free
      BY <1>4, <3>1 DEF Fits
    <3>3. FitInv'
      BY <1>1, <1>3, <3>1, <3>2, FitReturns
    <3> QED BY <1>2, <1>5, <3>1, <3>3 DEF DeliveryInv
  <2> QED BY <2>1, <2>2
<1>8. CASE PublishOk(c)
  <2>1. /\ call[c].stage = "wait" /\ call[c].send \in acked
        /\ Returns(c, "ok") /\ acked' \subseteq acked /\ UNCHANGED <<sends, wire>>
    BY <1>8 DEF PublishOk
  <2>2. /\ work[c] # Free /\ call[c].payload = Head(work[c].parts)
        /\ ToSet(call[c].payload) \subseteq Stored
    BY <1>4, <2>1 DEF Fits
  <2>3. FitInv'
    BY <1>1, <1>3, <2>1, <2>2, FitReturns
  <2> QED BY <1>2, <1>5, <2>1, <2>3 DEF DeliveryInv
<1>9. CASE PublishTimesOut(c) \/ PublishUnheard(c) \/ PublishRefused(c)
  <2>1. /\ call[c].stage \in {"wait", "publish"} /\ (Returns(c, "retryable") \/ Returns(c, "permanent"))
        /\ acked' \subseteq acked /\ wire' \subseteq wire /\ UNCHANGED sends
    BY <1>9 DEF PublishTimesOut, PublishUnheard, PublishRefused, transportVars
  <2>2. work[c] # Free
    BY <1>4, <2>1 DEF Fits
  <2>3. FitInv'
    BY <1>1, <1>3, <2>1, <2>2, FitReturns
  <2> QED BY <1>2, <1>5, <2>1, <2>3 DEF DeliveryInv
<1> QED BY <1>6, <1>7, <1>8, <1>9 DEF CallStep

------------------------------------------------------------------------------
(* The steps of the workers.                                                *)

(* Messages reach a worker: their records are in the parts they are split   *)
(* into.                                                                    *)
LEMMA DeliverCovered ==
  ASSUME DeliveryInv, NEW c \in Calls, NEW S \in SUBSET Msgs, DeliverMessages(c, S)
  PROVE  LET split == Split(config, attr, Merged(S)) IN
         split.ok => /\ split.parts \in Seq(Seq(Records))
                     /\ \A m \in S : \A r \in Kept(m) : r \in InParts(split.parts)
<1>1. PICK s : s = Split(config, attr, Merged(S))
  OBVIOUS
<1>2. SUFFICES ASSUME s.ok
               PROVE  /\ s.parts \in Seq(Seq(Records))
                      /\ \A m \in S : \A r \in Kept(m) : r \in InParts(s.parts)
  BY <1>1
<1>3. config.missing \in {"error", "drop"}
  BY DEF DeliveryInv, WorkInv
<1>4. Merged(S) \in Seq(Records) /\ ToSet(Merged(S)) = UNION {ToSet(Content[m]) : m \in S}
  BY MergedRecords
<1>5. /\ s.parts \in Seq(Seq(Records))
      /\ \A r : (\E j \in DOMAIN s.parts : r \in ToSet(s.parts[j]))
                  <=> (r \in ToSet(Merged(S)) /\ ~Lacks(config, attr[r]))
  <2>1. PICK cfg, attrs, payload : cfg = config /\ attrs = attr /\ payload = Merged(S)
    OBVIOUS
  <2>2. s = Split(cfg, attrs, payload)
    BY <1>1, <2>1
  <2>3. cfg.missing \in {"error", "drop"} /\ payload \in Seq(Records)
    BY <1>3, <1>4, <2>1
  <2>4. /\ s.parts \in Seq(Seq(Records))
        /\ \A r : (\E j \in DOMAIN s.parts : r \in ToSet(s.parts[j]))
                    <=> (r \in ToSet(payload) /\ ~Lacks(cfg, attrs[r]))
    BY <1>2, <2>2, <2>3, SplitCovers
  <2> QED BY <2>1, <2>4
<1>6. ASSUME NEW m \in S, NEW r \in Kept(m) PROVE r \in InParts(s.parts)
  <2>1. r \in ToSet(Merged(S)) /\ ~Lacks(config, attr[r])
    BY <1>4 DEF Kept
  <2> QED BY <1>5, <2>1 DEF InParts
<1> QED BY <1>5, <1>6

LEMMA DeliverDelivery ==
  ASSUME DeliveryInv, NEW c \in Calls, NEW S \in SUBSET Msgs, DeliverMessages(c, S)
  PROVE  DeliveryInv'
<1>1. PICK s : s = Split(config, attr, Merged(S))
  OBVIOUS
<1>2. /\ UNCHANGED <<attr, config, call, wire, stream, acked, sends, window>>
      /\ work[c] = Free
      /\ \/ UNCHANGED work /\ \E how \in {"acked", "termed"} : Settle(S, how)
         \/ /\ s.ok /\ s.parts # <<>> /\ UNCHANGED settled
            /\ \E header : work' = [work EXCEPT ![c] =
                                      [msgs |-> S, parts |-> s.parts, header |-> header]]
  BY <1>1 DEF DeliverMessages, exporterVars, configVars, transportVars, serverVars
<1>3. Stored' = Stored
  BY <1>2 DEF Stored
<1>4. AnswersInv'
  BY <1>2 DEF DeliveryInv, AnswersInv
<1>5. CASE UNCHANGED work /\ \E how \in {"acked", "termed"} : Settle(S, how)
  <2>1. FitInv'
    BY <1>2, <1>3, <1>5 DEF DeliveryInv, FitInv
  <2>2. work' = [work EXCEPT ![c] = Free]
    <3>1. work = [d \in Calls |-> work[d]] /\ work[c] = Free /\ work' = work
      BY <1>2, <1>5 DEF DeliveryInv, WorkInv
    <3>2. PICK f : f = work
      OBVIOUS
    <3>3. f = [d \in Calls |-> f[d]] /\ f[c] = Free
      BY <3>1, <3>2
    <3>4. f = [f EXCEPT ![c] = Free]
      BY <3>3
    <3> QED BY <3>1, <3>2, <3>4
  <2>3. WorkInv'
    BY <1>2, <1>5, <2>2, WorkReplaced DEF DeliveryInv
  <2> QED BY <1>4, <2>1, <2>3 DEF DeliveryInv
<1>6. ASSUME s.ok, s.parts # <<>>, UNCHANGED settled, NEW header, NEW w,
             w = [msgs |-> S, parts |-> s.parts, header |-> header],
             work' = [work EXCEPT ![c] = w]
      PROVE  DeliveryInv'
  <2>1. s.parts \in Seq(Seq(Records)) /\ \A m \in S : \A r \in Kept(m) : r \in InParts(s.parts)
    BY <1>1, <1>6, DeliverCovered
  <2>2. IsWork(w)
    BY <1>6, <2>1 DEF IsWork
  <2>3. \A m : Kept(m)' = Kept(m)
    BY <1>2, KeptConstant
  <2>4. Covered(w)'
    BY <1>6, <2>1, <2>3 DEF Covered
  <2>5. WorkInv'
    BY <1>2, <1>6, <2>2, <2>4, WorkReplaced DEF DeliveryInv
  <2>6. work'[c] = w /\ \A d \in Calls : d # c => work'[d] = work[d]
    BY <1>6 DEF DeliveryInv, WorkInv
  <2>7. call[c].stage = "idle"
    BY <1>2 DEF DeliveryInv, FitInv, Fits
  <2>8. Fits(call[c], w, wire', acked', Stored')
    BY <2>7 DEF Fits
  <2>9. FitInv'
    BY <1>2, <2>6, <2>8, FitReplaced DEF DeliveryInv
  <2> QED BY <1>4, <2>5, <2>9 DEF DeliveryInv
<1> QED BY <1>2, <1>5, <1>6

(* A part goes to the exporter.                                             *)
LEMMA ForwardDelivery ==
  ASSUME DeliveryInv, IInv, NEW c \in Calls, ForwardPart(c)
  PROVE  DeliveryInv'
<1>1. PICK header : Consume(c, Head(work[c].parts), header)
  BY DEF ForwardPart
<1>2. /\ work[c] # Free /\ UNCHANGED <<attr, config, work, settled, wire, stream, acked, sends, window>>
      /\ \/ Returns(c, "permanent")
         \/ \E s : call' = [call EXCEPT ![c] = [Idle EXCEPT !.stage = "client",
                              !.payload = Head(work[c].parts), !.subject = s]]
  BY <1>1 DEF ForwardPart, Consume, sourceVars, configVars, transportVars, serverVars
<1>3. WorkInv'
  BY <1>2, WorkUnchanged DEF DeliveryInv
<1>4. AnswersInv'
  BY <1>2 DEF DeliveryInv, AnswersInv
<1>5. FitInv /\ CallsInv
  BY DEF DeliveryInv, IInv
<1>6. CASE Returns(c, "permanent")
  <2>1. FitInv'
    BY <1>2, <1>5, <1>6, FitReturns
  <2> QED BY <1>3, <1>4, <2>1 DEF DeliveryInv
<1>7. ASSUME NEW s, NEW k,
             k = [Idle EXCEPT !.stage = "client", !.payload = Head(work[c].parts), !.subject = s],
             call' = [call EXCEPT ![c] = k]
      PROVE  DeliveryInv'
  <2>1. k.stage = "client" /\ k.payload = Head(work[c].parts)
    BY <1>7 DEF Idle
  <2>2. Fits(k, work[c], wire', acked', Stored')
    BY <1>2, <2>1 DEF Fits
  <2>3. FitInv'
    BY <1>2, <1>5, <1>7, <2>2, FitMoves
  <2> QED BY <1>3, <1>4, <2>3 DEF DeliveryInv
<1> QED BY <1>2, <1>6, <1>7

(* A worker is done, or goes on with its next part: the call is forgotten.  *)
LEMMA IdleDelivery ==
  ASSUME DeliveryInv, IInv, NEW c \in Calls, NEW w, work' = [work EXCEPT ![c] = w],
         UNCHANGED <<attr, config, wire, stream, acked, sends, window>>,
         call' = [call EXCEPT ![c] = Idle],
         w = Free \/ (IsWork(w) /\ Covered(w)'),
         settled' = settled \/ \E S : \E how \in {"acked", "termed"} : Settle(S, how)
  PROVE  DeliveryInv'
<1>1. WorkInv'
  BY WorkReplaced DEF DeliveryInv
<1>2. AnswersInv'
  BY DEF DeliveryInv, AnswersInv
<1>3. work'[c] = w /\ call'[c] = Idle
      /\ \A d \in Calls : d # c => work'[d] = work[d] /\ call'[d] = call[d]
  BY DEF DeliveryInv, WorkInv, IInv, CallsInv
<1>4. Fits(Idle, w, wire', acked', Stored')
  BY DEF Fits, Idle
<1>5. FitInv'
  BY <1>3, <1>4, FitReplaced DEF DeliveryInv
<1> QED BY <1>1, <1>2, <1>5 DEF DeliveryInv

(* The first part and those behind it.                                      *)
LEMMA PartsBehind ==
  ASSUME NEW S, NEW parts \in Seq(Seq(S)), parts # <<>>
  PROVE  /\ Tail(parts) \in Seq(Seq(S))
         /\ Len(parts) <= 1 => InParts(parts) = ToSet(Head(parts))
         /\ Len(parts) > 1 => Tail(parts) # <<>>
         /\ InParts(parts) = ToSet(Head(parts)) \union InParts(Tail(parts))
<1>1. PICK n, t : n = Len(parts) /\ t = Tail(parts)
  OBVIOUS
<1>2. n \in Nat /\ n >= 1 /\ DOMAIN parts = 1..n /\ Head(parts) = parts[1]
  BY <1>1, EmptySeq
<1>3. t \in Seq(Seq(S)) /\ Len(t) = n - 1 /\ DOMAIN t = 1..(n - 1)
      /\ \A i \in 1..(n - 1) : t[i] = parts[i + 1]
  BY <1>1, <1>2
<1>4. ASSUME NEW r, NEW i \in 1..n, r \in ToSet(parts[i])
      PROVE  r \in ToSet(parts[1]) \/ \E j \in 1..(n - 1) : r \in ToSet(t[j])
  <2>1. CASE i = 1
    BY <1>4, <2>1
  <2>2. CASE i # 1
    <3>1. i - 1 \in 1..(n - 1) /\ (i - 1) + 1 = i
      BY <1>2, <2>2
    <3>2. t[i - 1] = parts[i]
      BY <1>3, <3>1
    <3> QED BY <1>4, <3>1, <3>2
  <2> QED BY <2>1, <2>2
<1>5. ASSUME NEW r, NEW j \in 1..(n - 1), r \in ToSet(t[j])
      PROVE  \E i \in 1..n : r \in ToSet(parts[i])
  <2>1. j + 1 \in 1..n /\ t[j] = parts[j + 1]
    BY <1>2, <1>3
  <2> QED BY <1>5, <2>1
<1>6. 1 \in 1..n
  BY <1>2
<1>7. InParts(parts) = ToSet(parts[1]) \union InParts(t)
  <2>1. \A r : r \in InParts(parts) <=> \E i \in 1..n : r \in ToSet(parts[i])
    BY <1>2 DEF InParts
  <2>2. \A r : r \in InParts(t) <=> \E j \in 1..(n - 1) : r \in ToSet(t[j])
    BY <1>3 DEF InParts
  <2>3. \A r : r \in InParts(parts) => r \in ToSet(parts[1]) \/ r \in InParts(t)
    BY <1>4, <2>1, <2>2, Zenon
  <2>4. \A r : r \in InParts(t) => r \in InParts(parts)
    BY <1>5, <2>1, <2>2, Zenon
  <2>5. \A r : r \in ToSet(parts[1]) => r \in InParts(parts)
    BY <1>6, <2>1, Zenon
  <2> QED BY <2>3, <2>4, <2>5, Zenon
<1>8. n <= 1 => InParts(t) = {}
  BY <1>2, <1>3 DEF InParts
<1>9. n > 1 => t # <<>>
  BY <1>2, <1>3
<1> QED BY <1>1, <1>2, <1>3, <1>7, <1>8, <1>9

(* What a worker that sees its call succeed has settled.                    *)
LEMMA TakenStored ==
  ASSUME DeliveryInv, NEW c \in Calls, call[c].stage = "ok"
  PROVE  /\ IsWork(work[c])
         /\ \A m \in work[c].msgs : \A r \in Kept(m) :
              r \in Stored \/ r \in InParts(Tail(work[c].parts))
         /\ Tail(work[c].parts) \in Seq(Seq(Records))
         /\ Len(work[c].parts) > 1 => Tail(work[c].parts) # <<>>
         /\ Len(work[c].parts) <= 1 => \A m \in work[c].msgs : Kept(m) \subseteq Stored
<1>1. Fits(call[c], work[c], wire, acked, Stored)
  BY DEF DeliveryInv, FitInv
<1>2. work[c] # Free /\ ToSet(Head(work[c].parts)) \subseteq Stored
  BY <1>1 DEF Fits
<1>3. IsWork(work[c]) /\ Covered(work[c])
  BY <1>2 DEF DeliveryInv, WorkInv
<1>4. PICK parts : parts = work[c].parts
  OBVIOUS
<1>5. parts \in Seq(Seq(Records)) /\ parts # <<>>
  BY <1>3, <1>4 DEF IsWork
<1>6. /\ Tail(parts) \in Seq(Seq(Records))
      /\ Len(parts) <= 1 => InParts(parts) = ToSet(Head(parts))
      /\ Len(parts) > 1 => Tail(parts) # <<>>
      /\ InParts(parts) = ToSet(Head(parts)) \union InParts(Tail(parts))
  BY <1>5, PartsBehind
<1> QED BY <1>2, <1>3, <1>4, <1>6 DEF Covered

LEMMA TakenDelivery ==
  ASSUME DeliveryInv, IInv, NEW c \in Calls, PartTaken(c)
  PROVE  DeliveryInv'
<1>1. /\ call[c].stage = "ok" /\ call' = [call EXCEPT ![c] = Idle]
      /\ UNCHANGED <<attr, config, wire, stream, acked, sends, window>>
  BY DEF PartTaken, CallEnds, configVars, transportVars, serverVars
<1>2. CASE Len(work[c].parts) > 1
  <2>1. work' = [work EXCEPT ![c].parts = Tail(@)] /\ settled' = settled
    BY <1>2 DEF PartTaken
  <2>2. PICK w : w = [work[c] EXCEPT !.parts = Tail(@)]
    OBVIOUS
  <2>3. work' = [work EXCEPT ![c] = w]
    BY <2>1, <2>2 DEF DeliveryInv, WorkInv
  <2>4. IsWork(work[c])
    BY <1>1, TakenStored
  <2>5. w.msgs = work[c].msgs /\ w.parts = Tail(work[c].parts) /\ DOMAIN w = DOMAIN work[c]
    BY <2>2, <2>4 DEF IsWork
  <2>6. IsWork(w)
    BY <1>1, <1>2, <2>4, <2>5, TakenStored DEF IsWork
  <2>7. Covered(w)'
    <3>1. Stored' = Stored /\ \A m : Kept(m)' = Kept(m)
      BY <1>1, KeptConstant DEF Stored
    <3>2. \A m \in w.msgs : \A r \in Kept(m) : r \in Stored \/ r \in InParts(w.parts)
      BY <1>1, <2>5, TakenStored
    <3> QED BY <3>1, <3>2 DEF Covered
  <2> QED BY <1>1, <2>1, <2>3, <2>6, <2>7, IdleDelivery
<1>3. CASE ~(Len(work[c].parts) > 1)
  <2>1. /\ work' = [work EXCEPT ![c] = Free]
        /\ Settle(work[c].msgs, "acked") \/ UNCHANGED settled
    BY <1>3 DEF PartTaken
  <2>2. settled' = settled \/ \E S : \E how \in {"acked", "termed"} : Settle(S, how)
    BY <2>1
  <2> QED BY <1>1, <2>1, <2>2, IdleDelivery
<1> QED BY <1>2, <1>3

(* A worker gives up.                                                       *)
LEMMA GivesUpDelivery ==
  ASSUME DeliveryInv, IInv, NEW c \in Calls, HeaderMissing(c) \/ PartFails(c) \/ PartRefused(c)
  PROVE  DeliveryInv'
<1>1. UNCHANGED <<attr, config, wire, stream, acked, sends, window>>
  BY DEF HeaderMissing, PartFails, PartRefused, CallEnds, exporterVars, configVars, transportVars,
         serverVars
<1>2. work' = [work EXCEPT ![c] = Free]
  BY DEF HeaderMissing, PartFails, PartRefused
<1>3. call' = [call EXCEPT ![c] = Idle]
  <2>1. CASE HeaderMissing(c)
    <3>1. call' = call /\ call[c] = Idle
      BY <2>1 DEF HeaderMissing, exporterVars
    <3>2. PICK f : f = call
      OBVIOUS
    <3>3. f = [d \in Calls |-> f[d]] /\ f[c] = Idle
      BY <3>1, <3>2 DEF IInv, CallsInv
    <3>4. f = [f EXCEPT ![c] = Idle]
      BY <3>3
    <3> QED BY <3>1, <3>2, <3>4
  <2> QED BY <2>1 DEF PartFails, PartRefused, CallEnds
<1>4. settled' = settled \/ \E S : \E how \in {"acked", "termed"} : Settle(S, how)
  BY DEF HeaderMissing, PartFails, PartRefused
<1> QED BY <1>1, <1>2, <1>3, <1>4, IdleDelivery

LEMMA StepDelivery == DeliveryInv /\ IInv /\ [Next]_vars => DeliveryInv'
<1> SUFFICES ASSUME DeliveryInv, IInv, [Next]_vars PROVE DeliveryInv'
  OBVIOUS
<1>1. ASSUME NEW c \in Calls, WorkerStep(c) PROVE DeliveryInv'
  BY <1>1, DeliverDelivery, ForwardDelivery, TakenDelivery, GivesUpDelivery DEF WorkerStep
<1>2. ASSUME NEW c \in Calls, CallStep(c), UNCHANGED sourceVars PROVE DeliveryInv'
  BY <1>2, CallDelivery
<1>3. CASE ServerStep /\ UNCHANGED sourceVars
  BY <1>3, ServerDelivery
<1>4. ASSUME UNCHANGED <<attr, config, work, settled, call, wire, stream, acked, sends, window>>
      PROVE  DeliveryInv'
  <2>1. WorkInv'
    BY <1>4, WorkUnchanged DEF DeliveryInv
  <2>2. Stored' = Stored
    BY <1>4 DEF Stored
  <2>3. FitInv' /\ AnswersInv'
    BY <1>4, <2>2 DEF DeliveryInv, FitInv, AnswersInv
  <2> QED BY <2>1, <2>3 DEF DeliveryInv
<1>5. CASE Lifecycle /\ UNCHANGED sourceVars
  BY <1>4, <1>5 DEF Lifecycle, StartConnects, StartSucceeds, StartFails, Shutdown, sourceVars,
                    configVars, transportVars, serverVars
<1>6. CASE UNCHANGED vars
  BY <1>4, <1>6 DEF vars, exporterVars, sourceVars, configVars, transportVars, serverVars
<1> QED BY <1>1, <1>2, <1>3, <1>5, <1>6 DEF Next

------------------------------------------------------------------------------
(* The pipeline implements the contract of EndToEnd.                        *)

LEMMA InitImplementsEnd == Init => E!Init
<1> SUFFICES ASSUME Init PROVE E!Init
  OBVIOUS
<1>1. stream = {} /\ \A m \in Msgs : settled[m] = "no"
  BY DEF Init, ExporterInit
<1>2. Stored = {}
  BY <1>1 DEF Stored
<1>3. With("acked") = {} /\ With("termed") = {}
  BY <1>1 DEF With
<1> QED BY <1>2, <1>3 DEF E!Init

(* A step that changes neither the stream nor what is settled.              *)
LEMMA EndStutters ==
  ASSUME UNCHANGED <<attr, config, stream, settled>>
  PROVE  UNCHANGED E!evars
<1>1. Stored' = Stored /\ \A how : With(how)' = With(how)
  BY DEF Stored, With
<1>2. \A m : Kept(m)' = Kept(m)
  BY KeptConstant
<1> QED BY <1>1, <1>2 DEF E!evars

(* Messages are settled: acknowledged when what they owe is stored.         *)
LEMMA SettleImplements ==
  ASSUME DeliveryInv, NEW S \in SUBSET Msgs, NEW how \in {"acked", "termed"}, Settle(S, how),
         UNCHANGED <<attr, config, stream>>,
         how = "acked" => \A m \in S : Kept(m) \subseteq Stored
  PROVE  E!Next
<1>1. PICK T : T = {m \in S : settled[m] = "no"}
  OBVIOUS
<1>2. T \in SUBSET Msgs
  BY <1>1
<1>3. \A m \in Msgs : settled'[m] = IF m \in T THEN how ELSE settled[m]
  BY <1>1 DEF Settle
<1>4. settled \in [Msgs -> {"no", "acked", "termed"}]
  BY DEF DeliveryInv, WorkInv
<1>5. \A m : Kept(m)' = Kept(m)
  BY KeptConstant
<1>6. Stored' = Stored
  BY DEF Stored
<1>7. T \subseteq E!Unsettled
  BY <1>1, <1>2 DEF E!Unsettled, With
<1>8. CASE how = "acked"
  <2>1. With("acked")' = With("acked") \union T /\ With("termed")' = With("termed")
    BY <1>1, <1>2, <1>3, <1>8 DEF With
  <2>2. \A m \in T : Kept(m) \subseteq Stored \intersect UNION {Kept(n) : n \in Msgs}
    BY <1>1, <1>2, <1>8
  <2>3. E!Acknowledge(T)
    BY <1>2, <1>5, <1>6, <1>7, <2>1, <2>2 DEF E!Acknowledge
  <2> QED BY <1>2, <2>3 DEF E!Next
<1>9. CASE how = "termed"
  <2>1. With("termed")' = With("termed") \union T /\ With("acked")' = With("acked")
    BY <1>1, <1>2, <1>3, <1>9 DEF With
  <2>2. E!Discard(T)
    BY <1>2, <1>5, <1>6, <1>7, <2>1 DEF E!Discard
  <2> QED BY <1>2, <2>2 DEF E!Next
<1> QED BY <1>8, <1>9

(* A message is stored: its records that somebody is owed are delivered.    *)
LEMMA StoreImplements ==
  ASSUME NEW m, Store(m), UNCHANGED sourceVars
  PROVE  E!Next \/ UNCHANGED E!evars
<1>1. UNCHANGED <<attr, config, settled>>
  BY DEF Store, configVars, sourceVars
<1>2. CASE stream' = stream
  BY <1>1, <1>2, EndStutters
<1>3. CASE stream' = stream \union {m}
  <2>1. PICK S : S = ToSet(m.payload) \intersect UNION {Kept(n) : n \in Msgs}
    OBVIOUS
  <2>2. Stored' = Stored \union ToSet(m.payload)
    BY <1>3 DEF Stored
  <2>3. \A n : Kept(n)' = Kept(n)
    BY <1>1, KeptConstant
  <2>4. With("acked")' = With("acked") /\ With("termed")' = With("termed")
    BY <1>1 DEF With
  <2>5. E!Deliver(S)
    BY <2>1, <2>2, <2>3, <2>4 DEF E!Deliver
  <2>6. S \subseteq UNION {Kept(n) : n \in Msgs}
    BY <2>1
  <2> QED BY <2>5, <2>6 DEF E!Next
<1> QED BY <1>2, <1>3 DEF Store

(* What a worker does: it settles what it has delivered, or refused, or     *)
(* nothing.                                                                 *)
LEMMA WorkerImplements ==
  ASSUME DeliveryInv, NEW c \in Calls, WorkerStep(c)
  PROVE  E!Next \/ UNCHANGED E!evars
<1>1. UNCHANGED <<attr, config, stream>>
  BY DEF WorkerStep, DeliverMessages, ForwardPart, HeaderMissing, PartTaken, PartFails,
         PartRefused, CallEnds, Consume, exporterVars, sourceVars, configVars, serverVars
<1>2. ASSUME UNCHANGED settled PROVE UNCHANGED E!evars
  BY <1>1, <1>2, EndStutters
<1>3. ASSUME work[c] # Free PROVE work[c].msgs \in SUBSET Msgs
  BY <1>3 DEF DeliveryInv, WorkInv, IsWork
<1>4. ASSUME NEW S \in SUBSET Msgs, DeliverMessages(c, S)
      PROVE  E!Next \/ UNCHANGED E!evars
  <2>1. PICK s : s = Split(config, attr, Merged(S))
    OBVIOUS
  <2>2. \/ ~s.ok /\ Settle(S, "termed")
        \/ s.ok /\ s.parts = <<>> /\ Settle(S, "acked")
        \/ UNCHANGED settled
    BY <1>4, <2>1 DEF DeliverMessages
  <2>3. CASE s.ok /\ s.parts = <<>> /\ Settle(S, "acked")
    <3>1. \A m \in S : \A r \in Kept(m) : r \in InParts(<<>>)
      BY <1>4, <2>1, <2>3, DeliverCovered
    <3>2. InParts(<<>>) = {}
      BY DEF InParts
    <3> QED BY <1>1, <2>3, <3>1, <3>2, SettleImplements
  <2> QED BY <1>1, <1>2, <2>2, <2>3, SettleImplements
<1>5. CASE PartTaken(c)
  <2>1. call[c].stage = "ok"
    BY <1>5 DEF PartTaken, CallEnds
  <2>2. CASE Len(work[c].parts) > 1
    BY <1>2, <1>5, <2>2 DEF PartTaken
  <2>3. CASE ~(Len(work[c].parts) > 1)
    <3>1. Settle(work[c].msgs, "acked") \/ UNCHANGED settled
      BY <1>5, <2>3 DEF PartTaken
    <3>2. IsWork(work[c])
      BY <2>1, TakenStored
    <3>3. Len(work[c].parts) <= 1
      <4>1. PICK parts : parts = work[c].parts /\ parts \in Seq(Seq(Records))
        BY <3>2 DEF IsWork
      <4>2. Len(parts) \in Nat
        BY <4>1
      <4> QED BY <2>3, <4>1, <4>2
    <3>4. \A m \in work[c].msgs : Kept(m) \subseteq Stored
      BY <2>1, <3>3, TakenStored
    <3>5. work[c].msgs \in SUBSET Msgs
      BY <3>2 DEF IsWork
    <3> QED BY <1>1, <1>2, <3>1, <3>4, <3>5, SettleImplements
  <2> QED BY <2>2, <2>3
<1>6. CASE HeaderMissing(c)
  BY <1>1, <1>3, <1>6, SettleImplements DEF HeaderMissing
<1>7. CASE PartRefused(c)
  <2>1. call[c].stage = "permanent" /\ Settle(work[c].msgs, "termed")
    BY <1>7 DEF PartRefused, CallEnds
  <2>2. work[c] # Free
    BY <2>1 DEF DeliveryInv, FitInv, Fits
  <2> QED BY <1>1, <1>3, <2>1, <2>2, SettleImplements
<1>8. CASE ForwardPart(c) \/ PartFails(c)
  BY <1>2, <1>8 DEF ForwardPart, PartFails, sourceVars
<1> QED BY <1>4, <1>5, <1>6, <1>7, <1>8 DEF WorkerStep

LEMMA NextImplementsEnd == DeliveryInv /\ [Next]_vars => E!Next \/ UNCHANGED E!evars
<1> SUFFICES ASSUME DeliveryInv, [Next]_vars PROVE E!Next \/ UNCHANGED E!evars
  OBVIOUS
<1>1. ASSUME NEW c \in Calls, CallStep(c), UNCHANGED sourceVars PROVE UNCHANGED E!evars
  <2>1. UNCHANGED <<attr, config, stream, settled>>
    BY <1>1 DEF CallStep, ReadClient, Publish, PublishOk, PublishTimesOut, PublishUnheard,
                PublishRefused, sourceVars, configVars, serverVars
  <2> QED BY <2>1, EndStutters
<1>2. CASE Lifecycle /\ UNCHANGED sourceVars
  <2>1. UNCHANGED <<attr, config, stream, settled>>
    BY <1>2 DEF Lifecycle, StartConnects, StartSucceeds, StartFails, Shutdown,
                sourceVars, configVars, serverVars
  <2> QED BY <2>1, EndStutters
<1>3. CASE ServerStep /\ UNCHANGED sourceVars
  <2>1. CASE \E m \in wire : Store(m)
    BY <1>3, <2>1, StoreImplements
  <2>2. CASE ~ \E m \in wire : Store(m)
    <3>1. UNCHANGED <<attr, config, stream, settled>>
      BY <1>3, <2>2 DEF ServerStep, MessageLost, WindowPasses, ListeningChanges, sourceVars,
                        configVars, serverVars
    <3> QED BY <3>1, EndStutters
  <2> QED BY <2>1, <2>2
<1>4. CASE UNCHANGED vars
  BY <1>4, EndStutters DEF vars, exporterVars, sourceVars, configVars, serverVars
<1> QED BY <1>1, <1>2, <1>3, <1>4, WorkerImplements DEF Next

(* The pipeline implements its contract: whatever fails between the parts   *)
(* of a message, whoever else has it, and however often its parts are sent, *)
(* the source forgets a message as done only when every record it is to     *)
(* keep is in the target stream.                                            *)
THEOREM PipelineImplementsEndToEnd == Spec => EndToEndDelivery
<1>1. IInv /\ DeliveryInv /\ [Next]_vars => (IInv /\ DeliveryInv)'
  BY StepIInv, StepDelivery
<1>2. DeliveryInv /\ [Next]_vars => [E!Next]_E!evars
  BY NextImplementsEnd
<1> QED
  BY <1>1, <1>2, InitIInv, InitDelivery, InitImplementsEnd, PTL
  DEF Spec, E!Spec, EndToEndDelivery

------------------------------------------------------------------------------
(* Which subject a part is published on.                                    *)

(* The headers clientmetadata gives a payload, and the subjects it may then *)
(* be published on.                                                         *)
HeadersOf(attrs, payload) ==
  {<<v>> : v \in ResolveClientMetadataValue(ToSet(AttrValues(attrs, payload, Telemetry)))}

SubjectsOf(attrs, payload) ==
  UNION {ResolveSubject(Subject, SubjectPattern, attrs, payload, header) :
           header \in HeadersOf(attrs, payload)}

(* The parts a message is split into.                                       *)
PartsOf(m) ==
  LET split == Split(config, attr, Merged({m})) IN
  IF split.ok THEN ToSet(split.parts) ELSE {}

(* No record of a part lacks a value, and without merging it is a part of   *)
(* one message.                                                             *)
Legal(payload) ==
  /\ \A r \in ToSet(payload) : r \in Records /\ ~Lacks(config, attr[r])
  /\ ~merges => \E m \in Msgs : payload \in PartsOf(m)

Addressed(k) ==
  /\ Legal(k.payload)
  /\ headerFrom = "attribute" => k.subject \in SubjectsOf(attr, k.payload)

Sending == {"client", "publish", "wait"}

(* This is so from the worker to the stream.                                *)
AddressInv ==
  /\ attr \in [Records -> AttrMaps(Values)]
  /\ \A c \in Calls : work[c] # Free => \A p \in ToSet(work[c].parts) : Legal(p)
  /\ \A c \in Calls : call[c].stage \in Sending => Addressed(call[c])
  /\ \A m \in wire \union stream : Addressed(m)

LEMMA InitAddress == Init => AddressInv
<1> SUFFICES ASSUME Init PROVE AddressInv
  OBVIOUS
<1>1. /\ attr \in [Records -> AttrMaps(Values)] /\ work = [c \in Calls |-> Free]
      /\ call = [c \in Calls |-> Idle] /\ wire = {} /\ stream = {}
  BY DEF Init, ExporterInit
<1>2. \A c \in Calls : call[c].stage = "idle"
  BY <1>1 DEF Idle
<1> QED BY <1>1, <1>2 DEF AddressInv, Sending

(* The configuration and the attributes never change.                       *)
LEMMA AddressConstant ==
  ASSUME UNCHANGED <<attr, config, headerFrom, merges>>
  PROVE  /\ \A p : Legal(p)' <=> Legal(p)
         /\ \A k : Addressed(k)' <=> Addressed(k)
<1>1. \A m : PartsOf(m)' = PartsOf(m)
  BY DEF PartsOf, Merged
<1>2. \A p : Legal(p)' <=> Legal(p)
  BY <1>1 DEF Legal
<1>3. \A p : SubjectsOf(attr, p)' = SubjectsOf(attr, p)
  OBVIOUS
<1> QED BY <1>2, <1>3 DEF Addressed

(* A step that sends no new message and gives no worker new parts.          *)
LEMMA AddressKept ==
  ASSUME AddressInv, UNCHANGED <<attr, config, headerFrom, merges, work>>,
         wire' \union stream' \subseteq wire \union stream,
         \A c \in Calls : \A k : k = call'[c] /\ k.stage \in Sending =>
           Addressed(k) \/ k = call[c]
  PROVE  AddressInv'
<1>1. \A c \in Calls : \A k : k = call'[c] /\ k.stage \in Sending => Addressed(k)'
  BY AddressConstant DEF AddressInv
<1>2. \A m \in wire' \union stream' : Addressed(m)'
  BY AddressConstant DEF AddressInv
<1>3. \A c \in Calls : \A w : w = work'[c] /\ w # Free => \A p \in ToSet(w.parts) : Legal(p)'
  BY AddressConstant DEF AddressInv
<1> QED BY <1>1, <1>2, <1>3 DEF AddressInv

(* A worker is done, gets the parts of its messages, or goes on.            *)
LEMMA AddressWork ==
  ASSUME AddressInv, DeliveryInv, NEW c \in Calls, NEW w, work' = [work EXCEPT ![c] = w],
         UNCHANGED <<attr, config, headerFrom, merges, wire, stream>>,
         w # Free => \A p \in ToSet(w.parts) : Legal(p),
         \A d \in Calls : call'[d] = call[d] \/ call'[d] = Idle
  PROVE  AddressInv'
<1>1. \A d \in Calls : \A k : k = call'[d] /\ k.stage \in Sending => Addressed(k)'
  BY AddressConstant DEF AddressInv, Idle, Sending
<1>2. \A m \in wire' \union stream' : Addressed(m)'
  BY AddressConstant DEF AddressInv
<1>3. work'[c] = w /\ \A d \in Calls : d # c => work'[d] = work[d]
  BY DEF DeliveryInv, WorkInv
<1>4. \A d \in Calls : \A v : v = work'[d] /\ v # Free => \A p \in ToSet(v.parts) : Legal(p)'
  BY <1>3, AddressConstant DEF AddressInv
<1> QED BY <1>1, <1>2, <1>4 DEF AddressInv

(* The parts of a delivery.                                                 *)
LEMMA DeliverAddress ==
  ASSUME AddressInv, DeliveryInv, NEW c \in Calls, NEW S \in SUBSET Msgs, DeliverMessages(c, S)
  PROVE  AddressInv'
<1>1. PICK s : s = Split(config, attr, Merged(S))
  OBVIOUS
<1>2. /\ UNCHANGED <<attr, config, headerFrom, merges, call, wire, stream>>
      /\ merges \/ Cardinality(S) = 1
      /\ \/ UNCHANGED work
         \/ /\ s.ok
            /\ \E header : work' = [work EXCEPT ![c] =
                                      [msgs |-> S, parts |-> s.parts, header |-> header]]
  BY <1>1 DEF DeliverMessages, exporterVars, configVars, transportVars, serverVars
<1>3. CASE UNCHANGED work
  BY <1>2, <1>3, AddressKept
<1>4. ASSUME s.ok, NEW header, NEW w, w = [msgs |-> S, parts |-> s.parts, header |-> header],
             work' = [work EXCEPT ![c] = w]
      PROVE  AddressInv'
  <2>1. ASSUME NEW p \in ToSet(s.parts), NEW r \in ToSet(p)
        PROVE  r \in Records /\ ~Lacks(config, attr[r])
    <3>1. PICK cfg, attrs, payload : cfg = config /\ attrs = attr /\ payload = Merged(S)
      OBVIOUS
    <3>2. s = Split(cfg, attrs, payload) /\ payload \in Seq(Records)
      BY <1>1, <3>1, MergedRecords
    <3>3. cfg.missing \in {"error", "drop"}
      BY <3>1 DEF DeliveryInv, WorkInv
    <3>4. \E j \in DOMAIN s.parts : r \in ToSet(s.parts[j])
      BY <2>1 DEF ToSet
    <3>5. r \in ToSet(payload) /\ ~Lacks(cfg, attrs[r])
      BY <1>4, <3>2, <3>3, <3>4, SplitCovers
    <3>6. r \in Records
      BY <3>2, <3>5 DEF ToSet
    <3> QED BY <3>1, <3>5, <3>6
  <2>2. ASSUME ~merges, NEW p \in ToSet(s.parts) PROVE \E m \in Msgs : p \in PartsOf(m)
    <3>1. IsFiniteSet(S) /\ Cardinality(S) = 1
      BY <1>2, <2>2, FS_Subset, PipelineAssumption
    <3>2. PICK m : S = {m}
      BY <3>1, FS_Singleton
    <3>3. m \in Msgs /\ p \in PartsOf(m)
      BY <1>1, <1>4, <2>2, <3>2 DEF PartsOf
    <3> QED BY <3>3
  <2>3. \A p \in ToSet(s.parts) : Legal(p)
    BY <2>1, <2>2 DEF Legal
  <2>4. w.parts = s.parts
    BY <1>4
  <2> QED BY <1>2, <1>4, <2>3, <2>4, AddressWork
<1> QED BY <1>2, <1>3, <1>4

(* clientmetadata gives a part its header, and the exporter its subject.    *)
LEMMA ForwardAddress ==
  ASSUME AddressInv, DeliveryInv, IInv, NEW c \in Calls, ForwardPart(c)
  PROVE  AddressInv'
<1>1. PICK part, header : /\ part = Head(work[c].parts) /\ header \in PartHeader(c)
                          /\ Consume(c, part, header)
  BY DEF ForwardPart
<1>2. PICK subjects : subjects = ResolveSubject(Subject, SubjectPattern, attr, part, header)
  OBVIOUS
<1>3. /\ work[c] # Free /\ UNCHANGED <<attr, config, headerFrom, merges, work, wire, stream>>
      /\ \/ Returns(c, "permanent")
         \/ \E s \in subjects : call' = [call EXCEPT ![c] =
              [Idle EXCEPT !.stage = "client", !.payload = part, !.subject = s]]
  BY <1>1, <1>2 DEF ForwardPart, Consume, sourceVars, configVars, transportVars, serverVars
<1>4. CallsInv
  BY DEF IInv
<1>5. CASE Returns(c, "permanent")
  <2>1. \A d \in Calls : call'[d] = call[d] \/ call'[d].stage = "permanent"
    BY <1>4, <1>5 DEF Returns, CallsInv, IsCall
  <2> QED BY <1>3, <2>1, AddressKept DEF Sending
<1>6. ASSUME NEW s \in subjects, NEW k,
             k = [Idle EXCEPT !.stage = "client", !.payload = part, !.subject = s],
             call' = [call EXCEPT ![c] = k]
      PROVE  AddressInv'
  <2>1. k.payload = part /\ k.subject = s
    BY <1>6 DEF Idle
  <2>2. part \in ToSet(work[c].parts)
    <3>1. PICK parts : parts = work[c].parts
      OBVIOUS
    <3>2. parts \in Seq(Seq(Records)) /\ parts # <<>>
      BY <1>3, <3>1 DEF DeliveryInv, WorkInv, IsWork
    <3>3. 1 \in DOMAIN parts /\ Head(parts) = parts[1]
      BY <3>2, EmptySeq
    <3> QED BY <1>1, <3>1, <3>3 DEF ToSet
  <2>3. Legal(part)
    BY <1>3, <2>2 DEF AddressInv
  <2>4. headerFrom = "attribute" => header \in HeadersOf(attr, part)
    BY <1>1 DEF PartHeader, HeadersOf
  <2>5. headerFrom = "attribute" => s \in SubjectsOf(attr, part)
    BY <1>2, <1>6, <2>4 DEF SubjectsOf
  <2>6. Addressed(k)
    BY <2>1, <2>3, <2>5 DEF Addressed
  <2>7. \A d \in Calls : call'[d] = call[d] \/ call'[d] = k
    BY <1>4, <1>6 DEF CallsInv
  <2> QED BY <1>3, <2>6, <2>7, AddressKept
<1> QED BY <1>3, <1>5, <1>6

(* A call sends its payload on its subject.                                 *)
LEMMA CallAddress ==
  ASSUME AddressInv, IInv, NEW c \in Calls, CallStep(c), UNCHANGED sourceVars
  PROVE  AddressInv'
<1>1. UNCHANGED <<attr, config, headerFrom, merges, work, stream>>
  BY DEF CallStep, ReadClient, Publish, PublishOk, PublishTimesOut, PublishUnheard,
         PublishRefused, sourceVars, configVars, serverVars
<1>2. CallsInv
  BY DEF IInv
<1>3. ASSUME NEW result \in {"ok", "retryable", "permanent"}, Returns(c, result), wire' \subseteq wire
      PROVE  AddressInv'
  <2>1. \A d \in Calls : call'[d] = call[d] \/ call'[d].stage = result
    BY <1>2, <1>3 DEF Returns, CallsInv, IsCall
  <2>2. result \notin Sending
    BY DEF Sending
  <2> QED BY <1>1, <1>3, <2>1, <2>2, AddressKept
<1>4. ASSUME NEW stage, call[c].stage \in Sending, NEW k,
             k.payload = call[c].payload /\ k.subject = call[c].subject,
             \A d \in Calls : call'[d] = call[d] \/ call'[d] = k,
             wire' \union stream' \subseteq wire \union stream
      PROVE  AddressInv'
  <2>1. Addressed(k)
    BY <1>4 DEF AddressInv, Addressed
  <2> QED BY <1>1, <1>4, <2>1, AddressKept
<1>5. CASE ReadClient(c)
  <2>1. call[c].stage \in Sending /\ wire' = wire
    BY <1>5 DEF ReadClient, transportVars, Sending
  <2>2. CASE Returns(c, "retryable")
    BY <1>3, <2>1, <2>2
  <2>3. CASE call' = [call EXCEPT ![c].stage = "publish", ![c].client = js]
    <3>1. PICK k : k = [[call[c] EXCEPT !.stage = "publish"] EXCEPT !.client = js]
      OBVIOUS
    <3>2. call' = [call EXCEPT ![c] = k] /\ k.payload = call[c].payload /\ k.subject = call[c].subject
      BY <1>2, <2>3, <3>1 DEF CallsInv, IsCall
    <3>3. \A d \in Calls : call'[d] = call[d] \/ call'[d] = k
      BY <1>2, <3>2 DEF CallsInv
    <3> QED BY <1>1, <1>4, <2>1, <3>2, <3>3
  <2> QED BY <1>5, <2>2, <2>3 DEF ReadClient
<1>6. CASE Publish(c)
  <2>1. CASE Returns(c, "retryable") /\ wire' = wire
    BY <1>3, <2>1
  <2>2. ASSUME NEW n, NEW new, NEW k, n = sends', call[c].stage = "publish",
               new = [send |-> n, subject |-> call[c].subject, payload |-> call[c].payload,
                      id |-> MsgId(call[c].subject, call[c].payload)],
               wire' = wire \union {new},
               k = [[call[c] EXCEPT !.stage = "wait"] EXCEPT !.send = n],
               call' = [call EXCEPT ![c] = k]
        PROVE  AddressInv'
    <3>1. /\ new.payload = call[c].payload /\ new.subject = call[c].subject
          /\ k.payload = call[c].payload /\ k.subject = call[c].subject
      BY <1>2, <2>2 DEF CallsInv, IsCall
    <3>2. Addressed(new) /\ Addressed(k)
      BY <2>2, <3>1 DEF AddressInv, Addressed, Sending
    <3>3. \A d \in Calls : call'[d] = call[d] \/ call'[d] = k
      BY <1>2, <2>2 DEF CallsInv
    <3>4. \A m \in wire' \union stream' : Addressed(m)'
      BY <1>1, <2>2, <3>2, AddressConstant DEF AddressInv
    <3>5. \A d \in Calls : \A l : l = call'[d] /\ l.stage \in Sending => Addressed(l)'
      BY <1>1, <3>2, <3>3, AddressConstant DEF AddressInv
    <3>6. \A d \in Calls : \A w : w = work'[d] /\ w # Free => \A p \in ToSet(w.parts) : Legal(p)'
      BY <1>1, AddressConstant DEF AddressInv
    <3> QED BY <1>1, <3>4, <3>5, <3>6 DEF AddressInv
  <2>3. CASE call[c].client \in open
    <3>1. PICK n, new, k :
            /\ n = sends' /\ new = [send |-> n, subject |-> call[c].subject,
                      payload |-> call[c].payload,
                      id |-> MsgId(call[c].subject, call[c].payload)]
            /\ k = [[call[c] EXCEPT !.stage = "wait"] EXCEPT !.send = n]
      OBVIOUS
    <3>2. wire' = wire \union {new} /\ call[c].stage = "publish"
      BY <1>6, <2>3, <3>1 DEF Publish
    <3>3. call' = [call EXCEPT ![c] = k]
      BY <1>2, <1>6, <2>3, <3>1 DEF Publish, CallsInv
    <3> QED BY <2>2, <3>1, <3>2, <3>3
  <2> QED BY <1>6, <2>1, <2>3 DEF Publish
<1>7. CASE PublishOk(c) \/ PublishTimesOut(c) \/ PublishUnheard(c) \/ PublishRefused(c)
  <2>1. /\ wire' \subseteq wire
        /\ Returns(c, "ok") \/ Returns(c, "retryable") \/ Returns(c, "permanent")
    BY <1>7 DEF PublishOk, PublishTimesOut, PublishUnheard, PublishRefused, transportVars
  <2> QED BY <1>3, <2>1
<1> QED BY <1>5, <1>6, <1>7 DEF CallStep

LEMMA StepAddress == AddressInv /\ DeliveryInv /\ IInv /\ [Next]_vars => AddressInv'
<1> SUFFICES ASSUME AddressInv, DeliveryInv, IInv, [Next]_vars PROVE AddressInv'
  OBVIOUS
<1>1. ASSUME NEW c \in Calls, HeaderMissing(c) \/ PartTaken(c) \/ PartFails(c) \/ PartRefused(c)
      PROVE  AddressInv'
  <2>1. UNCHANGED <<attr, config, headerFrom, merges, wire, stream>>
    BY <1>1 DEF HeaderMissing, PartTaken, PartFails, PartRefused, CallEnds, exporterVars,
                configVars, transportVars, serverVars
  <2>2. \A d \in Calls : call'[d] = call[d] \/ call'[d] = Idle
    BY <1>1 DEF HeaderMissing, PartTaken, PartFails, PartRefused, CallEnds, exporterVars, IInv,
                CallsInv
  <2>3. CASE work' = [work EXCEPT ![c] = Free]
    BY <2>1, <2>2, <2>3, AddressWork
  <2>4. CASE PartTaken(c) /\ Len(work[c].parts) > 1
    <3>1. PICK w : w = [work[c] EXCEPT !.parts = Tail(@)]
      OBVIOUS
    <3>2. work' = [work EXCEPT ![c] = w] /\ call[c].stage = "ok"
      BY <2>4, <3>1 DEF PartTaken, CallEnds, DeliveryInv, WorkInv
    <3>3. IsWork(work[c]) /\ work[c] # Free
      BY <3>2, TakenStored DEF DeliveryInv, FitInv, Fits
    <3>4. w.parts = Tail(work[c].parts)
      BY <3>1, <3>3 DEF IsWork
    <3>5. PICK parts : parts = work[c].parts /\ parts \in Seq(Seq(Records)) /\ parts # <<>>
      BY <3>3 DEF IsWork
    <3>6. ToSet(Tail(parts)) \subseteq ToSet(parts)
      BY <3>5, EmptySeq DEF ToSet
    <3>7. \A p \in ToSet(w.parts) : Legal(p)
      BY <3>3, <3>4, <3>5, <3>6 DEF AddressInv
    <3> QED BY <2>1, <2>2, <3>2, <3>7, AddressWork
  <2> QED BY <1>1, <2>3, <2>4 DEF HeaderMissing, PartTaken, PartFails, PartRefused
<1>2. ASSUME NEW c \in Calls, WorkerStep(c) PROVE AddressInv'
  BY <1>1, <1>2, DeliverAddress, ForwardAddress DEF WorkerStep
<1>3. ASSUME UNCHANGED <<attr, config, headerFrom, merges, work, call>>,
             wire' \union stream' \subseteq wire \union stream
      PROVE  AddressInv'
  BY <1>3, AddressKept
<1>4. CASE ServerStep /\ UNCHANGED sourceVars
  <2>1. UNCHANGED <<attr, config, headerFrom, merges, work, call>>
    BY <1>4 DEF ServerStep, Store, MessageLost, WindowPasses, ListeningChanges, sourceVars,
                configVars
  <2>2. wire' \union stream' \subseteq wire \union stream
    BY <1>4 DEF ServerStep, Store, MessageLost, WindowPasses, ListeningChanges, transportVars,
                serverVars
  <2> QED BY <1>3, <2>1, <2>2
<1>5. CASE Lifecycle /\ UNCHANGED sourceVars
  BY <1>3, <1>5 DEF Lifecycle, StartConnects, StartSucceeds, StartFails, Shutdown, sourceVars,
                    configVars, transportVars, serverVars
<1>6. CASE UNCHANGED vars
  BY <1>3, <1>6 DEF vars, exporterVars, sourceVars, configVars, transportVars, serverVars
<1> QED BY <1>2, <1>4, <1>5, <1>6, CallAddress DEF Next

(* clientmetadata takes the one value that every record has.                *)
LEMMA HeaderIsEverys ==
  ASSUME NEW attrs, NEW payload, NEW header \in HeadersOf(attrs, payload),
         NEW r \in ToSet(payload), Telemetry \in DOMAIN attrs[r]
  PROVE  header = <<attrs[r][Telemetry]>>
<1>1. PICK values : values = AttrValues(attrs, payload, Telemetry)
  OBVIOUS
<1>2. PICK v \in ResolveClientMetadataValue(ToSet(values)) : header = <<v>>
  BY <1>1 DEF HeadersOf
<1>3. PICK i \in DOMAIN payload : payload[i] = r
  BY DEF ToSet
<1>4. i \in DOMAIN values /\ values[i] = attrs[r][Telemetry]
  BY <1>1, <1>3 DEF AttrValues
<1>5. attrs[r][Telemetry] \in ToSet(values)
  BY <1>4 DEF ToSet
<1> QED BY <1>2, <1>5 DEF ResolveClientMetadataValue

LEMMA OwnSubject ==
  ASSUME NEW key, SubjectPattern = <<Placeholder(Header, key)>>, AddressInv
  PROVE  RecordsOnOwnSubject
<1> SUFFICES ASSUME headerFrom = "attribute", config.by = <<Telemetry>>,
                    NEW m \in wire \union stream, NEW r \in ToSet(m.payload)
             PROVE  Telemetry \in DOMAIN attr[r] /\ m.subject = attr[r][Telemetry]
  BY DEF RecordsOnOwnSubject
<1>1. r \in Records /\ ~Lacks(config, attr[r]) /\ m.subject \in SubjectsOf(attr, m.payload)
  BY DEF AddressInv, Addressed, Legal
<1>2. Telemetry \in DOMAIN attr[r]
  <2>1. PICK by : by = config.by
    OBVIOUS
  <2>2. 1 \in DOMAIN by /\ by[1] = Telemetry
    BY <2>1
  <2> QED BY <1>1, <2>1, <2>2 DEF Lacks
<1>3. attr[r][Telemetry] \in Seq(STRING)
  <2>1. attr[r] \in AttrMaps(Values)
    BY <1>1 DEF AddressInv
  <2>2. PICK S : attr[r] \in [S -> Values]
    BY <2>1 DEF AttrMaps
  <2> QED BY <1>2, <2>2, PipelineAssumption
<1>4. PICK header \in HeadersOf(attr, m.payload) :
        m.subject \in ResolveSubject(Subject, SubjectPattern, attr, m.payload, header)
  BY <1>1 DEF SubjectsOf
<1>5. PICK v, payload, attrs : v = attr[r][Telemetry] /\ payload = m.payload /\ attrs = attr
  OBVIOUS
<1>6. header = <<v>>
  BY <1>2, <1>4, <1>5, HeaderIsEverys
<1>7. ResolveSubject(Subject, <<Placeholder(Header, key)>>, attrs, payload, <<v>>) = {v}
  BY <1>3, <1>5, SubjectOfHeader
<1>8. m.subject \in {v}
  BY <1>4, <1>5, <1>6, <1>7
<1> QED BY <1>2, <1>5, <1>8

(* A subject that is the header: every record is on the subject of its own  *)
(* value, for any number of workers, messages, records and values, through  *)
(* retries, merged payloads and concurrent calls.                           *)
THEOREM SubjectsAreOwn ==
  ASSUME NEW key, SubjectPattern = <<Placeholder(Header, key)>>
  PROVE  Spec => []RecordsOnOwnSubject
<1>1. IInv /\ DeliveryInv /\ AddressInv /\ [Next]_vars => (IInv /\ DeliveryInv /\ AddressInv)'
  BY StepIInv, StepDelivery, StepAddress
<1>2. AddressInv => RecordsOnOwnSubject
  BY OwnSubject
<1> QED BY InitIInv, InitDelivery, InitAddress, <1>1, <1>2, PTL DEF Spec

------------------------------------------------------------------------------
(* What is stored twice.                                                    *)

(* The Msg-Id of what is stored is remembered, or was forgotten; of two     *)
(* with the same Msg-Id the second came when it was.                        *)
DedupInv ==
  msgID =>
    /\ \A m \in stream : m.id \in window \union forgotten
    /\ \A m, n \in stream : m # n /\ m.id = n.id => m.id \in forgotten

LEMMA StepDedup == DedupInv /\ [Next]_vars => DedupInv'
<1> SUFFICES ASSUME DedupInv, [Next]_vars PROVE DedupInv'
  OBVIOUS
<1>1. ASSUME UNCHANGED <<msgID, serverVars>> PROVE DedupInv'
  BY <1>1 DEF DedupInv, serverVars
<1>2. ASSUME NEW m, Store(m) PROVE DedupInv'
  BY <1>2 DEF DedupInv, Store, configVars
<1>3. ASSUME NEW id, WindowPasses(id) PROVE DedupInv'
  BY <1>3 DEF DedupInv, WindowPasses, configVars
<1>4. ASSUME NEW m, MessageLost(m) PROVE DedupInv'
  BY <1>1, <1>4 DEF MessageLost, configVars
<1>5. CASE ListeningChanges
  BY <1>5 DEF DedupInv, ListeningChanges, configVars
<1>6. ASSUME NEW c \in Calls, WorkerStep(c) \/ CallStep(c) PROVE DedupInv'
  <2>1. UNCHANGED <<msgID, serverVars>>
    BY <1>6 DEF WorkerStep, DeliverMessages, ForwardPart, HeaderMissing, PartTaken, PartFails,
         PartRefused, CallEnds, Consume, CallStep, ReadClient, Publish, PublishOk,
         PublishTimesOut, PublishUnheard, PublishRefused, exporterVars, configVars
  <2> QED BY <1>1, <2>1
<1>7. CASE Lifecycle \/ UNCHANGED vars
  BY <1>1, <1>7 DEF Lifecycle, StartConnects, StartSucceeds, StartFails, Shutdown, vars,
                    exporterVars, configVars
<1> QED BY <1>2, <1>3, <1>4, <1>5, <1>6, <1>7 DEF Next, ServerStep

(* No two messages have a record in common.                                 *)
MessagesApart ==
  \A a, b \in Msgs : a # b => ToSet(Content[a]) \intersect ToSet(Content[b]) = {}

(* A record is sent in one payload only, and a payload on one subject only. *)
LEMMA OnePayload ==
  ASSUME MessagesApart, NEW n, SubjectPattern \in Seq(n), AddressInv, DeliveryInv, ~merges,
         headerFrom = "attribute", NEW k, NEW l, Addressed(k), Addressed(l),
         NEW r, r \in ToSet(k.payload), r \in ToSet(l.payload)
  PROVE  k.payload = l.payload /\ k.subject = l.subject
<1>1. PICK a \in Msgs, b \in Msgs : k.payload \in PartsOf(a) /\ l.payload \in PartsOf(b)
  BY DEF Addressed, Legal
<1>2. PICK cfg, attrs : cfg = config /\ attrs = attr /\ cfg.missing \in {"error", "drop"}
  BY DEF DeliveryInv, WorkInv
<1>3. ASSUME NEW m \in Msgs, NEW p \in PartsOf(m), r \in ToSet(p)
      PROVE  /\ Split(cfg, attrs, Merged({m})).ok /\ p \in ToSet(Split(cfg, attrs, Merged({m})).parts)
             /\ r \in ToSet(Content[m]) /\ Merged({m}) \in Seq(Records)
  <2>1. Split(cfg, attrs, Merged({m})).ok /\ p \in ToSet(Split(cfg, attrs, Merged({m})).parts)
    BY <1>2, <1>3 DEF PartsOf
  <2>2. Merged({m}) \in Seq(Records) /\ ToSet(Merged({m})) = UNION {ToSet(Content[x]) : x \in {m}}
    BY MergedRecords
  <2>3. PICK payload, s : payload = Merged({m}) /\ s = Split(cfg, attrs, payload)
    OBVIOUS
  <2>4. \E j \in DOMAIN s.parts : r \in ToSet(s.parts[j])
    <3>1. p \in ToSet(s.parts)
      BY <2>1, <2>3, Zenon
    <3>2. PICK j \in DOMAIN s.parts : s.parts[j] = p
      BY <3>1 DEF ToSet
    <3> QED BY <1>3, <3>2
  <2>5. r \in ToSet(payload)
    BY <1>2, <2>1, <2>2, <2>3, <2>4, SplitCovers
  <2> QED BY <2>1, <2>2, <2>3, <2>5
<1>4. a = b
  <2>1. r \in ToSet(Content[a]) /\ r \in ToSet(Content[b])
    BY <1>1, <1>3
  <2> QED BY <2>1 DEF MessagesApart
<1>5. k.payload = l.payload
  <2>1. PICK payload, p, q : payload = Merged({a}) /\ p = k.payload /\ q = l.payload
    OBVIOUS
  <2>2. /\ Split(cfg, attrs, payload).ok /\ payload \in Seq(Records)
        /\ p \in ToSet(Split(cfg, attrs, payload).parts)
        /\ q \in ToSet(Split(cfg, attrs, payload).parts)
        /\ r \in ToSet(p) /\ r \in ToSet(q)
    BY <1>1, <1>3, <1>4, <2>1
  <2>3. p = q
    BY <1>2, <2>2, PartsApart
  <2> QED BY <2>1, <2>3
<1>6. k.subject = l.subject
  <2>1. PICK payload : payload = k.payload /\ payload = l.payload
    BY <1>5
  <2>2. k.subject \in SubjectsOf(attrs, payload) /\ l.subject \in SubjectsOf(attrs, payload)
    BY <1>2, <2>1 DEF Addressed
  <2>3. PICK h \in HeadersOf(attrs, payload) :
          k.subject \in ResolveSubject(Subject, SubjectPattern, attrs, payload, h)
    BY <2>2 DEF SubjectsOf
  <2>4. PICK g \in HeadersOf(attrs, payload) :
          l.subject \in ResolveSubject(Subject, SubjectPattern, attrs, payload, g)
    BY <2>2 DEF SubjectsOf
  <2>5. g = h
    BY DEF HeadersOf, ResolveClientMetadataValue
  <2>6. AtMostOne(ResolveSubject(Subject, SubjectPattern, attrs, payload, h))
    BY SubjectAtMostOne
  <2> QED BY <2>3, <2>4, <2>5, <2>6 DEF AtMostOne
<1> QED BY <1>5, <1>6

LEMMA DuplicatesForgotten ==
  ASSUME MessagesApart, NEW n, SubjectPattern \in Seq(n), AddressInv, DeliveryInv, DedupInv
  PROVE  DuplicatesExplained
<1> SUFFICES ASSUME msgID, ~merges, headerFrom = "attribute", NEW k \in stream, NEW l \in stream,
                    k # l, NEW r, r \in ToSet(k.payload), r \in ToSet(l.payload)
             PROVE  \E id \in forgotten : id[1] \in {k.subject, l.subject}
  BY DEF DuplicatesExplained
<1>1. Addressed(k) /\ Addressed(l)
  BY DEF AddressInv
<1>2. k.payload = l.payload /\ k.subject = l.subject
  BY <1>1, OnePayload
<1>3. k.id = <<k.subject, k.payload>> /\ l.id = <<l.subject, l.payload>>
  BY DEF DeliveryInv, AnswersInv
<1>4. k.id = l.id
  BY <1>2, <1>3
<1>5. k.id \in forgotten
  BY <1>4 DEF DedupInv
<1>6. k.id[1] = k.subject
  BY <1>3
<1> QED BY <1>5, <1>6

(* Deduplication end to end, for messages without a common record and any   *)
(* template: a record is stored twice only after the server forgot its      *)
(* Msg-Id, since every retry sends the same part on the same subject.       *)
THEOREM DuplicatesOnlyWhenForgotten ==
  ASSUME MessagesApart, NEW n, SubjectPattern \in Seq(n)
  PROVE  Spec => []DuplicatesExplained
<1>1. Init => DedupInv
  BY DEF Init, ExporterInit, DedupInv
<1>2. /\ IInv /\ DeliveryInv /\ AddressInv /\ DedupInv /\ [Next]_vars
      => (IInv /\ DeliveryInv /\ AddressInv /\ DedupInv)'
  BY StepIInv, StepDelivery, StepAddress, StepDedup
<1>3. AddressInv /\ DeliveryInv /\ DedupInv => DuplicatesExplained
  BY DuplicatesForgotten
<1> QED BY InitIInv, InitDelivery, InitAddress, <1>1, <1>2, <1>3, PTL DEF Spec
==============================================================================
