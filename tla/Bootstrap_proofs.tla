--------------------------- MODULE Bootstrap_proofs ---------------------------
(****************************************************************************)
(* Three facts about starting, for every number of components, all their    *)
(* configurations and every state of the server: no connection is left      *)
(* behind, a receiver runs on its consumer as it is configured, and it      *)
(* finds what it provisions.                                                *)
(****************************************************************************)
EXTENDS Bootstrap, TLAPS

Stages == Starting \cup {"stopped", "started", "failed"}

Types ==
  /\ stage \in [Components -> Stages]
  /\ \A c \in Components : \A v, w \in cfg[c].bootstrap.consumer : v = w

(* The consumer of w is provisioned by c alone.                             *)
Alone(c, w) ==
  /\ Key(c, w.name.text) = Own(c)
  /\ \A d \in Components \ {c} : ~Provisions(d, Own(c))

(* Once the stage that provisions consumers is behind, the consumer stays   *)
(* as it was configured, through the rest of the start, the run, and the    *)
(* requests of the others.                                                  *)
Provisioned ==
  \A c \in Components : \A w \in cfg[c].bootstrap.consumer :
    cfg[c].kind = "receiver" /\ stage[c] \in {"consumer", "run", "started"} /\ Alone(c, w)
      => Own(c) \in DOMAIN consumers /\ {consumers[Own(c)]} = BuildConsumer(w)

IInv == Types /\ NoConnectionLeft /\ Provisioned

LEMMA IInvImplies == IInv => RunsAsConfigured
  BY DEF IInv, Provisioned, Alone, RunsAsConfigured

LEMMA InitIInv == Init => IInv
<1> SUFFICES ASSUME Init PROVE IInv
  OBVIOUS
<1>1. stage = [c \in Components |-> "stopped"] /\ open = {}
  BY DEF Init
<1>2. \A c \in Components : \A v, w \in cfg[c].bootstrap.consumer : v = w
  <2>1. PICK plan \in Plans : cfg = [c \in Components |-> ApplyReceiverDefaults(plan[c])]
    BY DEF Init
  <2> QED BY <2>1, PlansAssumption
<1> QED
  BY <1>1, <1>2 DEF IInv, Types, Stages, Starting, NoConnectionLeft, Provisioned

(* A component moves to another stage.                                      *)
LEMMA Moved ==
  ASSUME NEW c \in Components, stage \in [Components -> Stages], NEW to \in Stages,
         stage' = [stage EXCEPT ![c] = to]
  PROVE  /\ stage' \in [Components -> Stages] /\ stage'[c] = to
         /\ \A d \in Components : d # c => stage'[d] = stage[d]
  OBVIOUS

(* The configurations and the server's consumers stay as they are, and a    *)
(* component that has its consumer had it before: nothing is lost.          *)
LEMMA SameConsumers ==
  ASSUME Types, Provisioned, NEW c \in Components, NEW to \in Stages,
         stage' = [stage EXCEPT ![c] = to], UNCHANGED <<cfg, consumers>>,
         cfg[c].kind = "receiver" /\ to \in {"consumer", "run", "started"} =>
           stage[c] \in {"consumer", "run", "started"}
  PROVE  Types' /\ Provisioned'
<1>1. stage' \in [Components -> Stages] /\ stage'[c] = to
      /\ \A d \in Components : d # c => stage'[d] = stage[d]
  BY Moved DEF Types
<1>2. Types'
  BY <1>1 DEF Types
<1>3. \A d \in Components : Own(d)' = Own(d)
  BY DEF Own, Key
<1>4. \A d \in Components : \A w : Alone(d, w)' <=> Alone(d, w)
  BY <1>3 DEF Alone, Provisions, Key
<1>5. Provisioned'
  BY <1>1, <1>3, <1>4 DEF Provisioned
<1> QED BY <1>2, <1>5

(* Every way a start fails.                                                 *)
LEMMA FailsStep ==
  ASSUME IInv, NEW c \in Components, NEW why, Fails(c, why)
  PROVE  IInv'
<1>1. "failed" \in Stages
  BY DEF Stages
<1>2. stage' = [stage EXCEPT ![c] = "failed"] /\ open' = open \ {c}
      /\ UNCHANGED <<cfg, consumers>>
  BY DEF Fails
<1>3. Types' /\ Provisioned'
  BY <1>1, <1>2, SameConsumers DEF IInv
<1>4. NoConnectionLeft'
  BY <1>1, <1>2, Moved DEF IInv, Types, NoConnectionLeft, Starting
<1> QED BY <1>3, <1>4 DEF IInv

LEMMA EnsureConsumersStep ==
  ASSUME IInv, NEW c \in Components, EnsureConsumers(c)
  PROVE  IInv'
<1>1. stage[c] = "consumers" /\ stage' = [stage EXCEPT ![c] = "consumer"]
      /\ UNCHANGED <<cfg, open>> /\ "consumer" \in Stages
  BY DEF EnsureConsumers, Goes, Stages, Starting
<1>2. stage' \in [Components -> Stages] /\ stage'[c] = "consumer"
      /\ \A d \in Components : d # c => stage'[d] = stage[d]
  BY <1>1, Moved DEF IInv, Types
<1>3. Types'
  BY <1>1, <1>2 DEF IInv, Types
<1>4. NoConnectionLeft'
  BY <1>1, <1>2 DEF IInv, NoConnectionLeft, Starting
<1>5. \A d \in Components : Own(d)' = Own(d)
  BY <1>1 DEF Own, Key
<1>6. \A d \in Components : \A w : Alone(d, w)' <=> Alone(d, w)
  BY <1>1, <1>5 DEF Alone, Provisions, Key
<1>7. CASE cfg[c].bootstrap.consumer = {} /\ UNCHANGED consumers
  BY <1>1, <1>2, <1>3, <1>4, <1>5, <1>6, <1>7 DEF IInv, Provisioned
<1>8. ASSUME NEW v \in cfg[c].bootstrap.consumer, NEW b \in BuildConsumer(v),
             consumers' = Put(consumers, Key(c, b.name.text), b)
      PROVE  IInv'
  <2>1. BuildConsumer(v) = {b} /\ b.name.text = v.name.text
    <3> DEFINE built == [name |-> Written(v.name.text), filter |-> Written(v.filter.text),
                         policy |-> DeliverPolicy[v.policy.text]]
    <3>1. BuildConsumer(v) = {} \/ BuildConsumer(v) = {built}
      BY DEF BuildConsumer
    <3>2. BuildConsumer(v) = {built} /\ b = built
      BY <1>8, <3>1
    <3>3. built.name.text = v.name.text
      BY DEF Written
    <3> QED BY <3>2, <3>3
  <2>2. /\ DOMAIN consumers' = DOMAIN consumers \cup {Key(c, v.name.text)}
        /\ consumers'[Key(c, v.name.text)] = b
        /\ \A k \in DOMAIN consumers : k # Key(c, v.name.text) => consumers'[k] = consumers[k]
    BY <1>8, <2>1 DEF Put
  <2>3. ASSUME NEW d \in Components, NEW w \in cfg[d].bootstrap.consumer, Alone(d, w),
               cfg[d].kind = "receiver", stage'[d] \in {"consumer", "run", "started"}
        PROVE  Own(d) \in DOMAIN consumers' /\ {consumers'[Own(d)]} = BuildConsumer(w)
    <3>1. CASE d = c
      <4>1. w = v /\ Own(d) = Key(c, v.name.text)
        BY <2>3, <3>1 DEF IInv, Types, Alone
      <4> QED BY <2>1, <2>2, <4>1
    <3>2. CASE d # c
      <4>1. Own(d) # Key(c, v.name.text)
        BY <2>3, <3>2, <1>8 DEF Alone, Provisions
      <4>2. Own(d) \in DOMAIN consumers /\ {consumers[Own(d)]} = BuildConsumer(w)
        BY <2>3, <3>2, <1>2 DEF IInv, Provisioned
      <4> QED BY <2>2, <4>1, <4>2
    <3> QED BY <3>1, <3>2
  <2>4. Provisioned'
    BY <1>1, <1>5, <1>6, <2>3 DEF Provisioned
  <2> QED BY <1>3, <1>4, <2>4 DEF IInv
<1> QED BY <1>7, <1>8 DEF EnsureConsumers

(* Every step preserves the invariant.                                      *)
LEMMA StepIInv == IInv /\ [Next]_vars => IInv'
<1> SUFFICES ASSUME IInv, [Next]_vars PROVE IInv'
  OBVIOUS
<1>1. ASSUME NEW c \in Components, Connect(c) PROVE IInv'
  <2>1. stage' = [stage EXCEPT ![c] = "streams"] /\ open' = open \cup {c}
        /\ UNCHANGED <<cfg, consumers>> /\ "streams" \in Stages
    BY <1>1 DEF Connect, Goes, Stages, Starting
  <2>2. Types' /\ Provisioned'
    BY <2>1, SameConsumers DEF IInv
  <2>3. NoConnectionLeft'
    BY <2>1, Moved DEF IInv, Types, NoConnectionLeft, Starting
  <2> QED BY <2>2, <2>3 DEF IInv
<1>2. ASSUME NEW c \in Components, EnsureStreams(c) PROVE IInv'
  <2>1. PICK to \in {"stream", "started"} :
          /\ stage' = [stage EXCEPT ![c] = to] /\ stage[c] = "streams"
          /\ cfg[c].kind = "receiver" => to = "stream"
          /\ UNCHANGED <<cfg, consumers, open>> /\ to \in Stages
    BY <1>2 DEF EnsureStreams, AfterStreams, Goes, Stages, Starting
  <2>2. Types' /\ Provisioned'
    BY <2>1, SameConsumers DEF IInv
  <2>3. NoConnectionLeft'
    BY <2>1, Moved DEF IInv, Types, NoConnectionLeft, Starting
  <2> QED BY <2>2, <2>3 DEF IInv
<1>3. ASSUME NEW c \in Components, LookupStream(c) PROVE IInv'
  <2>1. stage' = [stage EXCEPT ![c] = "consumers"] /\ stage[c] = "stream"
        /\ UNCHANGED <<cfg, consumers, open>> /\ "consumers" \in Stages
    BY <1>3 DEF LookupStream, Goes, Stages, Starting
  <2>2. Types' /\ Provisioned'
    BY <2>1, SameConsumers DEF IInv
  <2>3. NoConnectionLeft'
    BY <2>1, Moved DEF IInv, Types, NoConnectionLeft, Starting
  <2> QED BY <2>2, <2>3 DEF IInv
<1>4. ASSUME NEW c \in Components, LookupConsumer(c) \/ Runs(c) PROVE IInv'
  <2>1. PICK to \in {"run", "started"} :
          /\ stage' = [stage EXCEPT ![c] = to] /\ stage[c] \in {"consumer", "run"}
          /\ UNCHANGED <<cfg, consumers, open>> /\ to \in Stages
    BY <1>4 DEF LookupConsumer, Runs, Goes, Stages, Starting
  <2>2. Types' /\ Provisioned'
    BY <2>1, SameConsumers DEF IInv
  <2>3. NoConnectionLeft'
    BY <2>1, Moved DEF IInv, Types, NoConnectionLeft, Starting
  <2> QED BY <2>2, <2>3 DEF IInv
<1>5. ASSUME NEW c \in Components, Shutdown(c) \/ Restart(c) PROVE IInv'
  <2>1. /\ stage' = [stage EXCEPT ![c] = "stopped"]
        /\ \/ stage[c] = "started" /\ open' = open \ {c}
           \/ stage[c] = "failed" /\ open' = open
        /\ UNCHANGED <<cfg, consumers>> /\ "stopped" \in Stages
    BY <1>5 DEF Shutdown, Restart, Goes, Stages, Starting
  <2>2. Types' /\ Provisioned'
    BY <2>1, SameConsumers DEF IInv
  <2>3. NoConnectionLeft'
    BY <2>1, Moved DEF IInv, Types, NoConnectionLeft, Starting
  <2> QED BY <2>2, <2>3 DEF IInv
<1>6. ASSUME NEW c \in Components, EnsureConsumers(c) PROVE IInv'
  BY <1>6, EnsureConsumersStep
<1>7. ASSUME NEW c \in Components,
             \/ StreamsFail(c) \/ StreamMissing(c) \/ ConsumersFail(c) \/ ConsumerMissing(c)
             \/ ConnectFails(c) \/ ServerFails(c) \/ HostGivesUp(c)
      PROVE  IInv'
  <2>1. CASE ConsumersFail(c)
    BY <2>1, FailsStep DEF ConsumersFail
  <2>2. CASE StreamsFail(c)
    BY <2>2, FailsStep DEF StreamsFail
  <2>3. CASE StreamMissing(c)
    BY <2>3, FailsStep DEF StreamMissing
  <2>4. CASE ConsumerMissing(c)
    BY <2>4, FailsStep DEF ConsumerMissing
  <2>5. CASE ConnectFails(c)
    BY <2>5, FailsStep DEF ConnectFails
  <2>6. CASE ServerFails(c)
    BY <2>6, FailsStep DEF ServerFails
  <2>7. CASE HostGivesUp(c)
    BY <2>7, FailsStep DEF HostGivesUp
  <2> QED BY <1>7, <2>1, <2>2, <2>3, <2>4, <2>5, <2>6, <2>7
<1>8. ASSUME NEW c \in Components, SubscriptionFails(c) PROVE IInv'
  <2>1. CASE Fails(c, "server")
    BY <2>1, FailsStep
  <2>2. CASE Goes(c, "run", "stuck") /\ UNCHANGED <<cfg, open, consumers>>
    <3>1. stage' = [stage EXCEPT ![c] = "stuck"] /\ stage[c] = "run" /\ "stuck" \in Stages
      BY <2>2 DEF Goes, Stages, Starting
    <3>2. Types' /\ Provisioned'
      BY <2>2, <3>1, SameConsumers DEF IInv
    <3>3. NoConnectionLeft'
      BY <2>2, <3>1, Moved DEF IInv, Types, NoConnectionLeft, Starting
    <3> QED BY <3>2, <3>3 DEF IInv
  <2> QED BY <1>8, <2>1, <2>2 DEF SubscriptionFails
<1>9. CASE UNCHANGED vars
  BY <1>9 DEF vars, IInv, Types, NoConnectionLeft, Provisioned, Alone, Provisions, Own, Key
<1> QED
  BY <1>1, <1>2, <1>3, <1>4, <1>5, <1>6, <1>7, <1>8, <1>9 DEF Next, StartStep

(* Whichever stage of a start fails, no connection is left behind.          *)
THEOREM ConnectionsClosed == Spec => []NoConnectionLeft
<1>1. IInv => NoConnectionLeft
  BY DEF IInv
<1> QED BY InitIInv, StepIInv, <1>1, PTL DEF Spec

(* A receiver that alone provisions the consumer it uses runs on it as it   *)
(* is configured.                                                           *)
THEOREM ConsumerAsConfigured == Spec => []RunsAsConfigured
  BY InitIInv, StepIInv, IInvImplies, PTL DEF Spec

------------------------------------------------------------------------------
(* The part of ProvisionedStarts that is safety.                            *)

Reasons == {"none", "connect", "build", "stream refused", "no stream", "no start",
            "consumer refused", "no consumer", "server"}

OwnsStream(c) ==
  /\ cfg[c].kind = "receiver" /\ ~cfg[c].stream.padded
  /\ cfg[c].bootstrap.stream # {}
  /\ \A s \in cfg[c].bootstrap.stream : s.name.text = cfg[c].stream.text

OwnsConsumer(c) == cfg[c].kind = "receiver" /\ Provisions(c, Own(c))

(* A receiver that provisions the stream it reads, whose name it gives      *)
(* without blanks around it, never fails because it is missing, nor because *)
(* of its consumer if it provisions that, however the consumer's name is    *)
(* padded: whatever others provision, what it looks up is what it asked for *)
(* (pkg/jetstream: EnsureBootstrapStreams, EnsureBootstrapConsumers).       *)
ProvisionedFound ==
  \A c \in Components :
    /\ OwnsStream(c) => reason[c] # "no stream"
    /\ OwnsConsumer(c) => reason[c] # "no consumer"

(* What was provisioned is there when it is looked up.                      *)
There ==
  /\ reason \in [Components -> Reasons]
  /\ \A c \in Components :
       /\ OwnsStream(c) /\ stage[c] = "stream" => cfg[c].stream.text \in DOMAIN streams
       /\ OwnsConsumer(c) /\ stage[c] = "consumer" => Own(c) \in DOMAIN consumers

FInv == There /\ ProvisionedFound

LEMMA InitFInv == Init => FInv
<1> SUFFICES ASSUME Init PROVE FInv
  OBVIOUS
<1>1. PICK none : none = "none"
  OBVIOUS
<1>2. none \in Reasons /\ none # "no stream" /\ none # "no consumer"
  BY <1>1 DEF Reasons
<1>3. reason = [c \in Components |-> none]
  BY <1>1 DEF Init
<1>4. \A c \in Components : stage[c] = "stopped"
  BY DEF Init
<1>5. There
  BY <1>2, <1>3, <1>4 DEF There
<1>6. ProvisionedFound
  BY <1>2, <1>3 DEF ProvisionedFound
<1> QED BY <1>5, <1>6 DEF FInv

(* Component c goes to another stage, for a reason if it fails; the server  *)
(* forgets nothing.                                                         *)
LEMMA FoundStep ==
  ASSUME Types, FInv, NEW c \in Components, NEW to \in Stages, NEW why \in Reasons,
         UNCHANGED cfg, stage' = [stage EXCEPT ![c] = to], reason' = [reason EXCEPT ![c] = why],
         DOMAIN streams \subseteq DOMAIN streams', DOMAIN consumers \subseteq DOMAIN consumers',
         to = "stream" /\ OwnsStream(c) => cfg[c].stream.text \in DOMAIN streams',
         to = "consumer" /\ OwnsConsumer(c) => Own(c) \in DOMAIN consumers',
         \/ why = reason[c]
         \/ (why = "no stream" => ~OwnsStream(c)) /\ (why = "no consumer" => ~OwnsConsumer(c))
  PROVE  FInv'
<1>1. stage'[c] = to /\ \A d \in Components : d # c => stage'[d] = stage[d]
  BY Moved DEF Types
<1>2. /\ reason' \in [Components -> Reasons] /\ reason'[c] = why
      /\ \A d \in Components : d # c => reason'[d] = reason[d]
  BY DEF FInv, There
<1>3. \A d \in Components : /\ Own(d)' = Own(d)
                            /\ OwnsStream(d)' <=> OwnsStream(d)
                            /\ OwnsConsumer(d)' <=> OwnsConsumer(d)
  BY DEF Own, Key, OwnsStream, OwnsConsumer, Provisions
<1>4. There'
  <2> SUFFICES ASSUME NEW d \in Components
               PROVE  /\ OwnsStream(d) /\ stage'[d] = "stream"
                           => cfg[d].stream.text \in DOMAIN streams'
                      /\ OwnsConsumer(d) /\ stage'[d] = "consumer"
                           => Own(d) \in DOMAIN consumers'
    BY <1>2, <1>3 DEF There
  <2>1. CASE d = c
    BY <1>1, <2>1
  <2>2. CASE d # c
    BY <1>1, <2>2 DEF FInv, There
  <2> QED BY <2>1, <2>2
<1>5. ProvisionedFound'
  <2> SUFFICES ASSUME NEW d \in Components
               PROVE  /\ OwnsStream(d) => reason'[d] # "no stream"
                      /\ OwnsConsumer(d) => reason'[d] # "no consumer"
    BY <1>3 DEF ProvisionedFound
  <2>1. CASE d = c
    BY <1>2, <2>1 DEF FInv, ProvisionedFound
  <2>2. CASE d # c
    BY <1>2, <2>2 DEF FInv, ProvisionedFound
  <2> QED BY <2>1, <2>2
<1> QED BY <1>4, <1>5 DEF FInv

(* A step that fails no start.                                              *)
LEMMA FoundGoes ==
  ASSUME Types, FInv, NEW c \in Components, NEW to \in Stages,
         UNCHANGED cfg, stage' = [stage EXCEPT ![c] = to], UNCHANGED reason,
         DOMAIN streams \subseteq DOMAIN streams', DOMAIN consumers \subseteq DOMAIN consumers',
         to = "stream" /\ OwnsStream(c) => cfg[c].stream.text \in DOMAIN streams',
         to = "consumer" /\ OwnsConsumer(c) => Own(c) \in DOMAIN consumers'
  PROVE  FInv'
<1>1. PICK why : why = reason[c]
  OBVIOUS
<1>2. why \in Reasons /\ reason' = [reason EXCEPT ![c] = why]
  BY <1>1 DEF FInv, There
<1> QED BY <1>1, <1>2, FoundStep

LEMMA FoundFails ==
  ASSUME Types, FInv, NEW c \in Components, NEW why \in Reasons, Fails(c, why),
         why = "no stream" => ~OwnsStream(c), why = "no consumer" => ~OwnsConsumer(c)
  PROVE  FInv'
<1>1. /\ UNCHANGED <<cfg, streams, consumers>> /\ "failed" \in Stages
      /\ stage' = [stage EXCEPT ![c] = "failed"] /\ reason' = [reason EXCEPT ![c] = why]
  BY DEF Fails, Stages
<1> QED BY <1>1, FoundStep

LEMMA StepFInv == IInv /\ FInv /\ [Next]_vars => FInv'
<1> SUFFICES ASSUME IInv, FInv, [Next]_vars PROVE FInv'
  OBVIOUS
<1>1. Types
  BY DEF IInv
<1>2. ASSUME NEW c \in Components, Connect(c) PROVE FInv'
  <2>1. /\ stage' = [stage EXCEPT ![c] = "streams"] /\ reason' = [reason EXCEPT ![c] = "none"]
        /\ UNCHANGED <<cfg, streams, consumers>> /\ "streams" \in Stages
    BY <1>2 DEF Connect, Goes, Stages, Starting
  <2>2. "none" \in Reasons
    BY DEF Reasons
  <2> QED BY <1>1, <2>1, <2>2, FoundStep
<1>3. ASSUME NEW c \in Components, EnsureStreams(c) PROVE FInv'
  <2>1. PICK to \in {"stream", "started"} :
          /\ stage' = [stage EXCEPT ![c] = to] /\ to \in Stages
          /\ UNCHANGED <<cfg, reason, consumers>>
    BY <1>3 DEF EnsureStreams, AfterStreams, Goes, Stages, Starting
  <2>2. CASE cfg[c].bootstrap.stream = {} /\ UNCHANGED streams
    BY <1>1, <2>1, <2>2, FoundGoes DEF OwnsStream
  <2>3. ASSUME NEW b \in cfg[c].bootstrap.stream, NEW s \in BuildStream(b),
               streams' = Put(streams, s.name.text, s)
        PROVE  FInv'
    <3>1. s.name = b.name
      BY <2>3 DEF BuildStream
    <3>2. DOMAIN streams' = DOMAIN streams \cup {b.name.text}
      BY <2>3, <3>1 DEF Put
    <3>3. OwnsStream(c) => cfg[c].stream.text \in DOMAIN streams'
      BY <3>2 DEF OwnsStream
    <3> QED BY <1>1, <2>1, <3>2, <3>3, FoundGoes
  <2> QED BY <1>3, <2>2, <2>3 DEF EnsureStreams
<1>4. ASSUME NEW c \in Components, LookupStream(c) \/ LookupConsumer(c) \/ Runs(c)
                                   \/ Shutdown(c) \/ Restart(c)
      PROVE  FInv'
  <2>1. PICK to \in {"consumers", "run", "started", "stopped"} :
          /\ stage' = [stage EXCEPT ![c] = to] /\ to \in Stages
          /\ UNCHANGED <<cfg, reason, streams, consumers>>
    BY <1>4 DEF LookupStream, LookupConsumer, Runs, Shutdown, Restart, Goes, Stages, Starting
  <2> QED BY <1>1, <2>1, FoundGoes
<1>5. ASSUME NEW c \in Components, EnsureConsumers(c) PROVE FInv'
  <2>1. /\ stage' = [stage EXCEPT ![c] = "consumer"] /\ "consumer" \in Stages
        /\ UNCHANGED <<cfg, reason, streams>>
    BY <1>5 DEF EnsureConsumers, Goes, Stages, Starting
  <2>2. CASE cfg[c].bootstrap.consumer = {} /\ UNCHANGED consumers
    BY <1>1, <2>1, <2>2, FoundGoes DEF OwnsConsumer, Provisions
  <2>3. ASSUME NEW w \in cfg[c].bootstrap.consumer, NEW b \in BuildConsumer(w),
               consumers' = Put(consumers, Key(c, b.name.text), b)
        PROVE  FInv'
    <3>1. b.name.text = w.name.text
      BY <2>3 DEF BuildConsumer, Written
    <3>2. DOMAIN consumers' = DOMAIN consumers \cup {Key(c, w.name.text)}
      BY <2>3, <3>1 DEF Put
    <3>3. OwnsConsumer(c) => Own(c) = Key(c, w.name.text)
      BY <1>1, <2>3 DEF OwnsConsumer, Provisions, Types
    <3> QED BY <1>1, <2>1, <3>2, <3>3, FoundGoes
  <2> QED BY <1>5, <2>2, <2>3 DEF EnsureConsumers
<1>6. ASSUME NEW c \in Components, StreamMissing(c) PROVE FInv'
  <2>1. ~OwnsStream(c)
    BY <1>6 DEF StreamMissing, FInv, There, OwnsStream
  <2>2. "no stream" \in Reasons
    BY DEF Reasons
  <2>3. Fails(c, "no stream")
    BY <1>6 DEF StreamMissing
  <2> QED BY <1>1, <2>1, <2>2, <2>3, FoundFails
<1>7. ASSUME NEW c \in Components, ConsumerMissing(c) PROVE FInv'
  <2>1. ~OwnsConsumer(c)
    BY <1>7 DEF ConsumerMissing, FInv, There
  <2>2. "no consumer" \in Reasons
    BY DEF Reasons
  <2>3. Fails(c, "no consumer")
    BY <1>7 DEF ConsumerMissing
  <2> QED BY <1>1, <2>1, <2>2, <2>3, FoundFails
<1>8. ASSUME NEW c \in Components,
             \/ StreamsFail(c) \/ ConsumersFail(c) \/ ConnectFails(c) \/ ServerFails(c)
             \/ HostGivesUp(c)
      PROVE  FInv'
  <2>1. PICK why \in {"build", "stream refused", "no start", "consumer refused", "connect",
                      "server"} : Fails(c, why)
    BY <1>8 DEF StreamsFail, ConsumersFail, ConnectFails, ServerFails, HostGivesUp
  <2>2. why \in Reasons /\ why # "no stream" /\ why # "no consumer"
    BY <2>1 DEF Reasons
  <2> QED BY <1>1, <2>1, <2>2, FoundFails
<1>9. ASSUME NEW c \in Components, SubscriptionFails(c) PROVE FInv'
  <2>1. CASE Goes(c, "run", "stuck") /\ UNCHANGED <<cfg, reason, streams, consumers>>
    <3>1. stage' = [stage EXCEPT ![c] = "stuck"] /\ "stuck" \in Stages
      BY <2>1 DEF Goes, Stages, Starting
    <3>2. PICK to \in Stages : to = "stuck"
      BY <3>1
    <3>3. /\ stage' = [stage EXCEPT ![c] = to] /\ to # "stream" /\ to # "consumer"
          /\ UNCHANGED <<cfg, reason, streams, consumers>>
      BY <2>1, <3>1, <3>2
    <3> QED BY <1>1, <3>3, FoundGoes
  <2>2. CASE Fails(c, "server")
    <3>1. PICK why : why = "server"
      OBVIOUS
    <3>2. why \in Reasons /\ why # "no stream" /\ why # "no consumer"
      BY <3>1 DEF Reasons
    <3> QED BY <1>1, <2>2, <3>1, <3>2, FoundFails
  <2> QED BY <1>9, <2>1, <2>2 DEF SubscriptionFails
<1>10. CASE UNCHANGED vars
  BY <1>10
  DEF vars, FInv, There, ProvisionedFound, OwnsStream, OwnsConsumer, Provisions, Own, Key
<1> QED
  <2>1. ASSUME NEW c \in Components, StartStep(c) PROVE FInv'
    BY <1>2, <1>3, <1>4, <1>5, <1>6, <1>7, <1>8, <2>1 DEF StartStep
  <2> QED BY <1>4, <1>8, <1>9, <1>10, <2>1 DEF Next

(* A receiver finds the stream and the consumer it provisions.              *)
THEOREM FindsWhatItProvisions == Spec => []ProvisionedFound
<1>1. IInv /\ FInv /\ [Next]_vars => (IInv /\ FInv)'
  BY StepIInv, StepFInv
<1>2. FInv => ProvisionedFound
  BY DEF FInv
<1> QED BY InitIInv, InitFInv, <1>1, <1>2, PTL DEF Spec
==============================================================================
