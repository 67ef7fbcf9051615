------------------------------ MODULE Bootstrap ------------------------------
(****************************************************************************)
(* Provisioning (pkg/jetstream/jetstream.go) and the starts that use it, of *)
(* JetStream receivers and exporters: connect, create or update the stream, *)
(* look it up, create or update the consumer, look that up, run.            *)
(*                                                                          *)
(* The components belong to collectors that start at any time, fail to      *)
(* start, end and are started again, and that share one JetStream server,   *)
(* which is outside the repository.  Of a setting the model keeps what the  *)
(* code tells apart: its text, trimmed and in lower case, and whether the   *)
(* setting as written differs from that.  Of a stream it keeps the settings *)
(* with a vocabulary of their own, which the code translates.               *)
(****************************************************************************)
EXTENDS Naturals, Sequences, FiniteSets, TLC

CONSTANTS
  Components,   \* receivers and exporters
  Plans,        \* the configuration of each component: a set of functions
  Servers,      \* what the server may hold at first: [streams, consumers]
  MaxFaults     \* starts that fail for a reason of the server's (bound)

ASSUME BootstrapAssumption == IsFiniteSet(Components) /\ MaxFaults \in Nat

------------------------------------------------------------------------------
(* Settings.                                                                *)

Written(text) == [text |-> text, padded |-> FALSE]
IsBlank(setting) == setting.text = ""

(* The normalize functions: what each of their texts stands for.            *)
Retention == "" :> "limits" @@ "limits" :> "limits" @@ "interest" :> "interest"
  @@ [text \in {"workqueue", "work_queue", "work-queue"} |-> "workqueue"]
Discard == "" :> "old" @@ "old" :> "old" @@ "new" :> "new"
Storage == "" :> "file" @@ "file" :> "file" @@ "memory" :> "memory"
StreamCompression == [text \in {"", "none", "identity"} |-> "none"] @@ "s2" :> "s2"
DeliverPolicy == [text \in {"", "all"} |-> "all"] @@ "new" :> "new" @@ "last" :> "last"
  @@ [text \in {"last_per_subject", "last-per-subject"} |-> "last_per_subject"]
  @@ [text \in {"by_start_sequence", "by-start-sequence"} |-> "by_start_sequence"]
  @@ [text \in {"by_start_time", "by-start-time"} |-> "by_start_time"]

StreamTables == [retention |-> Retention, discard |-> Discard, storage |-> Storage,
                 compression |-> StreamCompression]

(* ApplyReceiverDefaults: the consumer to provision is, unless it says      *)
(* otherwise, the one the receiver uses.                                    *)
ApplyReceiverDefaults(cfg) ==
  IF cfg.kind = "exporter" THEN cfg
  ELSE [cfg EXCEPT !.bootstrap.consumer =
          {[b EXCEPT !.name = IF IsBlank(@) THEN cfg.consumer ELSE @,
                     !.filter = IF IsBlank(@) THEN cfg.subject ELSE @] :
           b \in cfg.bootstrap.consumer}]

(* A bootstrap section names at most one consumer.                          *)
ASSUME PlansAssumption ==
  \A plan \in Plans : \A c \in Components :
    \A v, w \in ApplyReceiverDefaults(plan[c]).bootstrap.consumer : v = w

ValidStream(s) ==
  /\ ~IsBlank(s.name)
  /\ s.subjects # {} \/ s.sources # {}
  /\ \A name \in s.subjects \cup s.sources : ~IsBlank(name)
  /\ \A f \in DOMAIN StreamTables : s[f].text \in DOMAIN StreamTables[f]

ValidConsumer(b) ==
  /\ ~IsBlank(b.name) /\ ~IsBlank(b.filter)
  /\ b.policy.text \in DOMAIN DeliverPolicy

(* BootstrapConfig.Validate, and of Config.Validate what concerns it.       *)
Validate(cfg) ==
  /\ cfg.kind = "receiver" =>
       cfg.stream # Written("") /\ cfg.subject # Written("") /\ ~IsBlank(cfg.consumer)
  /\ \A s \in cfg.bootstrap.stream : ValidStream(s)
  /\ \A b \in ApplyReceiverDefaults(cfg).bootstrap.consumer : ValidConsumer(b)

(* buildStreamConfig: sets with at most one element, none for an error.     *)
(* Sources are trimmed, names and subjects are not.                         *)
BuildStream(s) ==
  IF \E f \in DOMAIN StreamTables : s[f].text \notin DOMAIN StreamTables[f] THEN {}
  ELSE {[name |-> s.name, subjects |-> s.subjects,
         sources |-> {Written(name.text) : name \in s.sources},
         settings |-> [f \in DOMAIN StreamTables |-> StreamTables[f][s[f].text]]]}

(* buildConsumerConfig trims the name and the filter.                       *)
BuildConsumer(b) ==
  IF IsBlank(b.name) \/ IsBlank(b.filter) \/ b.policy.text \notin DOMAIN DeliverPolicy THEN {}
  ELSE {[name |-> Written(b.name.text), filter |-> Written(b.filter.text),
         policy |-> DeliverPolicy[b.policy.text]]}

------------------------------------------------------------------------------
VARIABLES
  cfg,         \* the configurations, validated, with their defaults applied
  stage,       \* of each component: "stopped", "streams", "stream",
               \* "consumers", "consumer", "run", "stuck", "started" or "failed"
  reason,      \* why its last start failed, or "none"
  open,        \* components whose connection is open
  streams,     \* the server's streams: settings by name
  consumers,   \* the server's consumers: settings by stream and name
  faults       \* failures of the server so far

vars == <<cfg, stage, reason, open, streams, consumers, faults>>

Init ==
  /\ cfg \in {[c \in Components |-> ApplyReceiverDefaults(plan[c])] :
              plan \in {plan \in Plans : \A c \in Components : Validate(plan[c])}}
  /\ stage = [c \in Components |-> "stopped"] /\ reason = [c \in Components |-> "none"]
  /\ open = {} /\ faults = 0
  /\ \E server \in Servers : streams = server.streams /\ consumers = server.consumers

(* What the server holds after a request to create or update one of them.   *)
Put(f, key, value) == [k \in DOMAIN f \cup {key} |-> IF k = key THEN value ELSE f[k]]

Goes(c, from, to) == stage[c] = from /\ stage' = [stage EXCEPT ![c] = to]

(* An operator named <Operator>_<Change> is a fault the properties are      *)
(* tried against.                                                           *)
Fails_KeepsConnection(c, why) ==
  /\ stage' = [stage EXCEPT ![c] = "failed"] /\ reason' = [reason EXCEPT ![c] = why]
  /\ open' = IF why = "no stream" THEN open ELSE open \ {c}
  /\ UNCHANGED <<cfg, streams, consumers>>

(* A failing stage of Start: the connection is closed, the error returned.  *)
Fails(c, why) ==
  /\ stage' = [stage EXCEPT ![c] = "failed"] /\ reason' = [reason EXCEPT ![c] = why]
  /\ open' = open \ {c}
  /\ UNCHANGED <<cfg, streams, consumers>>

(* Connect: the connection, then the JetStream context.                     *)
Connect(c) ==
  /\ Goes(c, "stopped", "streams")
  /\ open' = open \cup {c} /\ reason' = [reason EXCEPT ![c] = "none"]
  /\ UNCHANGED <<cfg, streams, consumers, faults>>

(* No certificate, no server, or no context: nothing stays open.            *)
ConnectFails(c) ==
  /\ stage[c] = "stopped" /\ faults < MaxFaults
  /\ faults' = faults + 1
  /\ Fails(c, "connect")

(* An exporter that has its stream has started.                             *)
AfterStreams(c) == IF cfg[c].kind = "receiver" THEN "stream" ELSE "started"

(* What the server refuses: white space in a name, another storage.         *)
StreamRefused(s) ==
  \/ \E name \in {s.name} \cup s.subjects : name.padded
  \/ s.name.text \in DOMAIN streams /\ streams[s.name.text].settings.storage # s.settings.storage

(* EnsureBootstrapStreams, one request.                                     *)
EnsureStreams(c) ==
  /\ Goes(c, "streams", AfterStreams(c))
  /\ \/ cfg[c].bootstrap.stream = {} /\ UNCHANGED streams
     \/ \E b \in cfg[c].bootstrap.stream : \E s \in BuildStream(b) :
          ~StreamRefused(s) /\ streams' = Put(streams, s.name.text, s)
  /\ UNCHANGED <<cfg, reason, open, consumers, faults>>

StreamsFail(c) ==
  /\ stage[c] = "streams" /\ UNCHANGED faults
  /\ \E b \in cfg[c].bootstrap.stream :
       \/ BuildStream(b) = {} /\ Fails(c, "build")
       \/ (\E s \in BuildStream(b) : StreamRefused(s)) /\ Fails(c, "stream refused")

LookupStream(c) ==
  /\ ~cfg[c].stream.padded /\ cfg[c].stream.text \in DOMAIN streams
  /\ Goes(c, "stream", "consumers")
  /\ UNCHANGED <<cfg, reason, open, streams, consumers, faults>>

StreamMissing(c) ==
  /\ stage[c] = "stream" /\ UNCHANGED faults
  /\ cfg[c].stream.padded \/ cfg[c].stream.text \notin DOMAIN streams
  /\ Fails(c, "no stream")

Key(c, name) == <<cfg[c].stream.text, name>>

(* The server refuses a start it is given no value for, another policy for  *)
(* a consumer there is, and white space.                                    *)
NeedsStart(b) == b.policy \in {"by_start_sequence", "by_start_time"}
ConsumerRefused(c, b) ==
  \/ b.name.padded \/ b.filter.padded
  \/ Key(c, b.name.text) \in DOMAIN consumers /\ consumers[Key(c, b.name.text)].policy # b.policy

EnsureConsumers_CreatesOnly(c) ==
  /\ Goes(c, "consumers", "consumer")
  /\ \/ cfg[c].bootstrap.consumer = {} /\ UNCHANGED consumers
     \/ \E w \in cfg[c].bootstrap.consumer : \E b \in BuildConsumer(w) :
          /\ ~NeedsStart(b) /\ ~ConsumerRefused(c, b)
          /\ consumers' = consumers @@ (Key(c, b.name.text) :> b)
  /\ UNCHANGED <<cfg, reason, open, streams, faults>>

(* EnsureBootstrapConsumers.                                                *)
EnsureConsumers(c) ==
  /\ Goes(c, "consumers", "consumer")
  /\ \/ cfg[c].bootstrap.consumer = {} /\ UNCHANGED consumers
     \/ \E w \in cfg[c].bootstrap.consumer : \E b \in BuildConsumer(w) :
          /\ ~NeedsStart(b) /\ ~ConsumerRefused(c, b)
          /\ consumers' = Put(consumers, Key(c, b.name.text), b)
  /\ UNCHANGED <<cfg, reason, open, streams, faults>>

ConsumersFail(c) ==
  /\ stage[c] = "consumers" /\ UNCHANGED faults
  /\ \E w \in cfg[c].bootstrap.consumer :
       \/ BuildConsumer(w) = {} /\ Fails(c, "build")
       \/ \E b \in BuildConsumer(w) :
            \/ NeedsStart(b) /\ Fails(c, "no start")
            \/ ConsumerRefused(c, b) /\ Fails(c, "consumer refused")

Own_AsWritten(c) ==
  Key(c, IF cfg[c].consumer.padded THEN " " \o cfg[c].consumer.text ELSE cfg[c].consumer.text)

(* consumerName: the consumer of the receiver, its name trimmed.            *)
Own(c) == Key(c, cfg[c].consumer.text)

LookupConsumer(c) ==
  /\ Own(c) \in DOMAIN consumers
  /\ Goes(c, "consumer", "run")
  /\ UNCHANGED <<cfg, reason, open, streams, consumers, faults>>

ConsumerMissing(c) ==
  /\ stage[c] = "consumer" /\ Own(c) \notin DOMAIN consumers /\ UNCHANGED faults
  /\ Fails(c, "no consumer")

(* The workers, or the single subscription, start.                          *)
Runs(c) ==
  /\ Goes(c, "run", "started")
  /\ UNCHANGED <<cfg, reason, open, streams, consumers, faults>>

(* A request fails or times out.                                            *)
ServerFails(c) ==
  /\ \/ stage[c] \in {"stream", "consumer"}
     \/ stage[c] = "streams" /\ cfg[c].bootstrap.stream # {}
     \/ stage[c] = "consumers" /\ cfg[c].bootstrap.consumer # {}
  /\ faults < MaxFaults /\ faults' = faults + 1
  /\ Fails(c, "server")

(* The subscription of single mode fails.  stopWorkers then waits for the   *)
(* workers, whose context is not cancelled yet: a worker that reads r.jobs  *)
(* after it was reset keeps Start from returning (SingleReceiver).          *)
SubscriptionFails(c) ==
  /\ stage[c] = "run" /\ cfg[c].mode = "single"
  /\ faults < MaxFaults /\ faults' = faults + 1
  /\ \/ Fails(c, "server")
     \/ /\ cfg[c].workers > 0 /\ Goes(c, "run", "stuck")
        /\ UNCHANGED <<cfg, reason, open, streams, consumers>>

(* The host ends the context of such a Start, and with it the workers'.     *)
HostGivesUp(c) ==
  /\ stage[c] = "stuck" /\ UNCHANGED faults
  /\ Fails(c, "server")

Shutdown(c) ==
  /\ Goes(c, "started", "stopped") /\ open' = open \ {c}
  /\ UNCHANGED <<cfg, reason, streams, consumers, faults>>

(* A collector that failed to start has ended and is started again.         *)
Restart(c) ==
  /\ Goes(c, "failed", "stopped")
  /\ UNCHANGED <<cfg, reason, open, streams, consumers, faults>>

StartStep(c) ==
  \/ Connect(c) \/ EnsureStreams(c) \/ StreamsFail(c)
  \/ LookupStream(c) \/ StreamMissing(c)
  \/ EnsureConsumers(c) \/ ConsumersFail(c)
  \/ LookupConsumer(c) \/ ConsumerMissing(c) \/ Runs(c) \/ Restart(c)

Next == \E c \in Components :
  \/ StartStep(c) \/ Shutdown(c)
  \/ ConnectFails(c) \/ ServerFails(c) \/ SubscriptionFails(c) \/ HostGivesUp(c)

(* A start goes on and is repeated after a failure.  The host need not give *)
(* up a start that is stuck.                                                *)
Spec == Init /\ [][Next]_vars /\ \A c \in Components : WF_vars(StartStep(c))

------------------------------------------------------------------------------
Starting == {"streams", "stream", "consumers", "consumer", "run", "stuck"}

(* A connection is open exactly while its component starts or has started:  *)
(* whichever stage fails, none is left behind.                              *)
NoConnectionLeft == open = {c \in Components : stage[c] \in Starting \cup {"started"}}

Provisions(c, key) == \E b \in cfg[c].bootstrap.consumer : Key(c, b.name.text) = key

(* A receiver that provisions the consumer it uses runs on it as it is      *)
(* configured, whoever else starts or fails, unless another one provisions  *)
(* the same consumer.                                                       *)
RunsAsConfigured ==
  \A c \in Components : \A w \in cfg[c].bootstrap.consumer :
    /\ cfg[c].kind = "receiver"
    /\ stage[c] = "started" /\ Key(c, w.name.text) = Own(c)
    /\ \A d \in Components \ {c} : ~Provisions(d, Own(c))
    => {consumers[Own(c)]} = BuildConsumer(w)

(* Component c is refused nothing, now or later: all that provision its     *)
(* stream agree on the storage, and it provisions its consumer alone.       *)
Agreed(c) ==
  /\ ~cfg[c].stream.padded
  /\ \E d \in Components : \E s \in cfg[d].bootstrap.stream : s.name = cfg[c].stream
  /\ \A d \in Components : \A s \in cfg[d].bootstrap.stream :
       s.name.text = cfg[c].stream.text => \A built \in BuildStream(s) : ~StreamRefused(built)
  /\ \A d \in Components \ {c} : ~Provisions(d, Own(c))
  /\ \E w \in cfg[c].bootstrap.consumer :
       /\ w.name.text = cfg[c].consumer.text
       /\ \A b \in BuildConsumer(w) : ~NeedsStart(b) /\ ~ConsumerRefused(c, b)

(* A failed subscription may leave the start of c waiting for its workers.  *)
MayHang(c) == cfg[c].mode = "single" /\ cfg[c].workers > 0

(* A receiver whose stream somebody provisions, be it another collector     *)
(* that starts later, and that provisions its consumer, starts in the end:  *)
(* provisioning keeps it from nothing.  A start that is stuck, which only   *)
(* one with workers of its own can be, is past all of it.                   *)
ProvisionedStarts ==
  \A c \in Components :
    (cfg[c].kind = "receiver" /\ []Agreed(c)) ~>
      (stage[c] = "started" \/ (MayHang(c) /\ stage[c] = "stuck"))
==============================================================================
