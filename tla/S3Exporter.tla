------------------------------ MODULE S3Exporter ------------------------------
(****************************************************************************)
(* The S3 exporter (exporter/s3exporter: exporter.go, template.go and the   *)
(* validation in config.go) and the bucket it writes to.                    *)
(*                                                                          *)
(* Goroutines of the pipeline call ConsumeLogs, also again after an error,  *)
(* while the host starts and shuts the exporter down.  Every call resolves  *)
(* the name of its object anew, with the time and the UUID of that moment.  *)
(* A PUT replaces an object of the same name.  It may be carried out after  *)
(* the caller gave up, and more than once, because the client repeats it;   *)
(* its answer may be lost.                                                  *)
(*                                                                          *)
(* Encoding does not fail for a validated configuration.                    *)
(****************************************************************************)
EXTENDS Template, FiniteSets

CONSTANTS
  Calls,       \* goroutines that call the exporter
  Payloads,    \* payloads, sequences of records
  Templates,   \* filename_template, parsed
  Extensions,  \* filename_extension
  Headers,     \* values of a header of the client
  Values,      \* the values of attributes
  Times,       \* what timefmt makes of each hour
  UUIDs,       \* what uuid.NewString answers, upload by upload
  MaxTime,     \* hours (bound)
  MaxStarts,   \* clients made (bound)
  MaxSends     \* uploads (bound)

Records == UNION {ToSet(payload) : payload \in Payloads}

(* Names are sequences of texts, and no UUID is answered twice.             *)
ASSUME S3Assumption ==
  /\ IsFiniteSet(Calls)
  /\ MaxTime \in Nat /\ MaxStarts \in Nat /\ MaxSends \in Nat
  /\ Payloads \subseteq Seq(Records)
  /\ Values \subseteq Seq(STRING) /\ Headers \subseteq Seq(Seq(STRING))
  /\ Extensions \subseteq Seq(STRING)
  /\ \A t \in Templates :
       t.parts \in Seq([literal : Seq(STRING), source : Seq(STRING), key : Seq(STRING)])
  /\ Times \in [0..MaxTime -> STRING]
  /\ UUIDs \in [1..MaxSends -> STRING] /\ IsInjective(UUIDs)

VARIABLES
  config,  \* template, uuid (filename_append_uuid), extension and gzip
  attr,    \* the attributes of every record
  now,     \* the hour, which timefmt formats
  started, \* e.client is set
  starts,  \* clients made so far
  call,    \* where each goroutine is
  sends,   \* uploads so far
  wire,    \* requests that may still be carried out
  answers, \* outcomes on their way to the client
  bucket,  \* the upload that each object has its content from
  done     \* uploads whose caller was told that they succeeded

clientVars == <<started, starts>>
bucketVars == <<wire, bucket>>
vars == <<config, attr, now, clientVars, call, sends, answers, bucketVars, done>>

Timefmt == <<"f">>
Idle == [stage |-> "idle", payload |-> <<>>, name |-> <<>>, send |-> 0]

(* Validate: credentials, compression and the template are looked at; what  *)
(* the name is made of is not.                                              *)
Validate(c) == c.template.ok

Init ==
  /\ config \in [template : Templates, uuid : BOOLEAN, extension : Extensions, gzip : BOOLEAN]
  /\ Validate(config)
  /\ attr \in [Records -> AttrMaps(Values)]
  /\ now = 0 /\ started = FALSE /\ starts = 0 /\ sends = 0
  /\ call = [c \in Calls |-> Idle]
  /\ wire = {} /\ answers = {} /\ bucket = <<>> /\ done = {}

------------------------------------------------------------------------------
(* The name of an object.                                                   *)

(* resolveKeyPrefixPart: headers may have several values, of which the      *)
(* first counts, the values of the records must agree.                      *)
KeyPart(p, payload, header) ==
  IF p.source = Timefmt
    THEN {<<Times[now]>>}
    ELSE ResolveValue(SourceValues(attr, payload, header, p.source), p.source # Header)

Prefix(payload, header) ==
  Resolve(config.template.parts, [i \in DOMAIN config.template.parts |->
    KeyPart(config.template.parts[i], payload, header)])

(* Operators named <Operator>_<Change> are faults the properties are tried  *)
(* against.                                                                 *)
UUID_OfExporter(send) == <<UUIDs[1]>>
UUID_Always(send) == <<UUIDs[send]>>

(* filename_append_uuid: another one for every call.                        *)
UUID(send) == IF config.uuid THEN <<UUIDs[send]>> ELSE <<>>

(* buildObjectName.                                                         *)
ObjectName(prefix, send) ==
  LET file == prefix \o UUID(send)
      dot == IF file # <<>> /\ config.extension # <<>> THEN <<".">> ELSE <<>>
  IN file \o dot \o config.extension \o (IF config.gzip THEN <<".gz">> ELSE <<>>)

------------------------------------------------------------------------------
(* Start and Shutdown.                                                      *)

(* A second Start of a started exporter does nothing.                       *)
Start ==
  /\ ~started /\ starts < MaxStarts
  /\ started' = TRUE /\ starts' = starts + 1
  /\ UNCHANGED <<config, attr, now, call, sends, answers, bucketVars, done>>

Shutdown ==
  /\ started
  /\ started' = FALSE
  /\ UNCHANGED <<config, attr, now, starts, call, sends, answers, bucketVars, done>>

TimePasses ==
  /\ now < MaxTime
  /\ now' = now + 1
  /\ UNCHANGED <<config, attr, clientVars, call, sends, answers, bucketVars, done>>

------------------------------------------------------------------------------
(* One call.                                                                *)

(* ConsumeLogs: the name is resolved first.                                 *)
ConsumeLogs(c, payload, header) ==
  /\ call[c].stage = "idle" /\ sends < MaxSends
  /\ IF Prefix(payload, header) = {}
       THEN /\ call' = [call EXCEPT ![c].stage = "permanent", ![c].payload = payload]
            /\ UNCHANGED sends
       ELSE \E prefix \in Prefix(payload, header) :
              /\ sends' = sends + 1
              /\ call' = [call EXCEPT ![c] =
                   [stage |-> "upload", payload |-> payload, send |-> sends',
                    name |-> ObjectName(prefix, sends')]]
  /\ UNCHANGED <<config, attr, now, clientVars, answers, bucketVars, done>>

(* classifyS3Error.  A cancelled context is handed back as it is, which     *)
(* callers take for retryable.                                              *)
Classify(outcome) ==
  CASE outcome \in {"SlowDown", "408", "429", "5xx", "net", "deadline", "other"} -> "retryable"
    [] outcome = "canceled" -> "canceled"
    [] outcome \in {"AccessDenied", "4xx"} -> "permanent"

Fails(c, outcome) == call' = [call EXCEPT ![c].stage = Classify(outcome)]

(* upload: the client is read under the mutex and used after releasing it.  *)
(* It sends no request for an empty name.                                   *)
Upload(c) ==
  /\ call[c].stage = "upload"
  /\ IF started /\ call[c].name # <<>>
       THEN /\ call' = [call EXCEPT ![c].stage = "wait"]
            /\ wire' = wire \union
                 {[send |-> call[c].send, name |-> call[c].name, payload |-> call[c].payload]}
       ELSE Fails(c, "other") /\ UNCHANGED wire
  /\ UNCHANGED <<config, attr, now, clientVars, sends, answers, bucket, done>>

(* The answer of the server to this upload.                                 *)
Answered(c) ==
  \E a \in answers :
    /\ call[c].stage = "wait" /\ a.send = call[c].send
    /\ answers' = {b \in answers : b.send # a.send}
    /\ IF a.outcome = "ok"
         THEN /\ call' = [call EXCEPT ![c].stage = "ok"]
              /\ done' = done \union {call[c].send}
         ELSE Fails(c, a.outcome) /\ UNCHANGED done
    /\ UNCHANGED <<config, attr, now, clientVars, sends, bucketVars>>

(* The context ends, or the connection fails, with or without the upload    *)
(* having been carried out.                                                 *)
NoAnswer(c) ==
  /\ call[c].stage = "wait"
  /\ \E outcome \in {"canceled", "deadline"} : Fails(c, outcome)
  /\ answers' = {b \in answers : b.send # call[c].send}
  /\ UNCHANGED <<config, attr, now, clientVars, sends, bucketVars, done>>

(* The exporter helper, or the receiver, may call again.                    *)
Returns(c) ==
  /\ call[c].stage \in {"ok", "retryable", "canceled", "permanent"}
  /\ call' = [call EXCEPT ![c] = Idle]
  /\ UNCHANGED <<config, attr, now, clientVars, sends, answers, bucketVars, done>>

------------------------------------------------------------------------------
(* The bucket.                                                              *)

Answer(m, outcome) ==
  answers' = answers \union
    IF \E c \in Calls : call[c].stage = "wait" /\ call[c].send = m.send
      THEN {[send |-> m.send, outcome |-> outcome]} ELSE {}

(* Carried out; an error of the server may come after that as well.  The    *)
(* request may be repeated by the client as long as it is on the wire.      *)
PutStored(m) ==
  /\ m \in wire
  /\ bucket' = [n \in DOMAIN bucket \union {m.name} |-> IF n = m.name THEN m ELSE bucket[n]]
  /\ wire' \in {wire, wire \ {m}}
  /\ \E outcome \in {"ok", "5xx"} : Answer(m, outcome)
  /\ UNCHANGED <<config, attr, now, clientVars, call, sends, done>>

PutRefused(m) ==
  /\ m \in wire
  /\ wire' = wire \ {m}
  /\ \E outcome \in {"SlowDown", "AccessDenied", "4xx"} : Answer(m, outcome)
  /\ UNCHANGED <<config, attr, now, clientVars, call, sends, bucket, done>>

RequestLost(m) ==
  /\ m \in wire
  /\ wire' = wire \ {m}
  /\ UNCHANGED <<config, attr, now, clientVars, call, sends, answers, bucket, done>>

CallStep(c) == Upload(c) \/ Answered(c) \/ NoAnswer(c) \/ Returns(c)

Next ==
  \/ Start \/ Shutdown \/ TimePasses
  \/ \E c \in Calls : CallStep(c)
  \/ \E c \in Calls, p \in Payloads, header \in Headers :
       ConsumeLogs(c, p, header)
  \/ \E m \in wire : PutStored(m) \/ PutRefused(m) \/ RequestLost(m)

Spec == Init /\ [][Next]_vars

------------------------------------------------------------------------------
(* Properties.                                                              *)

(* With a UUID what was uploaded stays: neither another call, nor a retry,  *)
(* nor a delayed or repeated request replaces an object whose caller was    *)
(* told of its success (exporter.go:304).                                   *)
KeptWithUUID ==
  config.uuid => \A d \in done : \E n \in DOMAIN bucket : bucket[n].send = d

(* The name does not depend on the time, the client or the call.            *)
NamedByRecords ==
  /\ ~config.uuid
  /\ \A i \in DOMAIN config.template.parts :
       config.template.parts[i].source \in {<<>>, Resource, Telemetry}

(* Without a UUID, and with a name that depends on the records only, a      *)
(* retry replaces the object of the attempt before it: a payload is stored  *)
(* once however many answers are lost (exporter.go:297, template.go:51).    *)
RetriesReplaceOwnObject ==
  NamedByRecords =>
    \A m, n \in DOMAIN bucket : m # n => bucket[m].payload # bucket[n].payload
==============================================================================
