-------------------------- MODULE JetStreamExporter --------------------------
(****************************************************************************)
(* The JetStream exporter (exporter/jetstreamexporter: exporter.go and      *)
(* subject.go) and the stream it publishes to.                              *)
(*                                                                          *)
(* Goroutines of the pipeline call ConsumeLogs and its siblings while the   *)
(* host starts and shuts the exporter down.  Start holds the mutex for as   *)
(* long as it connects and creates the streams; a call takes it only to     *)
(* read the client, and publishes after releasing it.                       *)
(*                                                                          *)
(* A publish is a message on the wire with a number of its own; it may be   *)
(* stored after the call that sent it gave up.  The server forgets the      *)
(* Msg-Id of a message when the duplicate window has passed.                *)
(* Encoding, compression and headers do not fail for a validated            *)
(* configuration and have no influence: the Msg-Id, a hash of subject and   *)
(* uncompressed payload, is that pair.                                      *)
(****************************************************************************)
EXTENDS Template, FiniteSets

CONSTANTS
  Calls,           \* the goroutines that call the exporter
  Subject,         \* subject
  SubjectPattern,  \* subject_pattern, parsed; <<>> when not set
  MaxStarts,       \* connections made (bound)
  MaxSends         \* messages published (bound)

ASSUME ExporterAssumption ==
  /\ IsFiniteSet(Calls)
  /\ MaxStarts \in Nat /\ MaxSends \in Nat

VARIABLES
  attr,       \* the attributes of every record
  msgID,      \* msg_id
  js,         \* the connection of e.js, or 0
  starting,   \* the connection of a Start in progress, which holds e.mu, or 0
  starts,     \* connections made so far
  open,       \* connections that are not closed
  call,       \* where each goroutine is, in consume and what it calls
  sends,      \* messages published so far
  wire,       \* messages on their way to the server
  acked,      \* acknowledgements on their way to a call that waits
  listening,  \* a stream of the server listens on the subjects
  stream,     \* the messages stored
  window,     \* the Msg-Ids the server remembers
  forgotten   \* the Msg-Ids it has ever forgotten

lifeVars == <<js, starting, starts, open>>
serverVars == <<listening, stream, window, forgotten>>
transportVars == <<sends, wire, acked>>
configVars == <<attr, msgID>>
exporterVars == <<configVars, lifeVars, call, transportVars, serverVars>>

Idle == [stage |-> "idle", payload |-> <<>>, subject |-> <<>>, client |-> 0, send |-> 0]

(* An operator named <Operator>_<Change> is a fault the properties are      *)
(* tried against.                                                           *)
MsgId_PerAttempt(subject, payload) == <<subject, payload, sends>>

(* msgIDHeaderValue.                                                        *)
MsgId(subject, payload) == <<subject, payload>>

ExporterInit ==
  /\ msgID \in BOOLEAN
  /\ js = 0 /\ starting = 0 /\ starts = 0 /\ open = {}
  /\ call = [c \in Calls |-> Idle]
  /\ sends = 0 /\ wire = {} /\ acked = {}
  /\ listening = TRUE /\ stream = {} /\ window = {} /\ forgotten = {}

------------------------------------------------------------------------------
(* Start and Shutdown, under the mutex.                                     *)

(* Start: connect returned; the streams are created next.                   *)
StartConnects ==
  /\ js = 0 /\ starting = 0 /\ starts < MaxStarts
  /\ starts' = starts + 1
  /\ starting' = starts' /\ open' = open \union {starts'}
  /\ UNCHANGED <<configVars, js, call, transportVars, serverVars>>

StartSucceeds ==
  /\ starting # 0
  /\ js' = starting /\ starting' = 0
  /\ UNCHANGED <<configVars, starts, open, call, transportVars, serverVars>>

StartFails_KeepsConnection ==
  /\ starting # 0
  /\ starting' = 0
  /\ UNCHANGED <<configVars, js, starts, open, call, transportVars, serverVars>>

(* EnsureBootstrapStreams returned an error.                                *)
StartFails ==
  /\ starting # 0
  /\ starting' = 0 /\ open' = open \ {starting}
  /\ UNCHANGED <<configVars, js, starts, call, transportVars, serverVars>>

Shutdown ==
  /\ starting = 0 /\ js # 0
  /\ js' = 0 /\ open' = open \ {js}
  /\ UNCHANGED <<configVars, starting, starts, call, transportVars, serverVars>>

------------------------------------------------------------------------------
(* One call.                                                                *)

(* The call returns; an acknowledgement that comes later finds nobody.      *)
Returns(c, result) ==
  call' = [call EXCEPT ![c] = [@ EXCEPT !.stage = result, !.client = 0]]

(* consume: the subject is resolved before anything else.                   *)
Consume(c, payload, header) ==
  LET subjects == ResolveSubject(Subject, SubjectPattern, attr, payload, header) IN
  /\ call[c].stage = "idle"
  /\ \/ /\ subjects = {}
        /\ Returns(c, "permanent")
     \/ \E s \in subjects :
          call' = [call EXCEPT ![c] = [Idle EXCEPT !.stage = "client",
                                         !.payload = payload, !.subject = s]]
  /\ UNCHANGED <<configVars, lifeVars, transportVars, serverVars>>

(* publishPayload: the client is read under the mutex.                      *)
ReadClient(c) ==
  /\ call[c].stage = "client" /\ starting = 0
  /\ IF js = 0
       THEN Returns(c, "retryable")
       ELSE call' = [call EXCEPT ![c].stage = "publish", ![c].client = js]
  /\ UNCHANGED <<configVars, lifeVars, transportVars, serverVars>>

(* PublishMsg on the client read before, which may be closed by now.        *)
Publish(c) ==
  /\ call[c].stage = "publish" /\ sends < MaxSends
  /\ IF call[c].client \in open
       THEN /\ sends' = sends + 1
            /\ wire' = wire \union {[send |-> sends', subject |-> call[c].subject,
                   payload |-> call[c].payload,
                   id |-> MsgId(call[c].subject, call[c].payload)]}
            /\ call' = [call EXCEPT ![c].stage = "wait", ![c].send = sends']
       ELSE Returns(c, "retryable") /\ UNCHANGED <<sends, wire>>
  /\ UNCHANGED <<configVars, lifeVars, acked, serverVars>>

PublishOk(c) ==
  /\ call[c].stage = "wait" /\ call[c].send \in acked
  /\ Returns(c, "ok") /\ acked' = acked \ {call[c].send}
  /\ UNCHANGED <<configVars, lifeVars, sends, wire, serverVars>>

PublishTimesOut_Permanent(c) ==
  /\ call[c].stage = "wait"
  /\ Returns(c, "permanent") /\ acked' = acked \ {call[c].send}
  /\ UNCHANGED <<configVars, lifeVars, sends, wire, serverVars>>

(* The context ends, or the connection is closed or lost, whatever became   *)
(* of the message: classifyPublishError takes that for retryable.           *)
PublishTimesOut(c) ==
  /\ call[c].stage = "wait"
  /\ Returns(c, "retryable") /\ acked' = acked \ {call[c].send}
  /\ UNCHANGED <<configVars, lifeVars, sends, wire, serverVars>>

(* ErrNoStreamResponse, after the client's own attempts: no stream listened *)
(* while the message was on its way, so it is not stored.  It is taken for  *)
(* permanent even if a stream will listen again.                            *)
PublishUnheard(c) ==
  /\ call[c].stage = "wait" /\ ~listening
  /\ \E m \in wire : m.send = call[c].send /\ wire' = wire \ {m}
  /\ Returns(c, "permanent")
  /\ UNCHANGED <<configVars, lifeVars, sends, acked, serverVars>>

(* ErrBadSubject, ErrAuthorization, ErrPermissionViolation, ErrInvalidMsg:  *)
(* refused before the message leaves.                                       *)
PublishRefused(c) ==
  /\ call[c].stage = "publish" /\ call[c].client \in open
  /\ Returns(c, "permanent")
  /\ UNCHANGED <<configVars, lifeVars, transportVars, serverVars>>

------------------------------------------------------------------------------
(* The server and the network.                                              *)

(* A message with a remembered Msg-Id is acknowledged and not stored.       *)
Store(m) ==
  /\ m \in wire /\ listening
  /\ wire' = wire \ {m}
  /\ acked' = acked \union ({m.send} \intersect
                       {call[c].send : c \in {d \in Calls : call[d].stage = "wait"}})
  /\ IF msgID /\ m.id \in window
       THEN UNCHANGED <<stream, window>>
       ELSE /\ stream' = stream \union {m}
            /\ window' = IF msgID THEN window \union {m.id} ELSE window
  /\ UNCHANGED <<configVars, lifeVars, call, sends, listening, forgotten>>

MessageLost(m) ==
  /\ m \in wire
  /\ wire' = wire \ {m}
  /\ UNCHANGED <<configVars, lifeVars, call, sends, acked, serverVars>>

WindowPasses(id) ==
  /\ id \in window
  /\ window' = window \ {id} /\ forgotten' = forgotten \union {id}
  /\ UNCHANGED <<configVars, lifeVars, call, transportVars, listening, stream>>

(* The stream loses or regains its leader, or is deleted and created.       *)
ListeningChanges ==
  /\ listening' = ~listening
  /\ UNCHANGED <<configVars, lifeVars, call, transportVars, stream, window, forgotten>>

Lifecycle == StartConnects \/ StartSucceeds \/ StartFails \/ Shutdown

CallStep(c) ==
  \/ ReadClient(c) \/ Publish(c) \/ PublishOk(c)
  \/ PublishTimesOut(c) \/ PublishUnheard(c) \/ PublishRefused(c)

ServerStep ==
  \/ \E m \in wire : Store(m) \/ MessageLost(m)
  \/ \E id \in window : WindowPasses(id)
  \/ ListeningChanges

Results == {"ok", "retryable", "permanent"}

------------------------------------------------------------------------------
(* Properties.                                                              *)

(* A call that failed for good did not store its message and will not: the  *)
(* receiver may discard it without leaving a copy behind (exporter.go:268). *)
PermanentNeverStored ==
  \A c \in Calls : call[c].stage = "permanent" =>
    \A m \in wire \union stream : m.send # call[c].send

(* Connections are those of the exporter or of the Start in progress: a     *)
(* failed Start and a Shutdown leave none open, and the client of a started *)
(* exporter is never a closed one (exporter.go:101, 131).                   *)
ConnectionsAccounted ==
  open = {js, starting} \ {0}
==============================================================================
