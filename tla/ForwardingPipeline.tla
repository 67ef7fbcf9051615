-------------------------- MODULE ForwardingPipeline --------------------------
(****************************************************************************)
(* A pipeline from stream to stream: the receiver, a partition processor,   *)
(* one of the processors that set client metadata, and the JetStream        *)
(* exporter.                                                                *)
(*                                                                          *)
(* The receiver is reduced to what AtLeastOnce promises: a worker delivers  *)
(* one unsettled message, or in batch mode several merged into one payload; *)
(* a message may be with several workers, since AckWait expires at any      *)
(* time.  Its answer is the first error of the processors: nil settles the  *)
(* messages unless the Ack is lost, a permanent error discards them, any    *)
(* other error leaves them for another delivery.                            *)
(*                                                                          *)
(* The selector stands in front of the partition processor and advances     *)
(* once per delivery; clientmetadata stands behind it and takes its value   *)
(* from the part.  The subject pattern of the exporter uses that header.    *)
(****************************************************************************)
EXTENDS JetStreamExporter, Partition, ClientMetadata

CONSTANTS
  Msgs,           \* the messages of the source stream
  Content,        \* the records of each, a sequence
  Values,         \* the values of attributes
  Selector,       \* the configuration of the selector
  MaxTries        \* deliveries of a message (bound)

Records == UNION {ToSet(Content[m]) : m \in Msgs}

ASSUME PipelineAssumption ==
  /\ IsFiniteSet(Msgs)
  /\ Content \in [Msgs -> Seq(Records)]
  /\ Values \subseteq Seq(STRING)
  /\ ValidSelector(Selector)
  /\ MaxTries \in Nat

VARIABLES
  config,     \* the partition processor
  headerFrom, \* "selector" or "attribute" (clientmetadata)
  merges,     \* batch mode
  next,       \* the selector's counter
  tries,      \* deliveries of each message
  settled,    \* "no", "acked" or "termed", for each message
  work        \* what each worker has in its call

sourceVars == <<config, headerFrom, merges, next, tries, settled, work>>
vars == <<exporterVars, sourceVars>>

Free == [msgs |-> {}, header |-> <<>>, parts |-> <<>>]

Init ==
  /\ ExporterInit
  /\ attr \in [Records -> AttrMaps(Values)] /\ config \in Configs
  /\ headerFrom \in {"selector", "attribute"} /\ merges \in BOOLEAN
  /\ next = 0
  /\ tries = [m \in Msgs |-> 0] /\ settled = [m \in Msgs |-> "no"]
  /\ work = [c \in Calls |-> Free]

(* Messages merged in some fixed order (buildBatchLogsExportRequest).       *)
Merged(S) == FlattenSeq([i \in 1..Cardinality(S) |-> Content[SetToSeq(S)[i]]])

Settle(S, how) ==
  settled' = [m \in Msgs |-> IF m \in S /\ settled[m] = "no" THEN how ELSE settled[m]]

(* The values the selector may send its key on with, for a delivery that    *)
(* has no metadata yet.                                                     *)
Selected ==
  {out[Lower(Selector.key)] : out \in UNION {AddSelected(Selector, NoMetadata, Selector.values[i]) :
                                                i \in NextValues(Selector, next)}}

(* Messages reach a worker and are split; nothing is forwarded of a payload *)
(* with a record that must not lack a value.                                *)
DeliverMessages(c, S) ==
  LET split == Split(config, attr, Merged(S)) IN
  /\ work[c] = Free /\ S # {} /\ (merges \/ Cardinality(S) = 1)
  /\ \A m \in S : settled[m] = "no" /\ tries[m] < MaxTries
  /\ tries' = [m \in Msgs |-> IF m \in S THEN tries[m] + 1 ELSE tries[m]]
  /\ next' = IF headerFrom = "selector" THEN NextIndex(Selector, next) ELSE next
  /\ CASE ~split.ok -> Settle(S, "termed") /\ UNCHANGED work
       [] split.ok /\ split.parts = <<>> -> Settle(S, "acked") /\ UNCHANGED work
       [] OTHER ->
            /\ \E header \in IF headerFrom = "selector" THEN {<<v>> : v \in Selected} ELSE {<<>>} :
                 work' = [work EXCEPT ![c] =
                   [msgs |-> S, parts |-> split.parts, header |-> header]]
            /\ UNCHANGED settled
  /\ UNCHANGED <<exporterVars, config, headerFrom, merges>>

PartHeader_OfPayload(c) ==
  IF headerFrom = "selector"
    THEN {work[c].header}
    ELSE {<<v>> : v \in ResolveValue(AttrValues(attr, Merged(work[c].msgs), Telemetry), FALSE)}

(* resolveClientMetadata: the header of a part, or none.                    *)
PartHeader(c) ==
  IF headerFrom = "selector"
    THEN {work[c].header}
    ELSE {<<v>> : v \in ResolveClientMetadataValue(
                         ToSet(AttrValues(attr, Head(work[c].parts), Telemetry)))}

(* The next part goes down the pipeline.                                    *)
ForwardPart(c) ==
  /\ work[c] # Free
  /\ \E header \in PartHeader(c) : Consume(c, Head(work[c].parts), header)
  /\ UNCHANGED sourceVars

(* clientmetadata finds no value, or two: a permanent error.                *)
HeaderMissing(c) ==
  /\ work[c] # Free /\ call[c] = Idle /\ PartHeader(c) = {}
  /\ Settle(work[c].msgs, "termed")
  /\ work' = [work EXCEPT ![c] = Free]
  /\ UNCHANGED <<exporterVars, config, headerFrom, merges, next, tries>>

CallEnds(c, result) ==
  /\ call[c].stage = result
  /\ call' = [call EXCEPT ![c] = Idle]
  /\ UNCHANGED <<configVars, lifeVars, transportVars, serverVars>>
  /\ UNCHANGED <<config, headerFrom, merges, next, tries>>

PartTaken_AcksFirst(c) ==
  /\ CallEnds(c, "ok")
  /\ Settle(work[c].msgs, "acked")
  /\ work' = [work EXCEPT ![c] = IF Len(@.parts) = 1 THEN Free
                                   ELSE [@ EXCEPT !.parts = Tail(@)]]

(* A part was taken; behind the last one the messages are acknowledged, but *)
(* the Ack may be lost.                                                     *)
PartTaken(c) ==
  /\ CallEnds(c, "ok")
  /\ IF Len(work[c].parts) > 1
       THEN work' = [work EXCEPT ![c].parts = Tail(@)] /\ UNCHANGED settled
       ELSE /\ work' = [work EXCEPT ![c] = Free]
            /\ Settle(work[c].msgs, "acked") \/ UNCHANGED settled

(* A part failed: the parts behind it are not tried.                        *)
PartFails(c) ==
  /\ CallEnds(c, "retryable")
  /\ work' = [work EXCEPT ![c] = Free]
  /\ UNCHANGED settled

PartRefused(c) ==
  /\ CallEnds(c, "permanent")
  /\ work' = [work EXCEPT ![c] = Free]
  /\ Settle(work[c].msgs, "termed")

WorkerStep(c) ==
  \/ \E S \in SUBSET Msgs : DeliverMessages(c, S)
  \/ ForwardPart(c) \/ HeaderMissing(c)
  \/ PartTaken(c) \/ PartFails(c) \/ PartRefused(c)

Next ==
  \/ \E c \in Calls : WorkerStep(c)
  \/ (\E c \in Calls : CallStep(c)) /\ UNCHANGED sourceVars
  \/ (Lifecycle \/ ServerStep) /\ UNCHANGED sourceVars

Spec == Init /\ [][Next]_vars

------------------------------------------------------------------------------
(* Properties.                                                              *)

Kept(m) == {r \in ToSet(Content[m]) : ~Lacks(config, attr[r])}
Stored == UNION {ToSet(m.payload) : m \in stream}
With(how) == {m \in Msgs : settled[m] = how}

(* End to end: whatever fails between the parts of a message, whoever else  *)
(* delivers it at the same time, the source forgets it as done only when    *)
(* all its records are in the target stream, and it is settled once         *)
(* (partitionbyattrs processor.go:55, exporter.go:260, receiver_single.go). *)
E == INSTANCE EndToEnd WITH
       owed <- [m \in Msgs |-> Kept(m)],
       delivered <- Stored \intersect UNION {Kept(m) : m \in Msgs},
       acknowledged <- With("acked"), discarded <- With("termed")

EndToEndDelivery == E!Spec

(* A partition processor over the attribute the subject depends on keeps    *)
(* every record on the subject of its own value, through retries, merged    *)
(* payloads and concurrent calls (README of partitionbyattrs: "useful for   *)
(* exporters that require homogeneous batches").                            *)
RecordsOnOwnSubject ==
  (headerFrom = "attribute" /\ config.by = <<Telemetry>>) =>
    \A m \in wire \union stream : \A r \in ToSet(m.payload) :
      Telemetry \in DOMAIN attr[r] /\ m.subject = attr[r][Telemetry]

(* Deduplication end to end: with msg_id, no merging and no rotation, a     *)
(* record is stored twice only after the server forgot its Msg-Id, however  *)
(* often its message is delivered and wherever it failed before: a retry    *)
(* sends the same parts on the same subjects (exporter.go:278).             *)
DuplicatesExplained ==
  (msgID /\ ~merges /\ headerFrom = "attribute") =>
    \A m, n \in stream :
      m # n /\ ToSet(m.payload) \intersect ToSet(n.payload) # {} =>
        \E id \in forgotten : id[1] \in {m.subject, n.subject}
==============================================================================
