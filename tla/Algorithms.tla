------------------------------ MODULE Algorithms -----------------------------
(****************************************************************************)
(* The algorithms that keep no state between calls, each on every input up  *)
(* to a size, against what its result means.  A behaviour takes one of them *)
(* and makes its input larger, piece by piece: a pattern by a character, a  *)
(* payload by a record, a message by a delivery, a selector by a call.      *)
(****************************************************************************)
EXTENDS Partition, RetryDelay, ClientMetadata

CONSTANTS
  Chars,        \* the characters of patterns
  Sources,      \* the sources a placeholder may have
  MaxLength,    \* length of patterns (bound)
  PartValues,   \* the values of the attributes of records
  MaxRecords,   \* records of a payload (bound)
  Retries,      \* configurations of consume_retry
  MaxAttempts,  \* deliveries of a message (bound)
  SpecLists,    \* configurations of clientmetadata
  Labelled,     \* records, functions on the specs they have a value for
  Received,     \* client metadata that comes with a call
  Selectors,    \* configurations of clientmetadataselector
  MaxTaken      \* calls of a selector (bound)

(* Metadata that is received has its keys in lower case; specs and          *)
(* selectors write theirs as they like.                                     *)
ASSUME AlgorithmsAssumption ==
  /\ MaxLength \in Nat /\ MaxRecords \in Nat /\ MaxAttempts \in Nat /\ MaxTaken \in Nat
  /\ \A received \in Received : \A key \in DOMAIN received : key = Lower(key)
  /\ PartValues \subseteq Seq(STRING)
  /\ \A r \in Retries : /\ {r.initial, r.max} \subseteq -MaxDuration - 1..MaxDuration
                        /\ r.multiplier \in Floats \union {NaN}
  /\ \A s \in Selectors : s.values \in Seq(STRING)

VARIABLE input

AlgorithmsInit ==
  \/ input = [of |-> "template", pattern |-> <<>>]
  \/ \E c \in Configs : input = [of |-> "partition", config |-> c, attr |-> <<>>]
  \/ \E r \in Retries :
       ValidRetry(r) /\ input = [of |-> "retry", retry |-> r, attempt |-> 1]
  \/ \E s \in SpecLists, received \in Received :
       ValidSpecs(s) /\ input = [of |-> "metadata", specs |-> s, payload |-> <<>>,
                                 received |-> received]
  \/ \E s \in Selectors :
       ValidSelector(s) /\ input = [of |-> "selector", selector |-> s, index |-> 0, wraps |-> 0,
                                    taken |-> [i \in DOMAIN s.values |-> 0]]

Type(char) ==
  /\ input.of = "template" /\ Len(input.pattern) < MaxLength
  /\ input' = [input EXCEPT !.pattern = Append(@, char)]

AppendRecord(attrs) ==
  /\ input.of = "partition" /\ Len(input.attr) < MaxRecords
  /\ input' = [input EXCEPT !.attr = Append(@, attrs)]

Redeliver ==
  /\ input.of = "retry" /\ input.attempt < MaxAttempts
  /\ input' = [input EXCEPT !.attempt = @ + 1]

AppendLabelled(record) ==
  /\ input.of = "metadata" /\ Len(input.payload) < MaxRecords
  /\ input' = [input EXCEPT !.payload = Append(@, record)]

Take ==
  /\ input.of = "selector"
  /\ \E i \in NextValues(input.selector, input.index) :
       /\ input.taken[i] < MaxTaken
       /\ input' = [input EXCEPT !.taken[i] = @ + 1,
                      !.index = NextIndex(input.selector, @),
                      !.wraps = IF NextIndex(input.selector, input.index) <= input.index
                                  THEN @ + 1 ELSE @]

AlgorithmsNext ==
  \/ \E char \in Chars : Type(char)
  \/ \E attrs \in AttrMaps(PartValues) : AppendRecord(attrs)
  \/ \E record \in Labelled : AppendLabelled(record)
  \/ Redeliver \/ Take

AlgorithmsSpec == AlgorithmsInit /\ [][AlgorithmsNext]_input

------------------------------------------------------------------------------
(* Templates.                                                               *)

(* The text a part was written as.                                          *)
Written(part) ==
  IF part.source = <<>>
    THEN part.literal
    ELSE <<"$", "{">> \o part.source \o <<":">> \o part.key \o <<"}">>

(* The parts of an accepted pattern, written out, are the pattern: nothing  *)
(* of it is dropped or taken twice, also when text in a placeholder looks   *)
(* like another one.  Literals are not adjacent, not empty and hold no      *)
(* placeholder, sources are known and end at the first colon: the parts     *)
(* are the only reading of the pattern (template.go:19).                    *)
ParseReadsPattern ==
  input.of = "template" =>
  LET result == Parse(input.pattern, Sources)
      parts == result.parts
  IN result.ok =>
       /\ FlattenSeq([i \in DOMAIN parts |-> Written(parts[i])]) = input.pattern
       /\ \A i \in DOMAIN parts :
            IF parts[i].source = <<>>
              THEN /\ parts[i].literal # <<>>
                   /\ \A j \in DOMAIN parts[i].literal : ~Opens(parts[i].literal, j)
                   /\ i > 1 => parts[i - 1].source # <<>>
              ELSE /\ parts[i].source \in Sources /\ parts[i].key # <<>>
                   /\ "}" \notin ToSet(parts[i].key)

------------------------------------------------------------------------------
(* Partitions.                                                              *)

Parts == Split(input.config, input.attr, [i \in DOMAIN input.attr |-> i])
Unkeyed == input.config.kind = "attrs" /\ input.config.by = <<>>

(* The values of the record for the configured keys.                        *)
ValuesOf(r) == [i \in DOMAIN input.config.by |-> input.attr[r][input.config.by[i]]]
Included == {r \in DOMAIN input.attr : ~Lacks(input.config, input.attr[r])}

(* The parts are a partition of the records that have all values: none      *)
(* lost, none twice, no part empty, and the records of a part in the order  *)
(* of the payload; parts come in the order of their first records           *)
(* (README of partitionbyattrs: "Each record is assigned to exactly one     *)
(* partition key").  A payload is refused exactly when it has a record      *)
(* without a value and such records are not to be dropped                   *)
(* (processor.go:215, cel.go:84).                                           *)
PartsPartitionPayload ==
  input.of = "partition" =>
  LET parts == Parts.parts IN
    /\ Parts.ok <=> (Included = DOMAIN input.attr \/ input.config.missing = "drop" \/ Unkeyed)
    /\ Parts.ok =>
         /\ UNION {ToSet(parts[i]) : i \in DOMAIN parts} = Included
         /\ \A i \in DOMAIN parts : parts[i] # <<>>
         /\ \A i, j \in DOMAIN parts : \A k \in DOMAIN parts[i], l \in DOMAIN parts[j] :
              /\ i = j /\ k < l => parts[i][k] < parts[j][l]
              /\ i < j => parts[i][k] # parts[j][l] /\ parts[i][1] < parts[j][1]

(* Two records share a part exactly when their values are the same, even if *)
(* values contain the separator and the quotes of the key; without keys     *)
(* only the CEL processor puts records together (processor.go:92, cel.go:91;*)
(* README: "each downstream batch contains only one unique combination").   *)
OneCombinationPerPart ==
  input.of = "partition" =>
  LET parts == Parts.parts IN
    Parts.ok =>
      \A i, j \in DOMAIN parts : \A r \in ToSet(parts[i]), s \in ToSet(parts[j]) :
        IF Unkeyed THEN (i = j) <=> (r = s) ELSE (i = j) <=> (ValuesOf(r) = ValuesOf(s))

------------------------------------------------------------------------------
(* Delays.                                                                  *)

(* Whatever configuration is accepted and however often a message is        *)
(* delivered, its delay is not negative, not longer than the longest        *)
(* configured, and the next one is not shorter: neither the rounding of the *)
(* power and the product, nor the overflow, nor the conversion folds it     *)
(* over (config.go:120-128).  Only the second delay may be shorter than the *)
(* first, which is not rounded, and then by no more than the rounding of a  *)
(* first delay that is no floating point number.  A message whose number of *)
(* deliveries cannot be read waits as after its first delivery              *)
(* (receiver_single.go:158-161).                                            *)
DelaysGrowToMaximum ==
  input.of = "retry" =>
  LET retry == input.retry
      n == input.attempt
      delay(k) == ConsumeRetryDelay(retry, {k})
      rounded == Float(retry.initial) \div One
  IN /\ 0 <= delay(n)
     /\ \/ delay(n) <= delay(n + 1)
        \/ /\ retry.strategy = "exponential" /\ n = 1
           /\ rounded < retry.initial /\ rounded <= delay(2)
     /\ retry.strategy = "exponential" => delay(n) <= retry.max
     /\ ConsumeRetryDelay(retry, {}) = delay(1)

------------------------------------------------------------------------------
(* Client metadata.                                                         *)

(* A key of the metadata that is sent on has one spelling among what was    *)
(* received and the specs.                                                  *)
OneSpelling(specs, received, key) ==
  \A k \in DOMAIN received \union {specs[i].key : i \in DOMAIN specs} :
    Lower(k) = Lower(key) => k = key

(* What the metadata says of the records: the label of a spec is the value  *)
(* of every record that has one when its key has no other spelling, and     *)
(* otherwise what one of the spellings had; what was received under other   *)
(* keys is there.                                                           *)
LabelsHold(specs, payload, received, out) ==
  LET same(k, l) == Lower(k) = Lower(l) IN
  /\ \A n \in DOMAIN specs :
       IF OneSpelling(specs, received, specs[n].key)
         THEN \A i \in DOMAIN payload : specs[n] \in DOMAIN payload[i] =>
                out[Lower(specs[n].key)] = payload[i][specs[n]]
         ELSE \/ \E k \in DOMAIN received :
                   same(k, specs[n].key) /\ out[Lower(specs[n].key)] = received[k]
              \/ \E m \in DOMAIN specs :
                   /\ same(specs[m].key, specs[n].key)
                   /\ out[Lower(specs[n].key)] \in SpecValues(payload, specs[m])
  /\ \A k \in DOMAIN received :
       (\E n \in DOMAIN specs : same(specs[n].key, k)) \/ out[k] = received[k]

(* No record travels under a label that contradicts its own attribute, not  *)
(* even when the client sent that label itself, as long as the key of the   *)
(* spec is the only spelling of it; otherwise the label is any of those in  *)
(* its spellings, the client's among them, although README:34 has the       *)
(* configured key overwrite it (processor.go:106-113).  What came under     *)
(* other keys goes on.  A payload is refused if and only if its records     *)
(* have no value for a spec, or two: contrary to README:29 a record without *)
(* the value does not fail the export, and travels under the label of the   *)
(* others (processor.go:75, logs_values.go:26).                             *)
NoRecordMislabelled ==
  input.of = "metadata" =>
  LET sent == ConsumeLogsMetadata(input.specs, input.payload, input.received) IN
    /\ \A out \in sent : LabelsHold(input.specs, input.payload, input.received, out)
    /\ sent = {} <=> \E n \in DOMAIN input.specs :
         Cardinality(SpecValues(input.payload, input.specs[n])) # 1

(* Round robin is even: no value is taken more than once more than another, *)
(* and once more each time the shared counter wraps, which is no multiple   *)
(* of the number of values (processor.go:40).                               *)
TakenEvenly ==
  (input.of = "selector" /\ Counts(input.selector)) =>
    \A i, j \in DOMAIN input.taken : input.taken[i] - input.taken[j] <= 1 + input.wraps
==============================================================================
