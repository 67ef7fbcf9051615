------------------------------ MODULE Partition ------------------------------
(****************************************************************************)
(* How the partition processors split a payload                             *)
(* (processor/partitionbyattrsprocessor and processor/celpartitionprocessor *)
(* for logs, metrics and traces).                                           *)
(*                                                                          *)
(* The records are visited in order.  Each goes to the part of its key, the *)
(* quoted values joined by a bar; parts are in the order of their first     *)
(* records.  A CEL expression is modelled as the attribute it selects; its  *)
(* evaluation fails when the attribute is missing.  The metrics of a part   *)
(* are rebuilt around their data points, which changes their grouping into  *)
(* resources but neither the points nor their order.                        *)
(****************************************************************************)
EXTENDS Template

(* by: the sources of the key, in order.  missing: "error" (reject) or      *)
(* "drop".  kind: without keys, partitionbyattrs makes every record a part  *)
(* of its own, the CEL processor puts all of them into one.                 *)
Configs ==
  [kind : {"attrs", "cel"}, missing : {"error", "drop"},
   by : {<<>>, <<Resource>>, <<Telemetry>>, <<Resource, Telemetry>>}]

(* Operators named <Operator>_<Change> are faults the properties are tried  *)
(* against.                                                                 *)
Escaped(c) == IF c \in {"\"", "\\"} THEN <<"\\", c>> ELSE <<c>>

Quote_NoEscape(value) == <<"\"">> \o value \o <<"\"">>

(* strconv.Quote, on printable text.                                        *)
Quote(value) ==
  <<"\"">> \o FlattenSeq([i \in DOMAIN value |-> Escaped(value[i])]) \o <<"\"">>

Lacks(config, attrs) == \E i \in DOMAIN config.by : config.by[i] \notin DOMAIN attrs

(* The key of a record that lacks no attribute.                             *)
Key(config, attrs) ==
  FlattenSeq([i \in DOMAIN config.by |->
    (IF i > 1 THEN <<"|">> ELSE <<>>) \o Quote(attrs[config.by[i]])])

Failed == [ok |-> FALSE, parts |-> <<>>, index |-> <<>>]

(* A record without a value.                                                *)
Skip(config, state) == IF config.missing = "drop" THEN state ELSE Failed

(* The first record with its key.                                           *)
NewPart_FallsThrough(state, key, r) ==
  [state EXCEPT !.parts = Append(@, <<r, r>>), !.index = Append(@, key)]

NewPart(state, key, r) ==
  [state EXCEPT !.parts = Append(@, <<r>>), !.index = Append(@, key)]

(* A record whose key has a part: index is batchByKey, the keys in the      *)
(* order of their parts.                                                    *)
AddToPart(state, key, r) ==
  LET position == CHOOSE i \in DOMAIN state.index : state.index[i] = key IN
  [state EXCEPT !.parts[position] = Append(@, r)]

(* The loop body for one record.                                            *)
Visit(config, attrs, state, r) ==
  LET key == Key(config, attrs) IN
  IF Lacks(config, attrs)
    THEN Skip(config, state)
    ELSE IF key \in ToSet(state.index)
           THEN AddToPart(state, key, r)
           ELSE NewPart(state, key, r)

(* Without keys: each record by itself.                                     *)
SplitUnpartitioned(payload) ==
  [ok |-> TRUE, parts |-> [i \in DOMAIN payload |-> <<payload[i]>>], index |-> <<>>]

(* splitLogs and the loops of the CEL processor: a missing value fails the  *)
(* whole payload or drops the record.                                       *)
Split(config, attr, payload) ==
  LET state[i \in 0..Len(payload)] ==
        IF i = 0
          THEN [ok |-> TRUE, parts |-> <<>>, index |-> <<>>]
          ELSE IF state[i - 1].ok
            THEN Visit(config, attr[payload[i]], state[i - 1], payload[i])
            ELSE Failed
  IN IF config.kind = "attrs" /\ config.by = <<>>
       THEN SplitUnpartitioned(payload)
       ELSE state[Len(payload)]
==============================================================================
