---------------------------- MODULE ClientMetadata ---------------------------
(****************************************************************************)
(* The two processors that set client metadata, which travels with a call   *)
(* from component to component: processor/clientmetadataprocessor looks up  *)
(* configured attributes in a payload of log records and adds their values, *)
(* processor/clientmetadataselector adds one of a list of values.           *)
(* The keys of both are in the spelling of the configuration, beside those  *)
(* of the metadata they are added to.                                       *)
(*                                                                          *)
(* A result that may be an error is a set, empty for an error.              *)
(****************************************************************************)
EXTENDS CallMetadata, Naturals, Sequences

CONSTANT Width   \* the selector's counter is taken modulo this, 2^64 in the code

ASSUME WidthAssumption == Width \in Nat \ {0}

------------------------------------------------------------------------------
(* clientmetadata.  A record stands for itself and its resource, and has a  *)
(* value for some of the specs source:key.                                  *)

(* parseClientMetadataSpecs: a known source, a key, and no key twice in the *)
(* same spelling.                                                           *)
ValidSpecs(specs) ==
  /\ \A i \in DOMAIN specs :
       specs[i].source \in {"resource", "telemetry"} /\ specs[i].key.name # ""
  /\ \A i, j \in DOMAIN specs : specs[i].key = specs[j].key => i = j

SpecValues(payload, spec) ==
  {payload[i][spec] : i \in {i \in DOMAIN payload : spec \in DOMAIN payload[i]}}

(* Operators named <Operator>_<Change> are faults the properties are tried  *)
(* against.                                                                 *)
ResolveClientMetadataValue_First(values) == values

(* The one value the records have, of those that have any.                  *)
ResolveClientMetadataValue(values) == {v \in values : \A other \in values : other = v}

(* An entry for every spec, or a permanent error.                           *)
ResolveClientMetadata(specs, payload) ==
  LET found(i) == ResolveClientMetadataValue(SpecValues(payload, specs[i]))
      index(key) == CHOOSE i \in DOMAIN specs : specs[i].key = key
      keys == {specs[i].key : i \in DOMAIN specs}
  IN IF \E i \in DOMAIN specs : found(i) = {}
       THEN {}
       ELSE {[key \in keys |-> CHOOSE v \in found(index(key)) : TRUE]}

(* What was received, overwritten by the entries in the same spelling.      *)
AddClientMetadata(received, entries) ==
  IF entries = NoMetadata
    THEN {received}
    ELSE NewMetadata([key \in DOMAIN received \union DOMAIN entries |->
           IF key \in DOMAIN entries THEN entries[key] ELSE received[key]])

(* The metadata a payload of logs may be sent on with.                      *)
ConsumeLogsMetadata(specs, payload, received) ==
  UNION {AddClientMetadata(received, entries) :
           entries \in ResolveClientMetadata(specs, payload)}

------------------------------------------------------------------------------
(* clientmetadataselector.                                                  *)

(* Config.Validate: the key and the values are not empty and the strategy   *)
(* is known.                                                                *)
ValidSelector(selector) ==
  /\ selector.key.name # ""
  /\ selector.values # <<>> /\ "" \notin {selector.values[i] : i \in DOMAIN selector.values}
  /\ selector.strategy \in {"", "round_robin", "random"}

Counts(selector) == selector.strategy # "random" /\ Len(selector.values) > 1

NextValues_OffByOne(selector, index) ==
  IF Counts(selector) THEN {(index % (Len(selector.values) - 1)) + 1}
                      ELSE DOMAIN selector.values

(* nextValue: the positions of the values it may return.                    *)
NextValues(selector, index) ==
  IF Counts(selector) THEN {(index % Len(selector.values)) + 1}
                      ELSE DOMAIN selector.values

(* The atomic counter after a call.                                         *)
NextIndex(selector, index) ==
  IF Counts(selector) THEN (index + 1) % Width ELSE index

(* addMetadata.                                                             *)
AddSelected(selector, received, value) ==
  NewMetadata([key \in DOMAIN received \union {selector.key} |->
    IF key = selector.key THEN value ELSE received[key]])
==============================================================================
