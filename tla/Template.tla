------------------------------- MODULE Template -------------------------------
(****************************************************************************)
(* Templates of subjects and object names (pkg/template), and the values    *)
(* their placeholders ${source:key} stand for.                              *)
(*                                                                          *)
(* Text is a sequence of characters, because the properties depend on where *)
(* a placeholder ends and on which texts concatenation confuses.  A record  *)
(* is a log record, a data point or a span.  Its attributes, together with  *)
(* those of its resource, are a function on the sources it has a value for: *)
(* one key of each source is enough to have values that are equal,          *)
(* conflicting or missing.  A payload is the sequence of its records, in    *)
(* the order in which the code visits them; every resource has a record.    *)
(****************************************************************************)
EXTENDS Naturals, Sequences, SequencesExt

Literal(text) == [literal |-> text, source |-> <<>>, key |-> <<>>]
Placeholder(source, key) == [literal |-> <<>>, source |-> source, key |-> key]

Parsed(parts) == [ok |-> TRUE, parts |-> parts]
Invalid == [ok |-> FALSE, parts |-> <<>>]

(* strings.Index: the first of the positions, or 0 for none.                *)
First(positions) == IF positions = {} THEN 0 ELSE Min(positions)

(* strings.Cut: where the source of a placeholder ends.                     *)
Colon(raw) == First({j \in DOMAIN raw : raw[j] = ":"})

(* Operators named <Operator>_<Change> are faults the properties are tried  *)
(* against: text of one character is dropped.                               *)
TextBefore_OffByOne(pattern, i, start) ==
  IF start > i + 1 THEN <<Literal(SubSeq(pattern, i, start - 1))>> ELSE <<>>

(* The literal in front of a placeholder, when there is any.                *)
TextBefore(pattern, i, start) ==
  IF start > i THEN <<Literal(SubSeq(pattern, i, start - 1))>> ELSE <<>>

(* Where the first placeholder from position i opens, and where it closes. *)
Opens(text, j) == j < Len(text) /\ text[j] = "$" /\ text[j + 1] = "{"
Opening(pattern, i) == First({j \in i..Len(pattern) : Opens(pattern, j)})
Closing(pattern, i) ==
  First({j \in Opening(pattern, i) + 2..Len(pattern) : pattern[j] = "}"})

(* The loop body of Parse at position i; rest is what the loop makes of the *)
(* pattern behind the placeholder.                                          *)
ParseFrom(pattern, sources, i, rest) ==
  LET n == Len(pattern)
      start == Opening(pattern, i)
      end == Closing(pattern, i)
      raw == SubSeq(pattern, start + 2, end - 1)
      colon == Colon(raw)
      source == SubSeq(raw, 1, colon - 1)
      part == Placeholder(source, SubSeq(raw, colon + 1, Len(raw)))
  IN CASE i > n -> Parsed(<<>>)
       [] i <= n /\ start = 0 -> Parsed(<<Literal(SubSeq(pattern, i, n))>>)
       [] OTHER ->
            IF \/ end = 0
               \/ colon \in {0, 1, Len(raw)}
               \/ source \notin sources
               \/ ~rest.ok
              THEN Invalid
              ELSE Parsed(TextBefore(pattern, i, start) \o <<part>> \o rest.parts)

Parse(pattern, sources) ==
  LET from[i \in 1..Len(pattern) + 1] ==
        ParseFrom(pattern, sources, i, from[Closing(pattern, i) + 1])
  IN from[1]

------------------------------------------------------------------------------
(* Values.  A result is a set: one value, or none for an error.             *)

Resource == <<"r">>
Telemetry == <<"t">>
Header == <<"h">>

(* The attribute maps of a record and its resource, over a set of values.   *)
AttrMaps(values) ==
  UNION {[S -> values] : S \in SUBSET {Resource, Telemetry}}

(* ResourceValues, TelemetryValues: those of the records that have one, by  *)
(* the positions of the records in the payload.                             *)
AttrValues(attr, payload, source) ==
  [i \in {i \in DOMAIN payload : source \in DOMAIN attr[payload[i]]} |-> attr[payload[i]][source]]

(* HeaderValues are the metadata of the client, the others are looked up.   *)
SourceValues(attr, payload, header, source) ==
  IF source = Header THEN header ELSE AttrValues(attr, payload, source)

(* ResolveValue: a stable placeholder must not have two values.             *)
ResolveValue(values, stable) ==
  LET first == Min(DOMAIN values) IN
  IF DOMAIN values = {} \/ (stable /\ \E i \in DOMAIN values : values[i] # values[first])
    THEN {}
    ELSE {values[first]}

(* Resolve: the text of every part, or an error of one of them; values[i]   *)
(* is what the placeholder i stands for.                                    *)
Resolve(parts, values) ==
  LET text[i \in 0..Len(parts)] ==
        IF i = 0
          THEN {<<>>}
          ELSE {done \o more : done \in text[i - 1],
                  more \in IF parts[i].source = <<>> THEN {parts[i].literal}
                                                     ELSE values[i]}
  IN text[Len(parts)]

(* resolveSubject: a fixed subject, or the template's; every placeholder    *)
(* of a subject is stable.                                                  *)
ResolveSubject(fixed, parts, attr, payload, header) ==
  IF parts = <<>>
    THEN {fixed} \ {<<>>}
    ELSE Resolve(parts, [i \in DOMAIN parts |->
           ResolveValue(SourceValues(attr, payload, header, parts[i].source), TRUE)])
==============================================================================
