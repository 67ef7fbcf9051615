---------------------------- MODULE MCAlgorithms ----------------------------
(****************************************************************************)
(* The inputs of Algorithms for TLC.                                        *)
(****************************************************************************)
EXTENDS Algorithms, TLC

MCSources == {Resource}

(* a, a|a and a"|"a: the first two are told apart by the quotes only, the   *)
(* third by their escapes only.                                             *)
MCPartValues ==
  {<<"a">>, <<"a", "|", "a">>, <<"a", "\"", "|", "\"", "a">>}

(* Floating point numbers with four bits of significand, in eighths: from   *)
(* one half, with infinity at 4096.                                         *)
MCFloats == {4, 32768} \union {s * 2^e : s \in 8..15, e \in 0..11}
MCEven == {32768} \union {s * 2^e : s \in {8, 10, 12, 14}, e \in 0..11}

(* Multipliers 1/2, 1, 1 1/8, 3/2 and 3, infinite and not a number; first   *)
(* delays that are floating point numbers, and 17 and 19 that are rounded   *)
(* down and up; longest delays at and beyond, up to the largest duration.   *)
MCRetries ==
  [strategy : {"", "none", "constant", "exponential", "linear"},
   initial : {-1, 0, 1, 3, 17, 19}, max : {0, 3, 19, 20, 51, MaxDuration},
   multiplier : {4, 8, 9, 12, 24, Infinity, NaN}]

(* Keys of specs in both spellings, each alone, beside one another and      *)
(* beside what a client sends; no record has a value for all of them.       *)
MetadataKey(name) == [name |-> name, spelling |-> "lower"]
UpperKey(name) == [name |-> name, spelling |-> "upper"]
Tenant == [source |-> "resource", key |-> MetadataKey("tenant")]
UpperTenant == [source |-> "resource", key |-> UpperKey("tenant")]
Shard == [source |-> "telemetry", key |-> UpperKey("shard")]
OtherTenant == [source |-> "telemetry", key |-> MetadataKey("tenant")]
Nowhere == [source |-> "header", key |-> MetadataKey("tenant")]
MCSpecLists ==
  {<<>>, <<Tenant>>, <<Tenant, Shard>>, <<UpperTenant, Tenant>>, <<Tenant, OtherTenant>>, <<Nowhere>>}
MCLabelled ==
  UNION {[S -> {"a", "b"}] : S \in {{Tenant, Shard}, {UpperTenant, Tenant}, {Tenant}, {Shard}, {}}}
MCReceived ==
  UNION {[S -> {"a", "old"}] : S \in SUBSET {MetadataKey("tenant"), MetadataKey("shard")}}

MCSelectors ==
  [key : {MetadataKey("tenant")}, strategy : {"", "round_robin", "random", "least_loaded"},
   values : {<<>>, <<"a", "">>, <<"a">>, <<"a", "b">>, <<"a", "b", "c">>}]
==============================================================================
