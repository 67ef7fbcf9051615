----------------------------- MODULE CallMetadata -----------------------------
(****************************************************************************)
(* The metadata that travels with a call from component to component, as    *)
(* the processors that read and write it see it.  It belongs to the         *)
(* collector's client package and is outside the repository: its keys are   *)
(* kept in lower case.  A key is a name in a spelling, and "lower" is the   *)
(* spelling without an upper-case letter.                                   *)
(****************************************************************************)
EXTENDS FiniteSets

Lower(key) == [key EXCEPT !.spelling = "lower"]
NoMetadata == [key \in {} |-> ""]

(* client.NewMetadata: of several spellings of one key, the one that the    *)
(* iteration over the map meets last.                                       *)
NewMetadata(map) ==
  LET kept == {Lower(key) : key \in DOMAIN map} IN
  {f \in [kept -> {map[key] : key \in DOMAIN map}] :
     \A k \in kept : \E key \in DOMAIN map : Lower(key) = k /\ f[k] = map[key]}

(* The spellings under which a map has a key.                               *)
Spellings(map, key) == {k \in DOMAIN map : Lower(k) = Lower(key)}
==============================================================================
