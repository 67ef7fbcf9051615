---------------------------- MODULE MCKubeMapping ----------------------------
(****************************************************************************)
(* Two mappings in a row, as in the processor's README: a header a selects  *)
(* an object with the value for B, and b another with the value for c.      *)
(* Clients may send either target, no a, and a b that spoils the selector.  *)
(****************************************************************************)
EXTENDS KubeMapping

Key(name) == [name |-> name, spelling |-> "lower"]
Upper(name) == [name |-> name, spelling |-> "upper"]

Chain ==
  <<[resource |-> "link", header |-> Key("a"), target |-> Upper("b")],
    [resource |-> "tenant", header |-> Key("b"), target |-> Key("c")]>>
Clients ==
  {Key("a") :> "x" @@ Key("c") :> "y", Key("a") :> "x" @@ Key("b") :> "=", Key("b") :> "x"}
ChainKeys == {<<"link", "x">>, <<"tenant", "x">>, <<"tenant", "">>}
Unparsable == {<<"tenant", "=">>}
AllLists == {<<"x">>, <<"null">>, <<"x", "x">>}

(* The link leads to x, and the second selector finds an object with x.     *)
ChainInit ==
  /\ Init /\ cacheMisses /\ (errorMode = "propagate" \/ ttl > 0)
  /\ objects = [key \in Keys |-> IF key[2] = "x" THEN <<"x">> ELSE <<"null">>]
ChainSpec == ChainInit /\ [][Next]_vars

Symmetry == Permutations(Calls)
==============================================================================
