------------------------ MODULE MCForwardingPipeline ------------------------
(****************************************************************************)
(* Instances of ForwardingPipeline for TLC.                                 *)
(****************************************************************************)
EXTENDS ForwardingPipeline, TLC

CONSTANTS m1, m2

NoSubject == <<>>
HeaderPattern == <<Placeholder(Header, <<"k">>)>>
TwoMessages == m1 :> <<1, 2>> @@ m2 :> <<3>>
MCValues == {<<"a">>, <<"b">>}
RoundRobin == [key |-> [name |-> "k", spelling |-> "lower"], strategy |-> "round_robin",
               values |-> <<<<"a">>, <<"b">>>>]

(* The records differ, agree, or one lacks the attribute.  With keys the    *)
(* two partition processors do the same.                                    *)
MCInit ==
  /\ Init /\ msgID
  /\ \A r \in Records :
       /\ Resource \notin DOMAIN attr[r]
       /\ r # 2 => attr[r] = [s \in {Telemetry} |-> <<"a">>]
  /\ (config.by = <<Telemetry>> /\ config.kind = "attrs") \/ config.by = <<>>
  /\ merges => headerFrom = "attribute" /\ config.by # <<>>

(* Two workers race for one message of two records, or one worker merges    *)
(* two messages and the exporter is not started again (bounds).             *)
MCNext ==
  /\ Next
  /\ ~merges => tries'[m2] = 0
  /\ merges => Cardinality({c \in Calls : work'[c] # Free}) <= 1 /\ starts' <= 1

MCSpec == MCInit /\ [][MCNext]_vars
Symmetry == Permutations(Calls)
==============================================================================
