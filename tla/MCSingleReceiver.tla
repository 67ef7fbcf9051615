--------------------------- MODULE MCSingleReceiver ---------------------------
(****************************************************************************)
(* Instances of SingleReceiver for TLC.                                     *)
(****************************************************************************)
EXTENDS SingleReceiver, TLC

CONSTANT Healthy   \* messages the pipeline does not refuse forever

FairSpec == Spec /\ ReceiverFairness
LiveSpec == Spec /\ ReceiverFairness /\ DeliveryFairness(Healthy)

(* A message the pipeline can take is settled while the receiver runs.      *)
HealthyMessagesSettled == HealthySettled(Healthy)

Symmetry == Permutations(Workers) \union Permutations(Copies)
==============================================================================
