---------------------------- MODULE MCBatchReceiver ----------------------------
(****************************************************************************)
(* Instances of BatchReceiver for TLC: up to four messages, two subjects.   *)
(****************************************************************************)
EXTENDS BatchReceiver, TLC

CONSTANTS
  m1, m2, m3, m4,  \* the messages
  s1, s2,          \* the subjects
  Healthy          \* messages whose calls do not fail forever

MCSubjectOf == [m \in Msgs |-> IF m \in {m3, m4} THEN s2 ELSE s1]

LiveSpec == Spec /\ ReceiverFairness /\ DeliveryFairness(Healthy)

(* Every message is settled while the receiver runs.                        *)
HealthyMessagesSettled == HealthySettled(Healthy)

Symmetry == Permutations(Workers) \union Permutations(Copies)
==============================================================================
