----------------------------- MODULE AtLeastOnce -----------------------------
(****************************************************************************)
(* What the receivers promise about the messages of the stream, whatever    *)
(* their processing mode.                                                   *)
(*                                                                          *)
(* The pipeline takes or rejects a message any number of times, but never   *)
(* one that cannot be read.  The server forgets a message for good in one   *)
(* of two ways: acknowledged, only after the pipeline took it, or           *)
(* discarded, only after the pipeline rejected it or when it cannot be      *)
(* read.  A message that was neither is still owed.                         *)
(****************************************************************************)
CONSTANTS Messages, Bad

VARIABLES
  taken,         \* messages the pipeline took at least once
  rejected,      \* messages the pipeline refused for good at least once
  acknowledged,  \* messages forgotten as done
  discarded      \* messages forgotten as hopeless

avars == <<taken, rejected, acknowledged, discarded>>

Owed == Messages \ (acknowledged \union discarded)

Init == taken = {} /\ rejected = {} /\ acknowledged = {} /\ discarded = {}

Take(S) ==
  /\ S \intersect Bad = {}
  /\ taken' = taken \union S
  /\ UNCHANGED <<rejected, acknowledged, discarded>>

Reject(S) ==
  /\ S \intersect Bad = {}
  /\ rejected' = rejected \union S
  /\ UNCHANGED <<taken, acknowledged, discarded>>

Acknowledge(m) ==
  /\ m \in Owed \intersect taken
  /\ acknowledged' = acknowledged \union {m}
  /\ UNCHANGED <<taken, rejected, discarded>>

Discard(m) ==
  /\ m \in Owed \intersect (rejected \union Bad)
  /\ discarded' = discarded \union {m}
  /\ UNCHANGED <<taken, rejected, acknowledged>>

Next ==
  \/ \E S \in SUBSET Messages : Take(S) \/ Reject(S)
  \/ \E m \in Messages : Acknowledge(m) \/ Discard(m)

Spec == Init /\ [][Next]_avars
==============================================================================
