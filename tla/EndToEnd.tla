------------------------------- MODULE EndToEnd -------------------------------
(****************************************************************************)
(* What a pipeline from one stream to another promises about the records of *)
(* a message: the source forgets the message as done only when every record *)
(* the pipeline is configured to keep has been delivered, and what was      *)
(* delivered or forgotten stays so.                                         *)
(****************************************************************************)
VARIABLES
  owed,          \* the records to be delivered, of each message
  delivered,     \* records delivered at least once
  acknowledged,  \* messages forgotten as done
  discarded      \* messages forgotten because the pipeline refused them

evars == <<owed, delivered, acknowledged, discarded>>

Unsettled == DOMAIN owed \ (acknowledged \union discarded)

Init == delivered = {} /\ acknowledged = {} /\ discarded = {}

Deliver(S) ==
  /\ delivered' = delivered \union S
  /\ UNCHANGED <<owed, acknowledged, discarded>>

Acknowledge(S) ==
  /\ S \subseteq Unsettled
  /\ \A m \in S : owed[m] \subseteq delivered
  /\ acknowledged' = acknowledged \union S
  /\ UNCHANGED <<owed, delivered, discarded>>

Discard(S) ==
  /\ S \subseteq Unsettled
  /\ discarded' = discarded \union S
  /\ UNCHANGED <<owed, delivered, acknowledged>>

Next ==
  \/ \E S \in SUBSET UNION {owed[m] : m \in DOMAIN owed} : Deliver(S)
  \/ \E S \in SUBSET DOMAIN owed : Acknowledge(S) \/ Discard(S)

Spec == Init /\ [][Next]_evars
==============================================================================
