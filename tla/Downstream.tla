------------------------------ MODULE Downstream ------------------------------
(****************************************************************************)
(* The next consumer of the pipeline, as the receiver sees it: the call     *)
(* ConsumeLogs / ConsumeMetrics / ConsumeTraces / ConsumeProfiles returns   *)
(* nil, an error, or a permanent error (consumererror.IsPermanent).         *)
(*                                                                          *)
(* The receiver keeps no record of those calls.  The variables are          *)
(* histories, kept to relate what was settled to what the pipeline said.    *)
(****************************************************************************)
EXTENDS Naturals

CONSTANTS
  Recipients,   \* what can be offered: the messages of the stream
  Poison,       \* messages the pipeline can never take
  AcceptCap     \* acceptances per message told apart (bound)

VARIABLES
  offered,      \* messages passed to the pipeline in some call
  accepted,     \* times a call with the message returned nil, up to AcceptCap
  refused       \* messages in some call that returned a permanent error

downstreamVars == <<offered, accepted, refused>>

DownstreamInit ==
  /\ offered = {}
  /\ accepted = [m \in Recipients |-> 0]
  /\ refused = {}

Offer(S) ==
  /\ offered' = offered \union S
  /\ UNCHANGED <<accepted, refused>>

(* A call with a poisonous message in it never returns nil. *)
Accept(S) ==
  /\ S \intersect Poison = {}
  /\ accepted' = [m \in Recipients |->
                    IF m \in S /\ accepted[m] < AcceptCap
                      THEN accepted[m] + 1 ELSE accepted[m]]
  /\ UNCHANGED <<offered, refused>>

(* Only a poisonous message makes a call fail permanently, and the error    *)
(* is about the call: every message in it is refused.                       *)
Refuse(S) ==
  /\ S \intersect Poison # {}
  /\ refused' = refused \union S
  /\ UNCHANGED <<offered, accepted>>

DownstreamTypeOK ==
  /\ offered \subseteq Recipients
  /\ accepted \in [Recipients -> 0..AcceptCap]
  /\ refused \subseteq Recipients
==============================================================================
