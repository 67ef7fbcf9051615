---------------------------- MODULE MCOpenBaoWatch ----------------------------
(* Three fields of one secret, as in the provider's README.                 *)
EXTENDS OpenBaoWatch

CONSTANTS endpoint, authorization, tenant, backend

MCSecretOf == [r \in Refs |-> backend]
==============================================================================
