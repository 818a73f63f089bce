------------------------------ MODULE MCHubPing ------------------------------
(* The hub with its clock on small instances. *)
EXTENDS HubPing
=============================================================================
