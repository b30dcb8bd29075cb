----------------------------- MODULE MCHubEvents -----------------------------
(* Small instances of HubEvents for TLC.                                   *)
EXTENDS HubEvents

CONSTANTS s1, s2, all
=============================================================================
