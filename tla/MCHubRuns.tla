------------------------------ MODULE MCHubRuns ------------------------------
(* Small instances of HubRuns for TLC.                                     *)
EXTENDS HubRuns

CONSTANTS s1, c1
=============================================================================
