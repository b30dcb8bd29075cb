---------------------------- MODULE MCHubDaemon ----------------------------
(***************************************************************************)
(* Two client processes, of the builds 1 and 2, and the hub they find.     *)
(***************************************************************************)
EXTENDS HubDaemon

MCClients == {1, 2}

=============================================================================
