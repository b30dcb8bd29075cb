----------------------------- MODULE MCCronSpecs -----------------------------
(* Small instances of CronSpecs for TLC.                                   *)
EXTENDS CronSpecs, TLC

CONSTANTS P1, P2, s1, s2

ProcSymmetry == Permutations(Procs)
=============================================================================
