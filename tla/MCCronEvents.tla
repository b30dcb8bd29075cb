---------------------------- MODULE MCCronEvents ----------------------------
(***************************************************************************)
(* Three events of two dedupe keys, and one spec that asks for any of some *)
(* combinations of debounce, dedupe window and cooldown.                   *)
(***************************************************************************)
EXTENDS CronEvents

MCEvents == {1, 2, 3}
MCKeys == {"k1", "k2"}
MCSpecs == {"s1"}
MCKeysOfEvents == {<<"k1", "k1", "k1">>, <<"k1", "k1", "k2">>, <<"k1", "k2", "k1">>}
MCConfs ==
  {[debounce |-> 1, window |-> 0, cooldown |-> 0], [debounce |-> 1, window |-> 2, cooldown |-> 0],
   [debounce |-> 0, window |-> 2, cooldown |-> 0], [debounce |-> 0, window |-> 0, cooldown |-> 2]}

=============================================================================
