------------------------------- MODULE RunFifo -------------------------------
(***************************************************************************)
(* What the hub's run queue promises (hub/server/hub-run-queue.ts): every  *)
(* session has a queue of accepted runs; one run at a time is taken from   *)
(* its head; a run that was taken is over when it ends or is interrupted   *)
(* and is never taken again.                                               *)
(***************************************************************************)
EXTENDS Sequences

CONSTANTS Sessions, RunIds, NoRun

VARIABLES
  waiting,  \* session -> the accepted runs, oldest first
  current,  \* session -> the run being executed, or NoRun
  accepted  \* the runs accepted so far

Init ==
  /\ waiting = [s \in Sessions |-> <<>>]
  /\ current = [s \in Sessions |-> NoRun]
  /\ accepted = {}

Accept(s, r) ==
  /\ r \notin accepted
  /\ accepted' = accepted \cup {r}
  /\ waiting' = [waiting EXCEPT ![s] = Append(@, r)]
  /\ UNCHANGED current

Begin(s) ==
  /\ current[s] = NoRun
  /\ waiting[s] # <<>>
  /\ current' = [current EXCEPT ![s] = Head(waiting[s])]
  /\ waiting' = [waiting EXCEPT ![s] = Tail(@)]
  /\ UNCHANGED accepted

\* The current runs of the sessions S are over.
Settle(S) ==
  /\ current' = [s \in Sessions |-> IF s \in S THEN NoRun ELSE current[s]]
  /\ UNCHANGED <<waiting, accepted>>

Next ==
  \/ \E s \in Sessions : Begin(s) \/ \E r \in RunIds : Accept(s, r)
  \/ \E S \in SUBSET Sessions : Settle(S)

Spec == Init /\ [][Next]_<<waiting, current, accepted>>
=============================================================================
