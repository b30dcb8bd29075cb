---------------------------- MODULE CronRunQueue ----------------------------
(***************************************************************************)
(* The run queue of the automation subsystem: the cron_runs table of       *)
(* cron.db (cron/store/sqlite-cron-store.ts) and the runners that work it  *)
(* off (cron/runner/cron-runner.ts).  Several runners share one database:  *)
(* the hub's CronService and HubScheduleService each own a CronRunner, and *)
(* so may the CLI and other clients.  A runner leases a due run with a     *)
(* fresh claim token, executes it as an agent session, renews the lease    *)
(* while it works and completes the row under its token.                   *)
(*                                                                         *)
(* Granularity: one action is one SQLite transaction or one synchronous    *)
(* stretch of a runner between two awaits.  When runs are inserted         *)
(* (materializer, manual trigger, event ingress) is not decided here: an   *)
(* insert may come at any time, also right before a tick claims.           *)
(***************************************************************************)
EXTENDS Integers, FiniteSets

CONSTANTS
  Runners,      \* the CronRunner objects that share cron.db
  Specs,        \* the rows of cron_specs
  MaxParallel,  \* cron_specs.max_parallel of each spec
  Timeout,      \* cron_specs.timeout_seconds of each spec, 0 for none
  MaxConcurrency, \* globalMaxConcurrency
  ClaimLimit,   \* batch limit of claimDueRuns (25 in the code)
  Lease,        \* claimLeaseMs
  None,         \* no spec, no runner
  MaxRuns,      \* bound: rows ever inserted
  MaxClaims,    \* bound: claims ever made of one row
  MaxNow        \* bound: the clock

ASSUME ConstantsAssumption ==
  /\ MaxParallel \in [Specs -> Int]
  /\ Timeout \in [Specs -> Nat]
  /\ MaxConcurrency \in Int
  /\ ClaimLimit \in Nat \ {0}
  /\ Lease \in Nat \ {0}
  /\ MaxRuns \in Nat
  /\ MaxClaims \in Nat
  /\ MaxNow \in Nat
  /\ None \notin Specs \cup Runners

RunIds == 1 .. MaxRuns
\* A claim token is a random UUID: what matters is that no two claims share one.
Tokens == RunIds \X (1 .. MaxClaims)
NoToken == <<0, 0>>
RunOf(t) == t[1]

VARIABLES
  now,    \* the clock, shared by all processes
  specs,  \* spec -> "enabled", "disabled" or "removed"
  runs,   \* cron_runs: run id (also its rowid) -> row
  claims, \* run id -> number of claims made so far (the source of fresh tokens)
  exec,   \* claim token -> the executeClaim call that works for this claim
  active, \* runner -> its activeRuns map, run id -> claim token
  mode    \* runner -> "up", "stopping" or "down"

vars == <<now, specs, runs, claims, exec, active, mode>>

Settled == {"done", "failed", "cancelled"}
Row == [spec : Specs \cup {None},
        status : {"absent", "queued", "running"} \cup Settled,
        due : Nat,                       \* scheduled_for
        token : Tokens \cup {NoToken},   \* claim_token
        until : Nat,                     \* claim_until_at
        attempts : Nat,                  \* attempt_count
        session : Tokens \cup {NoToken}, \* session_id, named by the claim that opened it
        report : Tokens \cup {NoToken}]  \* report_path, named by the claim that wrote it

NoRow == [spec |-> None, status |-> "absent", due |-> 0, token |-> NoToken,
          until |-> 0, attempts |-> 0, session |-> NoToken, report |-> NoToken]

(***************************************************************************)
(* One executeClaim call.  pc: "claimed" (returned by claimDueRuns, not    *)
(* yet entered), "preparing", "starting", "sending" (awaiting the request, *)
(* the session, the turn), "cleanup" (catch: awaiting cleanupSession),     *)
(* "reporting" (row completed, report not attached), "closing" (finally:   *)
(* awaiting cleanupSession), "ended", "released" (requeued unexecuted),    *)
(* "dead" (its process crashed).                                           *)
(***************************************************************************)
Exec == [pc : {"unused", "claimed", "preparing", "starting", "sending", "cleanup",
               "reporting", "closing", "ended", "released", "dead"},
         runner : Runners \cup {None},
         abort : {"no", "cancelled", "timeout"},  \* reason of controller.abort
         sess : {"none", "starting", "open", "closed", "late"},
         hb : BOOLEAN,                            \* lease heartbeat interval set
         deadline : Nat]                          \* 0: no deadline

Awaiting == {"preparing", "starting", "sending"}
Working == Awaiting \cup {"cleanup"}
InFlight == Working \cup {"claimed", "reporting", "closing"}

TypeOK ==
  /\ now \in 0 .. MaxNow
  /\ specs \in [Specs -> {"enabled", "disabled", "removed"}]
  /\ runs \in [RunIds -> Row]
  /\ claims \in [RunIds -> 0 .. MaxClaims]
  /\ exec \in [Tokens -> Exec]
  /\ active \in [Runners -> [RunIds -> Tokens \cup {NoToken}]]
  /\ mode \in [Runners -> {"up", "stopping", "down"}]

NewExec(R, pc) == [pc |-> pc, runner |-> R, abort |-> "no", sess |-> "none",
                   hb |-> FALSE, deadline |-> 0]

\* A call that has returned; only a session request it abandoned is remembered.
Ended(e, pc, sess) ==
  IF sess = "starting" THEN [NewExec(e.runner, pc) EXCEPT !.sess = "starting"]
  ELSE NewExec(None, pc)

Init ==
  /\ now = 0
  /\ specs = [s \in Specs |-> "enabled"]
  /\ runs = [r \in RunIds |-> NoRow]
  /\ claims = [r \in RunIds |-> 0]
  /\ exec = [t \in Tokens |-> NewExec(None, "unused")]
  /\ active = [R \in Runners |-> [r \in RunIds |-> NoToken]]
  /\ mode = [R \in Runners |-> "up"]

-----------------------------------------------------------------------------
(* Clock and specs.                                                        *)

\* Time passes.  Nothing obliges a timer to fire first: the machine may sleep.
\* The synchronous stretch from claimDueRuns to the entry of executeClaim takes
\* no time.
Advance ==
  /\ now < MaxNow
  /\ \A t \in Tokens : exec[t].pc # "claimed"
  /\ now' = now + 1
  /\ UNCHANGED <<specs, runs, claims, exec, active, mode>>

\* Pausing and resuming a schedule, editing its file or restoring a deleted one.
ToggleSpec(s) ==
  /\ specs' = [specs EXCEPT ![s] = IF @ = "enabled" THEN "disabled" ELSE "enabled"]
  /\ UNCHANGED <<now, runs, claims, exec, active, mode>>

\* markSpecRemoved, then cancelQueuedRunsForSpec: running rows are left alone.
RemoveSpec(s) ==
  /\ specs[s] # "removed"
  /\ specs' = [specs EXCEPT ![s] = "removed"]
  /\ runs' = [r \in RunIds |->
                IF runs[r].spec = s /\ runs[r].status = "queued"
                THEN [runs[r] EXCEPT !.status = "cancelled"] ELSE runs[r]]
  /\ UNCHANGED <<now, claims, exec, active, mode>>

\* enqueueRun, as every caller uses it: scheduled_for is always given.  The
\* caller's check of the spec may be out of date when the row is inserted.
EnqueueRun(r, s, due) ==
  /\ runs[r].status = "absent"
  /\ \A q \in RunIds : q < r => runs[q].status # "absent"
  /\ runs' = [runs EXCEPT ![r] = [NoRow EXCEPT !.spec = s, !.status = "queued", !.due = due]]
  /\ UNCHANGED <<now, specs, claims, exec, active, mode>>

-----------------------------------------------------------------------------
(* The statements of the store.                                            *)

\* Plausible bugs (see "mutants" in PROJECT.json): failed rows are retried;
\* expired leases are not taken over.
BugClaimDueRetriesFailed(rs, r) ==
  rs[r].status \in {"queued", "failed"} /\ rs[r].due <= now
BugClaimDueQueuedOnly(rs, r) == rs[r].status = "queued" /\ rs[r].due <= now

\* The rows claimDueRuns may take: queued, or running under an expired lease.
ClaimDue(rs, r) ==
  /\ \/ rs[r].status = "queued"
     \/ rs[r].status = "running" /\ rs[r].until <= now
  /\ rs[r].due <= now

\* Bug: an expired lease still occupies its capacity.
BugLiveIgnoresExpiry(rs, r) == rs[r].status = "running"

Live(rs, r) == rs[r].status = "running" /\ rs[r].until > now
LiveRuns(rs) == {r \in RunIds : Live(rs, r)}
LiveRunsOf(rs, s) == {r \in LiveRuns(rs) : rs[r].spec = s}
AtLeastOne(n) == IF n < 1 THEN 1 ELSE n
Capacity == AtLeastOne(MaxConcurrency)
SpecCapacity(s) == AtLeastOne(MaxParallel[s])

\* ORDER BY scheduled_for, rowid
ClaimedBefore(rs, q, r) ==
  rs[q].due < rs[r].due \/ (rs[q].due = rs[r].due /\ q < r)

\* Bug: capacity is counted once, before the loop.
BugClaimBatchCountsOnce(rs, C) ==
  \A r \in {q \in RunIds : ClaimDue(rs, q)} :
    r \in C <=> /\ Cardinality(LiveRuns(rs)) < Capacity
                /\ Cardinality(LiveRunsOf(rs, rs[r].spec)) < SpecCapacity(rs[r].spec)

(***************************************************************************)
(* claimDueRuns takes, in that order, every due row that still finds       *)
(* capacity when its turn comes.  Capacity only shrinks inside the         *)
(* transaction, so the loop that re-selects the first eligible row and     *)
(* this single pass take the same rows.                                    *)
(***************************************************************************)
IsClaimBatch(rs, C) ==
  \A r \in {q \in RunIds : ClaimDue(rs, q)} :
    LET taken == {q \in C : ClaimedBefore(rs, q, r)}
    IN  r \in C <=>
          /\ Cardinality(taken) < ClaimLimit
          /\ Cardinality(LiveRuns(rs)) + Cardinality(taken) < Capacity
          /\ Cardinality(LiveRunsOf(rs, rs[r].spec))
               + Cardinality({q \in taken : rs[q].spec = rs[r].spec})
             < SpecCapacity(rs[r].spec)

ClaimedRow(row, t) ==
  [row EXCEPT !.status = "running", !.token = t, !.until = now + Lease,
              !.attempts = @ + 1, !.session = NoToken, !.report = NoToken]

\* Bug: the renewal forgets to add the lease.
BugRenewedWithoutLease(row) == [row EXCEPT !.until = now]

\* renewClaim: the token is the only condition, an expired lease is renewed too.
Renewed(row) == [row EXCEPT !.until = now + Lease]

Completed(row, status, session) ==
  [row EXCEPT !.status = status, !.token = NoToken, !.until = 0,
              !.session = IF session = NoToken THEN @ ELSE session]

\* Bugs: the attempt is not given back; it is given back twice.
BugRequeuedKeepsAttempt(row) ==
  [row EXCEPT !.status = "queued", !.token = NoToken, !.until = 0,
              !.session = NoToken, !.report = NoToken]
BugRequeuedReleasesTwice(row) ==
  [row EXCEPT !.status = "queued", !.token = NoToken, !.until = 0, !.attempts = @ - 2,
              !.session = NoToken, !.report = NoToken]

\* requeueRun with releaseAttempt
Requeued(row) ==
  [row EXCEPT !.status = "queued", !.token = NoToken, !.until = 0,
              !.attempts = IF @ > 0 THEN @ - 1 ELSE 0,
              !.session = NoToken, !.report = NoToken]

\* WHERE run_id = ? AND claim_token = ?
Holds(t) == runs[RunOf(t)].token = t

-----------------------------------------------------------------------------
(* Ticks: renew the local claims, then claim due work.                     *)

\* controller.abort: the first reason stays.
Aborted(ex, S, reason) ==
  [t \in Tokens |-> IF t \in S /\ ex[t].abort = "no"
                    THEN [ex[t] EXCEPT !.abort = reason] ELSE ex[t]]

LocalClaims(R) == {t \in Tokens : active[R][RunOf(t)] = t}

\* Bug: the tick does not renew before it claims.
BugTickDoesNotRenew(R) == runs

\* The rows after the renewals a tick starts with.
RenewLocalClaims(R) ==
  [r \in RunIds |-> IF \E t \in LocalClaims(R) : RunOf(t) = r /\ Holds(t)
                    THEN Renewed(runs[r]) ELSE runs[r]]

Tick(R) ==
  /\ mode[R] = "up"
  /\ \A t \in Tokens : exec[t].runner = R => exec[t].pc # "claimed"
  /\ LET renewed == RenewLocalClaims(R)
         checked == Aborted(exec, {t \in LocalClaims(R) : ~Holds(t)}, "cancelled")
     IN  \E C \in SUBSET {r \in RunIds : ClaimDue(renewed, r)} :
           /\ IsClaimBatch(renewed, C)
           /\ \A r \in C : claims[r] < MaxClaims
           /\ runs' = [r \in RunIds |->
                         IF r \in C THEN ClaimedRow(renewed[r], <<r, claims[r] + 1>>)
                         ELSE renewed[r]]
           /\ claims' = [r \in RunIds |-> IF r \in C THEN claims[r] + 1 ELSE claims[r]]
           /\ exec' = [t \in Tokens |->
                         IF RunOf(t) \in C /\ t[2] = claims[RunOf(t)] + 1
                         THEN NewExec(R, "claimed") ELSE checked[t]]
  /\ UNCHANGED <<now, specs, active, mode>>

\* The heartbeat of claim t.  On loss it aborts whatever activeRuns holds
\* for the run, which need not be the execution that owns the heartbeat.
Heartbeat(t) ==
  LET R == exec[t].runner
      r == RunOf(t)
      stopped == [exec EXCEPT ![t].hb = FALSE]
  IN  /\ exec[t].hb
      /\ exec[t].pc \in Working
      /\ IF Holds(t)
         THEN /\ runs' = [runs EXCEPT ![r] = Renewed(@)]
              /\ exec' = exec
         ELSE /\ exec' = Aborted(stopped, {active[R][r]}, "cancelled")
              /\ runs' = runs
      /\ UNCHANGED <<now, specs, claims, active, mode>>

-----------------------------------------------------------------------------
(* executeClaim.                                                           *)

DeadlineOf(s) == IF Timeout[s] > 0 THEN now + Timeout[s] ELSE 0

\* The synchronous entry: spec check, stop check, registration, timers.
Begin(t) ==
  LET R == exec[t].runner
      r == RunOf(t)
      s == runs[r].spec
  IN  /\ exec[t].pc = "claimed"
      /\ \/ /\ specs[s] # "enabled"
            /\ runs' = IF Holds(t) THEN [runs EXCEPT ![r] = Completed(@, "cancelled", NoToken)]
                       ELSE runs
            /\ exec' = [exec EXCEPT ![t] = Ended(@, "ended", "none")]
            /\ UNCHANGED active
         \/ /\ specs[s] = "enabled"
            /\ mode[R] = "stopping"
            /\ runs' = IF Holds(t) THEN [runs EXCEPT ![r] = Requeued(@)] ELSE runs
            /\ exec' = [exec EXCEPT ![t] = Ended(@, IF Holds(t) THEN "released" ELSE "ended", "none")]
            /\ UNCHANGED active
         \/ /\ specs[s] = "enabled"
            /\ mode[R] # "stopping"
            /\ exec' = [exec EXCEPT ![t] =
                           [@ EXCEPT !.pc = "preparing", !.hb = TRUE, !.deadline = DeadlineOf(s)]]
            /\ active' = [active EXCEPT ![R][r] = t]
            /\ UNCHANGED runs
      /\ UNCHANGED <<now, specs, claims, mode>>

Overdue(t) == exec[t].deadline # 0 /\ now >= exec[t].deadline

\* The deadline timer.
DeadlineFires(t) ==
  /\ exec[t].pc \in Working
  /\ Overdue(t)
  /\ exec[t].abort = "no"
  /\ exec' = [exec EXCEPT ![t].abort = "timeout"]
  /\ UNCHANGED <<now, specs, runs, claims, active, mode>>

\* buildStartRequest resolves; checkActive; startSession is called.
RequestBuilt(t) ==
  /\ exec[t].pc = "preparing"
  /\ exec[t].abort = "no"
  /\ exec' = IF Overdue(t) THEN [exec EXCEPT ![t].abort = "timeout"]
             ELSE [exec EXCEPT ![t] = [@ EXCEPT !.pc = "starting", !.sess = "starting"]]
  /\ UNCHANGED <<now, specs, runs, claims, active, mode>>

\* Bug: the session is attached by run id alone.
BugSessionAttachedById(t) ==
  /\ exec[t].pc = "starting"
  /\ exec[t].abort = "no"
  /\ runs' = [runs EXCEPT ![RunOf(t)].session = t]
  /\ exec' = [exec EXCEPT ![t].sess = "open", ![t].pc = "sending"]
  /\ UNCHANGED <<now, specs, claims, active, mode>>

\* startSession resolves in time; checkActive; the session is attached to
\* the row under the token, and the turn is sent only if that succeeds.
SessionStarted(t) ==
  LET r == RunOf(t)
      opened == [exec[t] EXCEPT !.sess = "open"]
  IN  /\ exec[t].pc = "starting"
      /\ exec[t].abort = "no"
      /\ \/ /\ Overdue(t)
            /\ exec' = [exec EXCEPT ![t] = [opened EXCEPT !.abort = "timeout"]]
            /\ UNCHANGED runs
         \/ /\ ~Overdue(t)
            /\ Holds(t) /\ runs[r].status = "running"
            /\ runs' = [runs EXCEPT ![r].session = t]
            /\ exec' = [exec EXCEPT ![t] = [opened EXCEPT !.pc = "sending"]]
         \/ /\ ~Overdue(t)
            /\ ~(Holds(t) /\ runs[r].status = "running")
            /\ exec' = [exec EXCEPT ![t] = [opened EXCEPT !.abort = "cancelled"]]
            /\ UNCHANGED runs
      /\ UNCHANGED <<now, specs, claims, active, mode>>

\* Bug: the response of a call that has returned is ignored.
BugLateStartIgnored(t) ==
  /\ exec[t].sess = "starting"
  /\ exec[t].abort # "no"
  /\ exec' = [exec EXCEPT ![t].sess = "late"]
  /\ UNCHANGED <<now, specs, runs, claims, active, mode>>

\* startSession resolves after the abort: the session is discarded at once.
LateStart(t) ==
  /\ exec[t].sess = "starting"
  /\ exec[t].abort # "no" \/ exec[t].pc = "ended"
  /\ exec' = [exec EXCEPT ![t] = IF @.pc = "ended" THEN Ended(@, "ended", "late")
                                 ELSE [@ EXCEPT !.sess = "late"]]
  /\ UNCHANGED <<now, specs, runs, claims, active, mode>>

\* The finally block of t: with a session still open it awaits its cleanup,
\* otherwise activeRuns.delete(runId) ends the call.
Leave(t, sess) ==
  IF sess = "open"
  THEN /\ exec' = [exec EXCEPT ![t] =
                     [@ EXCEPT !.pc = "closing", !.sess = sess, !.hb = FALSE]]
       /\ UNCHANGED active
  ELSE /\ exec' = [exec EXCEPT ![t] = Ended(@, "ended", sess)]
       /\ active' = [active EXCEPT ![exec[t].runner][RunOf(t)] = NoToken]

\* Bugs: the row is completed by its id alone; a superseded execution
\* reports all the same.
BugFinishById(t, status, sess) ==
  /\ runs' = [runs EXCEPT ![RunOf(t)] = Completed(@, status, t)]
  /\ exec' = [exec EXCEPT ![t] = [@ EXCEPT !.pc = "reporting", !.sess = sess]]
  /\ UNCHANGED <<now, specs, claims, active, mode>>
BugFinishAlwaysReports(t, status, sess) ==
  /\ runs' = IF Holds(t) THEN [runs EXCEPT ![RunOf(t)] = Completed(@, status, t)] ELSE runs
  /\ exec' = [exec EXCEPT ![t] = [@ EXCEPT !.pc = "reporting", !.sess = sess]]
  /\ UNCHANGED <<now, specs, claims, active, mode>>

\* completeRun under the token of t; on success the report is next,
\* otherwise the execution was superseded and leaves the row alone.
Finish(t, status, sess) ==
  /\ IF Holds(t)
     THEN /\ runs' = [runs EXCEPT ![RunOf(t)] =
                        Completed(@, status, IF sess \in {"open", "closed"} THEN t ELSE NoToken)]
          /\ exec' = [exec EXCEPT ![t] = [@ EXCEPT !.pc = "reporting", !.sess = sess]]
          /\ UNCHANGED active
     ELSE /\ Leave(t, sess)
          /\ UNCHANGED runs
  /\ UNCHANGED <<now, specs, claims, mode>>

\* Bug: no checkActive after the turn.
BugTurnFinishedUnchecked(t) ==
  /\ exec[t].pc = "sending"
  /\ Finish(t, "done", exec[t].sess)

\* The turn resolves.
TurnFinished(t) ==
  /\ exec[t].pc = "sending"
  /\ exec[t].abort = "no"
  /\ IF Overdue(t)
     THEN /\ exec' = [exec EXCEPT ![t].abort = "timeout"]
          /\ UNCHANGED <<now, specs, runs, claims, active, mode>>
     ELSE Finish(t, "done", exec[t].sess)

\* The awaited call throws without an abort: the catch block fails the run.
StepFails(t) ==
  /\ exec[t].pc \in Awaiting
  /\ exec[t].abort = "no"
  /\ Finish(t, "failed", IF exec[t].sess = "starting" THEN "none" ELSE exec[t].sess)

AbortStatus(t) == IF exec[t].abort = "cancelled" THEN "cancelled" ELSE "failed"

\* Bug: an aborted execution leaves without completing its row.
BugUnwindKeepsClaim(t) ==
  /\ exec[t].pc \in Awaiting
  /\ exec[t].abort # "no"
  /\ Leave(t, exec[t].sess)
  /\ UNCHANGED <<now, specs, runs, claims, mode>>

\* withCancellation or checkActive throws the abort reason into the catch block.
Unwind(t) ==
  /\ exec[t].pc \in Awaiting
  /\ exec[t].abort # "no"
  /\ IF exec[t].sess = "open"
     THEN /\ exec' = [exec EXCEPT ![t].pc = "cleanup"]
          /\ UNCHANGED <<now, specs, runs, claims, active, mode>>
     ELSE Finish(t, AbortStatus(t), exec[t].sess)

\* The catch block's cleanupSession returns (each call is bounded by a timeout).
CleanedUp(t) ==
  /\ exec[t].pc = "cleanup"
  /\ Finish(t, AbortStatus(t), "closed")

\* writeReport may fail; attachReportPathToRun names the row only by its id.
Report(t, written) ==
  /\ exec[t].pc = "reporting"
  /\ runs' = IF written THEN [runs EXCEPT ![RunOf(t)].report = t] ELSE runs
  /\ Leave(t, exec[t].sess)
  /\ UNCHANGED <<now, specs, claims, mode>>

\* The finally block's cleanupSession returns.
Closed(t) ==
  /\ exec[t].pc = "closing"
  /\ Leave(t, "closed")
  /\ UNCHANGED <<now, specs, runs, claims, mode>>

-----------------------------------------------------------------------------
(* Runner lifecycle.                                                       *)

\* Bug: stop() only waits.
BugStopDoesNotAbort(R) ==
  /\ mode[R] = "up"
  /\ mode' = [mode EXCEPT ![R] = "stopping"]
  /\ UNCHANGED <<now, specs, runs, claims, exec, active>>

\* stop(): no more ticks, every registered execution is aborted.  Inside a
\* tick it can only be called by code that the entry of an earlier claim of
\* the batch runs synchronously (the injected telemetry service).
Stop(R) ==
  /\ mode[R] = "up"
  /\ \/ \A t \in Tokens : exec[t].runner = R => exec[t].pc # "claimed"
     \/ \E t \in Tokens : exec[t].runner = R /\ exec[t].pc = "preparing"
  /\ mode' = [mode EXCEPT ![R] = "stopping"]
  /\ exec' = Aborted(exec, LocalClaims(R), "cancelled")
  /\ UNCHANGED <<now, specs, runs, claims, active>>

\* stop() resolves when every execution has settled.
Stopped(R) ==
  /\ mode[R] = "stopping"
  /\ \A t \in Tokens : exec[t].runner = R => exec[t].pc \notin InFlight
  /\ mode' = [mode EXCEPT ![R] = "down"]
  /\ UNCHANGED <<now, specs, runs, claims, exec, active>>

\* start(), in the same process or in a restarted one.
Start(R) ==
  /\ mode[R] = "down"
  /\ mode' = [mode EXCEPT ![R] = "up"]
  /\ UNCHANGED <<now, specs, runs, claims, exec, active>>

\* The process dies: its executions, sessions and maps go, the rows stay.
Crash(R) ==
  /\ mode[R] # "down"
  /\ mode' = [mode EXCEPT ![R] = "down"]
  /\ exec' = [t \in Tokens |->
                IF exec[t].runner = R /\ exec[t].pc \in InFlight
                THEN NewExec(None, "dead")
                ELSE IF exec[t].runner = R THEN Ended(exec[t], exec[t].pc, "none")
                ELSE exec[t]]
  /\ active' = [active EXCEPT ![R] = [r \in RunIds |-> NoToken]]
  /\ UNCHANGED <<now, specs, runs, claims>>

-----------------------------------------------------------------------------
Execute(t) ==
  \/ Begin(t) \/ RequestBuilt(t) \/ SessionStarted(t) \/ LateStart(t)
  \/ TurnFinished(t) \/ StepFails(t) \/ Unwind(t) \/ CleanedUp(t)
  \/ \E written \in BOOLEAN : Report(t, written)
  \/ Closed(t)

Next ==
  \/ Advance
  \/ \E s \in Specs : ToggleSpec(s) \/ RemoveSpec(s)
  \/ \E r \in RunIds, s \in Specs, due \in 0 .. MaxNow : EnqueueRun(r, s, due)
  \/ \E R \in Runners : Tick(R) \/ Stop(R) \/ Stopped(R) \/ Start(R) \/ Crash(R)
  \/ \E t \in Tokens : Heartbeat(t) \/ DeadlineFires(t) \/ Execute(t)

Spec == Init /\ [][Next]_vars

(***************************************************************************)
(* Fairness.  Microtasks of a process that is up keep running, and every   *)
(* await except the agent's own work is bounded: cleanupSession by         *)
(* CLEANUP_TIMEOUT_MS, reports are synchronous.  The properties that need  *)
(* more say so: TurnsEnd, that the runtime answers (request, session and   *)
(* turn resolve or reject), Polling, that time passes and the poll timer   *)
(* of a runner that is up keeps firing.                                    *)
(***************************************************************************)
Settling ==
  /\ \A t \in Tokens : /\ WF_vars(Begin(t))
                       /\ WF_vars(Unwind(t))
                       /\ WF_vars(CleanedUp(t))
                       /\ WF_vars(\E written \in BOOLEAN : Report(t, written))
                       /\ WF_vars(Closed(t))
  /\ \A R \in Runners : WF_vars(Stopped(R))

TurnsEnd ==
  \A t \in Tokens : WF_vars(RequestBuilt(t) \/ SessionStarted(t) \/ TurnFinished(t)
                            \/ StepFails(t)) /\ WF_vars(LateStart(t))

Polling == WF_vars(Advance) /\ \A R \in Runners : WF_vars(Tick(R))

FairSpec == Spec /\ Settling

-----------------------------------------------------------------------------
(* Safety, with any number of runners.                                     *)

\* A row is running exactly while it carries a claim token, that token is the
\* latest claim of the row, and the execution behind it has not returned: no
\* path out of executeClaim leaves its claim behind unless the process died
\* (completeRun and requeueRun on every exit of executeClaim).
ClaimsAreWorkedOn ==
  \A r \in RunIds :
    /\ runs[r].status = "running" <=> runs[r].token # NoToken
    /\ runs[r].token # NoToken =>
         /\ runs[r].token = <<r, claims[r]>>
         /\ exec[<<r, claims[r]>>].pc \in (InFlight \ {"reporting", "closing"}) \cup {"dead"}

\* The session recorded in a row was opened by the row's latest claim: a
\* superseded worker never writes its session over its successor's
\* (attachSessionIdToRun and completeRun are token-bound, a claim clears it).
SessionOfLatestClaim ==
  \A r \in RunIds : runs[r].session # NoToken => runs[r].session = <<r, claims[r]>>

\* A report is attached only to a settled row, and by the claim that settled
\* it, although attachReportPathToRun is not token-bound.
ReportOfLatestClaim ==
  \A r \in RunIds : runs[r].report # NoToken =>
    runs[r].status \in Settled /\ runs[r].report = <<r, claims[r]>>

\* What a row says of a run's session and report comes from its latest claim.
ResultsOfLatestClaim == SessionOfLatestClaim /\ ReportOfLatestClaim

\* attempt_count counts the claims that were really dispatched: a claim that
\* requeueRun released because the runner was stopping is not an attempt.
AttemptsCountDispatches ==
  \A r \in RunIds :
    runs[r].attempts =
      Cardinality({t \in Tokens : RunOf(t) = r /\ exec[t].pc \notin {"unused", "released"}})

\* A settled run stays settled: no late worker, stale lease, crash or restart
\* runs it again or changes its outcome, session or due time.
SettledIsFinal ==
  [][\A r \in RunIds : runs[r].status \in Settled =>
       runs'[r] = [runs[r] EXCEPT !.report = runs'[r].report]]_vars

\* A claim ends only because its own execution moved on or, after its lease
\* ran out, because another claim replaced it (the token in every WHERE clause).
ClaimEndsByOwnerOrExpiry ==
  [][\A t \in Tokens : Holds(t) /\ runs'[RunOf(t)].token # t =>
       \/ exec'[t].pc # exec[t].pc
       \/ runs[RunOf(t)].until <= now /\ claims'[RunOf(t)] = claims[RunOf(t)] + 1]_vars

\* Once aborted for a lost claim, a stop or its deadline, an execution never sends
\* a turn and never records the run as done.
AbortedNeverSucceeds ==
  [][\A t \in Tokens : exec[t].abort # "no" =>
       /\ exec[t].pc # "sending" => exec'[t].pc # "sending"
       /\ Holds(t) => runs'[RunOf(t)].status # "done"]_vars

-----------------------------------------------------------------------------
(* Safety that rests on a single runner.                                   *)

\* At most max_parallel (at least one) live leases per spec, and at most
\* maxConcurrency in the database (the counts in claimDueRuns).
CapacityRespected ==
  /\ Cardinality(LiveRuns(runs)) <= Capacity
  /\ \A s \in Specs : Cardinality(LiveRunsOf(runs, s)) <= SpecCapacity(s)

\* What holds of dispatched claims when one runner uses the database.
DispatchInv == TypeOK /\ AttemptsCountDispatches /\ CapacityRespected

\* No run is worked on by two executions that nobody has told to stop.
OneWorkerPerRun ==
  \A t, u \in Tokens :
    /\ RunOf(t) = RunOf(u) /\ t # u
    /\ exec[t].pc \in Awaiting /\ exec[t].abort = "no"
    => ~(exec[u].pc \in Awaiting /\ exec[u].abort = "no")

-----------------------------------------------------------------------------
(* Liveness.                                                               *)

\* An execution that stop() does not reach: an older one of the same run, superseded by another
\* runner in between, has returned since and deleted its entry (activeRuns.delete by run id).
Orphaned(R) ==
  \E t \in Tokens : /\ exec[t].runner = R /\ exec[t].pc \in Awaiting /\ exec[t].abort = "no"
                   /\ active[R][RunOf(t)] # t

\* stop() returns, even if the agent's turn never does: every execution it has to wait for was
\* aborted, or never dispatched, or was left without an entry because its run had gone to another
\* runner and come back; such a turn stop() waits for and does not abort.
StopReturns == \A R \in Runners : mode[R] = "stopping" ~> (mode[R] = "down" \/ Orphaned(R))

\* The bounds are in the way: a dead claim whose lease ends after MaxNow, or
\* whose row has used up MaxClaims, keeps its row and its capacity for good.
BeyondBounds ==
  \E r \in RunIds : /\ runs[r].status = "running"
                    /\ exec[runs[r].token].pc = "dead"
                    /\ runs[r].until > MaxNow \/ claims[r] = MaxClaims

\* If some runner eventually stays up, a queued run is eventually settled: its
\* turn comes once the work ahead of it has finished or lost its lease.
QueuedRunsSettle ==
  TurnsEnd /\ Polling /\ (\E R \in Runners : <>[](mode[R] = "up")) =>
    \A r \in RunIds : runs[r].status = "queued" ~> (runs[r].status \in Settled \/ BeyondBounds)

\* A session that starts after its run was given up is discarded.
LateSessionsDiscarded ==
  TurnsEnd =>
    \A t \in Tokens : (exec[t].sess = "starting" /\ exec[t].pc = "ended")
      ~> exec[t].sess # "starting"

\* A run that was given up, for a stop, a lost claim or its deadline, neither succeeds after all
\* nor leaves a session behind.
GivenUpForGood == AbortedNeverSucceeds /\ LateSessionsDiscarded
=============================================================================
