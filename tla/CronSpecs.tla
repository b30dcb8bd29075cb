------------------------------ MODULE CronSpecs ------------------------------
(***************************************************************************)
(* The schedules kept in cron_specs and the rows they put into cron_runs:  *)
(* creation, edits, pause, resume, deletion and manual triggering of hub   *)
(* schedules (cron/store/sqlite-cron-store.ts, service/schedule-service.ts)*)
(* and the materializer of every tick (cron/runner/cron-materializer.ts).  *)
(*                                                                         *)
(* A one-time schedule (kind "one_off") is to run once, at its runAt; an   *)
(* edit that matters, or resuming it, makes a new revision that runs anew. *)
(* A recurring one (kind "schedule") queues one run when next_run_at has   *)
(* passed, however many slots were missed.                                 *)
(*                                                                         *)
(* Granularity: one action is one SQL statement or transaction wherever a  *)
(* later statement relies on what an earlier one read, because processes   *)
(* that share cron.db interleave there.  JavaScript keeps the statements   *)
(* of one process in order: a process is "idle" or within one such block.  *)
(* How a queued run is leased and executed is the matter of CronRunQueue;  *)
(* here it starts at some time after it is due, and ends.                  *)
(***************************************************************************)
EXTENDS Integers, FiniteSets

CONSTANTS
  Procs,     \* processes that share cron.db
  Schedules, \* schedule ids
  Kinds,     \* the kinds of schedule users create: "one_off", "schedule"
  Period,    \* distance between two slots of a recurring schedule
  ListLimit, \* LIMIT of listSpecs (500 in the code)
  MayCrash,  \* whether processes die
  MaxRuns,   \* bound: rows of cron_runs
  MaxRev,    \* bound: revisions of a schedule
  MaxNow     \* bound: the clock

ASSUME ConstantsAssumption ==
  /\ Kinds \subseteq {"one_off", "schedule"}
  /\ IsFiniteSet(Schedules)
  /\ {Period, ListLimit, MaxRev, MaxNow} \subseteq Nat \ {0}
  /\ MayCrash \in BOOLEAN
  /\ MaxRuns \in Nat

RunIds == 1 .. MaxRuns
Null == 0  \* SQL NULL of a time; the clock starts at 1

VARIABLES
  now,   \* the clock
  spec,  \* cron_specs: schedule id -> row
  runs,  \* cron_runs: run id (also its rowid) -> row
  proc   \* process -> the block of statements it is in

vars == <<now, spec, runs, proc>>

\* rev = 0: not created.  at: the runAt of a one-time schedule's metadata.  late: history, the
\* last write of the creation came after another process had queued a recurring run.
SpecRow == [kind : {"one_off", "schedule"}, enabled : BOOLEAN, removed : BOOLEAN,
            rev : 0 .. MaxRev, next : Nat, at : Nat, born : Nat, late : BOOLEAN]

\* started: started_at is set.  made: created_at, kept for recurring runs only.
RunRow == [spec : Schedules \cup {Null}, rev : 0 .. MaxRev,
           kind : {"none", "one_off", "schedule", "manual"},
           status : {"absent", "queued", "running", "done", "cancelled"},
           started : BOOLEAN, due : Nat, made : Nat]

\* pc of a block, the schedules still to visit, the one at hand, and what the
\* block has read of the spec records and goes on with.
Block == [pc : {"idle", "create", "initialize", "delete", "trigger", "one_offs", "insert",
                "schedules"},
          todo : SUBSET Schedules, cur : Schedules \cup {Null}, snap : [Schedules -> SpecRow]]

TypeOK ==
  /\ now \in 1 .. MaxNow
  /\ spec \in [Schedules -> SpecRow]
  /\ runs \in [RunIds -> RunRow]
  /\ proc \in [Procs -> Block]

NoSpec == [kind |-> "one_off", enabled |-> FALSE, removed |-> FALSE, rev |-> 0,
           next |-> Null, at |-> Null, born |-> 0, late |-> FALSE]
NoRun == [spec |-> Null, rev |-> 0, kind |-> "none", status |-> "absent",
          started |-> FALSE, due |-> Null, made |-> Null]
Idle == [pc |-> "idle", todo |-> {}, cur |-> Null, snap |-> [s \in Schedules |-> NoSpec]]

Init ==
  /\ now = 1
  /\ spec = [s \in Schedules |-> NoSpec]
  /\ runs = [r \in RunIds |-> NoRun]
  /\ proc = [p \in Procs |-> Idle]

-----------------------------------------------------------------------------
Advance ==
  /\ now < MaxNow
  /\ now' = now + 1
  /\ UNCHANGED <<spec, runs, proc>>

IsIdle(p) == proc[p].pc = "idle"
Created(s) == spec[s].rev > 0
Runnable(row) == row.rev > 0 /\ row.enabled /\ ~row.removed

\* Bug: the slot before t.
BugPreviousSlot(t) == (t \div Period - 1) * Period

\* getNextCronTime: the first slot strictly after t.
NextSlot(t) == (t \div Period + 1) * Period

\* enqueueRun: the row, and where it goes.
QueuedRun(s, rev, kind, due) ==
  [spec |-> s, rev |-> rev, kind |-> kind, status |-> "queued",
   started |-> FALSE, due |-> due, made |-> IF kind = "schedule" THEN now ELSE Null]
NextFree(r) ==
  runs[r].status = "absent" /\ \A q \in RunIds : q < r => runs[q].status # "absent"

RunsOf(s, rev) == {r \in RunIds : runs[r].spec = s /\ runs[r].rev = rev /\ runs[r].kind # "none"}

\* The value initializeHubScheduleNextRun stores.
InitialNext(row) ==
  IF ~row.enabled THEN Null ELSE IF row.kind = "one_off" THEN row.at ELSE NextSlot(now)

-----------------------------------------------------------------------------
(* Schedules are created, edited, deleted and triggered.                   *)

\* runAt must lie in the future, and only one-time schedules have one.
ValidTiming(kind, at, enabled) ==
  IF kind = "one_off" THEN at > 0 /\ (enabled => at > now) ELSE at = Null

NewRow(kind, at) ==
  [kind |-> kind, enabled |-> TRUE, removed |-> FALSE, rev |-> 1, next |-> Null, at |-> at,
   born |-> Cardinality({q \in Schedules : Created(q)}) + 1, late |-> FALSE]

\* createHubSchedule inserts the row; next_run_at follows in a second write, to the runAt of
\* the input if there is one.
Create(p, s, kind, at) ==
  /\ IsIdle(p)
  /\ ~Created(s)
  /\ ValidTiming(kind, at, TRUE)
  /\ spec' = [spec EXCEPT ![s] = NewRow(kind, at)]
  /\ proc' = [proc EXCEPT ![p] =
                [Idle EXCEPT !.pc = IF kind = "one_off" THEN "initialize" ELSE "create", !.cur = s,
                             !.snap = [@ EXCEPT ![s].next = at]]]
  /\ UNCHANGED <<now, runs>>

\* initializeScheduleNextRun reads the row of a recurring schedule and the clock ...
ReadCreated(p) ==
  LET s == proc[p].cur
      next == IF spec[s].kind = "schedule" /\ spec[s].enabled THEN NextSlot(now) ELSE Null
  IN  /\ proc[p].pc = "create"
      /\ proc' = [proc EXCEPT ![p].pc = "initialize", ![p].snap[s].next = next]
      /\ UNCHANGED <<now, spec, runs>>

QueuedBefore(s) == \E r \in RunIds : runs[r].spec = s /\ runs[r].kind = "schedule"

\* ... and writes what it computed (updateSpecNextRunAt), whatever the row is by then.
InitializeNext(p) ==
  LET s == proc[p].cur
  IN  /\ proc[p].pc = "initialize"
      /\ spec' = [spec EXCEPT ![s].next = proc[p].snap[s].next,
                              ![s].late = @ \/ QueuedBefore(s)]
      /\ proc' = [proc EXCEPT ![p] = Idle]
      /\ UNCHANGED <<now, runs>>

\* Bugs: resuming is no meaningful change; the queued run of the previous
\* revision is kept.
BugMeaningfulIgnoresResume(row, new, edited) ==
  edited \/ new.kind # row.kind \/ new.at # row.at

\* hasMeaningfulChange
Meaningful(row, new, edited) ==
  \/ edited
  \/ new.kind # row.kind
  \/ new.at # row.at
  \/ ~row.enabled /\ new.enabled

BugCancelsNothing(s) == runs

\* cancelQueuedOneOffRunsForSpec, all revisions
OneOffsCancelled(s) ==
  [r \in RunIds |-> IF runs[r].spec = s /\ runs[r].kind = "one_off" /\ runs[r].status = "queued"
                    THEN [runs[r] EXCEPT !.status = "cancelled"] ELSE runs[r]]

\* What an update of the row may ask for.  timed: it names pattern, timezone or
\* runAt; switched: it names enabled.
MayAsk(row, new, timed, switched) ==
  /\ timed \/ (new.kind = row.kind /\ new.at = row.at)
  /\ switched \/ new.enabled = row.enabled

\* upsertSpec: a meaningful change makes a new revision.
Upserted(row, new, edited) ==
  [new EXCEPT !.rev = IF Meaningful(row, new, edited) THEN @ + 1 ELSE @]

\* updateHubSchedule, one transaction.  edited: prompt, model, pattern ...
\* change.  next_run_at is recomputed only if timed or switched.
Update(p, s, edited, timed, switched) ==
  /\ IsIdle(p)
  /\ Created(s) /\ ~spec[s].removed
  /\ \E kind \in Kinds, at \in 0 .. MaxNow, enabled \in BOOLEAN :
       LET row == spec[s]
           new == [row EXCEPT !.kind = kind, !.at = at, !.enabled = enabled]
           stored == Upserted(row, new, edited)
           oneOff == "one_off" \in {row.kind, new.kind}
       IN  /\ MayAsk(row, new, timed, switched)
           /\ ValidTiming(new.kind, new.at, new.enabled)
           /\ stored.rev <= MaxRev
           /\ spec' = [spec EXCEPT ![s] =
                         [stored EXCEPT !.next = IF timed \/ switched THEN InitialNext(new) ELSE @]]
           /\ runs' = IF oneOff /\ (stored.rev # row.rev \/ new.enabled # row.enabled)
                      THEN OneOffsCancelled(s) ELSE runs
  /\ UNCHANGED <<now, proc>>

\* deleteHubSchedule: markSpecRemoved, then cancelQueuedRunsForSpec.
Delete(p, s) ==
  /\ IsIdle(p)
  /\ Created(s) /\ ~spec[s].removed
  /\ spec' = [spec EXCEPT ![s] = [@ EXCEPT !.removed = TRUE, !.enabled = FALSE]]
  /\ proc' = [proc EXCEPT ![p] = [Idle EXCEPT !.pc = "delete", !.cur = s]]
  /\ UNCHANGED <<now, runs>>

CancelQueued(p) ==
  /\ proc[p].pc = "delete"
  /\ runs' = [r \in RunIds |->
                IF runs[r].spec = proc[p].cur /\ runs[r].status = "queued"
                THEN [runs[r] EXCEPT !.status = "cancelled"] ELSE runs[r]]
  /\ proc' = [proc EXCEPT ![p] = Idle]
  /\ UNCHANGED <<now, spec>>

\* enqueueHubScheduleRun reads the schedule ...
Trigger(p, s) ==
  /\ IsIdle(p)
  /\ Runnable(spec[s])
  /\ proc' = [proc EXCEPT ![p] = [Idle EXCEPT !.pc = "trigger", !.cur = s,
                                             !.snap = [@ EXCEPT ![s].kind = spec[s].kind,
                                                                ![s].rev = spec[s].rev]]]
  /\ UNCHANGED <<now, spec, runs>>

\* ... and queues a manual run of a recurring one ...
TriggerRecurring(p) ==
  LET s == proc[p].cur
      seen == proc[p].snap[s]
  IN  /\ proc[p].pc = "trigger"
      /\ seen.kind = "schedule"
      /\ \E r \in RunIds : /\ NextFree(r)
                            /\ runs' = [runs EXCEPT ![r] = QueuedRun(s, seen.rev, "manual", now)]
      /\ proc' = [proc EXCEPT ![p] = Idle]
      /\ UNCHANGED <<now, spec>>

\* The run consumeOneOffWithManualRun finds for the revision, if any.
Standing(s, rev) ==
  {r \in RunsOf(s, rev) : runs[r].kind \in {"one_off", "manual"} /\ runs[r].status # "cancelled"}

\* ... or lets it take the place of the one-time occurrence, in a transaction.
ConsumeOneOff(p) ==
  LET s == proc[p].cur
      seen == proc[p].snap[s]
      standing == Standing(s, seen.rev)
      queuedOneOff == {r \in standing : runs[r].kind = "one_off" /\ runs[r].status = "queued"}
  IN  /\ proc[p].pc = "trigger"
      /\ seen.kind = "one_off"
      /\ proc' = [proc EXCEPT ![p] = Idle]
      /\ UNCHANGED now
      /\ \/ /\ ~(spec[s].rev = seen.rev /\ spec[s].kind = "one_off" /\ Runnable(spec[s]))
            /\ UNCHANGED <<spec, runs>>
         \/ /\ spec[s].rev = seen.rev /\ spec[s].kind = "one_off" /\ Runnable(spec[s])
            /\ spec' = [spec EXCEPT ![s].next = Null]
            /\ IF standing = queuedOneOff
               THEN \E r \in RunIds :
                      /\ NextFree(r)
                      /\ runs' = [q \in RunIds |->
                           IF q = r THEN QueuedRun(s, seen.rev, "manual", now)
                           ELSE IF q \in queuedOneOff THEN [runs[q] EXCEPT !.status = "cancelled"]
                           ELSE runs[q]]
               ELSE UNCHANGED runs

-----------------------------------------------------------------------------
(* materializeAll: the one-time schedules first, then the recurring ones.  *)

\* listSpecs: the newest ListLimit of the rows that match.
Listed(kind) ==
  LET match == {s \in Schedules : Runnable(spec[s]) /\ spec[s].kind = kind}
  IN  {s \in match : Cardinality({q \in match : spec[q].born > spec[s].born}) < ListLimit}

ListOneOffs(p) ==
  /\ IsIdle(p)
  /\ proc' = [proc EXCEPT ![p] =
                [Idle EXCEPT !.pc = "one_offs", !.todo = Listed("one_off"),
                             !.snap = [s \in Schedules |-> IF s \in Listed("one_off")
                                                           THEN spec[s] ELSE @[s]]]]
  /\ UNCHANGED <<now, spec, runs>>

\* Bug: a manual run does not count.
BugConsumedIgnoresManual(s, rev) == \E r \in RunsOf(s, rev) : runs[r].kind = "one_off"

\* hasConsumedOneOffRevision: a run of any status uses the revision up.
Consumed(s, rev) == \E r \in RunsOf(s, rev) : runs[r].kind \in {"one_off", "manual"}

\* The loop goes on to the next listed schedule.
Visited(block, s) ==
  [block EXCEPT !.pc = "one_offs", !.todo = @ \ {s}, !.cur = Null,
                !.snap = [@ EXCEPT ![s] = NoSpec]]

\* materializeOneOff: the check ...
CheckOneOff(p, s) ==
  /\ proc[p].pc = "one_offs"
  /\ s \in proc[p].todo
  /\ proc' = [proc EXCEPT ![p] =
                IF Consumed(s, proc[p].snap[s].rev) THEN Visited(@, s)
                ELSE [@ EXCEPT !.pc = "insert", !.cur = s]]
  /\ UNCHANGED <<now, spec, runs>>

\* ... and the insert, which the unique index on one_off rows may refuse: then
\* materializeAll throws.
InsertOneOff(p) ==
  LET s == proc[p].cur
      seen == proc[p].snap[s]
  IN  /\ proc[p].pc = "insert"
      /\ \/ /\ \E r \in RunsOf(s, seen.rev) : runs[r].kind = "one_off"
            /\ proc' = [proc EXCEPT ![p] = Idle]
            /\ UNCHANGED runs
         \/ /\ \A r \in RunsOf(s, seen.rev) : runs[r].kind # "one_off"
            /\ \E r \in RunIds :
                 /\ NextFree(r)
                 /\ runs' = [runs EXCEPT ![r] =
                      QueuedRun(s, seen.rev, "one_off",
                                IF seen.next # Null THEN seen.next ELSE now)]
            /\ proc' = [proc EXCEPT ![p] = Visited(@, s)]
      /\ UNCHANGED <<now, spec>>

ListSchedules(p) ==
  /\ proc[p].pc = "one_offs"
  /\ proc[p].todo = {}
  /\ proc' = [proc EXCEPT ![p] = [Idle EXCEPT !.pc = "schedules", !.todo = Listed("schedule")]]
  /\ UNCHANGED <<now, spec, runs>>

\* Bug: the schedule advances by one slot, not past the present.
BugNextAfterDue(due) == NextSlot(due)

\* Where a recurring schedule goes on after the run it just queued.
NextAfterRun(due) == NextSlot(now)

\* materializeDueScheduleRun, one transaction on the row as it is now.
MaterializeDue(p, s) ==
  LET row == spec[s]
      eligible == row.kind = "schedule" /\ Runnable(row)
      due == eligible /\ row.next # Null /\ row.next <= now
  IN  /\ proc[p].pc = "schedules"
      /\ s \in proc[p].todo
      /\ proc' = [proc EXCEPT ![p].todo = @ \ {s}]
      /\ UNCHANGED now
      /\ \/ /\ due
            /\ \E r \in RunIds :
                 /\ NextFree(r)
                 /\ runs' = [runs EXCEPT ![r] = QueuedRun(s, row.rev, "schedule", row.next)]
            /\ spec' = [spec EXCEPT ![s].next = NextAfterRun(row.next)]
         \/ /\ ~due
            /\ spec' = IF eligible /\ row.next = Null
                       THEN [spec EXCEPT ![s].next = NextSlot(now)] ELSE spec
            /\ UNCHANGED runs

MaterializeEnds(p) ==
  /\ proc[p].pc = "schedules"
  /\ proc[p].todo = {}
  /\ proc' = [proc EXCEPT ![p] = Idle]
  /\ UNCHANGED <<now, spec, runs>>

-----------------------------------------------------------------------------
(* Runs start and end; processes die.                                      *)

\* Bug: runs of disabled schedules are left in the queue.
BugStartSkipsDisabled(p, r) ==
  /\ IsIdle(p)
  /\ runs[r].status = "queued" /\ runs[r].due <= now
  /\ Runnable(spec[runs[r].spec])
  /\ runs' = [runs EXCEPT ![r] = [@ EXCEPT !.status = "running", !.started = TRUE]]
  /\ UNCHANGED <<now, spec, proc>>

\* A due run is claimed; executeClaim looks at the schedule, not its revision.
Start(p, r) ==
  /\ IsIdle(p)
  /\ runs[r].status = "queued" /\ runs[r].due <= now
  /\ runs' = [runs EXCEPT ![r] =
                IF Runnable(spec[runs[r].spec])
                THEN [@ EXCEPT !.status = "running", !.started = TRUE]
                ELSE [@ EXCEPT !.status = "cancelled"]]
  /\ UNCHANGED <<now, spec, proc>>

\* completeRun; a one-time run then clears next_run_at of its schedule,
\* whatever its revision is by now.
Finish(p, r, status) ==
  /\ IsIdle(p)
  /\ runs[r].status = "running"
  /\ runs' = [runs EXCEPT ![r].status = status]
  /\ spec' = IF runs[r].kind = "one_off" THEN [spec EXCEPT ![runs[r].spec].next = Null] ELSE spec
  /\ UNCHANGED <<now, proc>>

\* The process dies inside a block and is started again.
Crash(p) ==
  /\ MayCrash
  /\ ~IsIdle(p)
  /\ proc' = [proc EXCEPT ![p] = Idle]
  /\ UNCHANGED <<now, spec, runs>>

-----------------------------------------------------------------------------
\* The statements a process executes once it is inside a block.
Continue(p) ==
  \/ ReadCreated(p) \/ InitializeNext(p) \/ CancelQueued(p)
  \/ TriggerRecurring(p) \/ ConsumeOneOff(p)
  \/ InsertOneOff(p) \/ ListSchedules(p) \/ MaterializeEnds(p)
  \/ \E s \in Schedules : CheckOneOff(p, s) \/ MaterializeDue(p, s)

Next ==
  \/ Advance
  \/ \E p \in Procs :
       \/ \E s \in Schedules :
            \/ \E kind \in Kinds, at \in 0 .. MaxNow : Create(p, s, kind, at)
            \/ \E edited, timed, switched \in BOOLEAN : Update(p, s, edited, timed, switched)
            \/ Delete(p, s)
            \/ Trigger(p, s)
       \/ ListOneOffs(p)
       \/ Continue(p)
       \/ \E r \in RunIds : \/ Start(p, r)
                          \/ \E status \in {"done", "cancelled"} : Finish(p, r, status)
       \/ Crash(p)

Spec == Init /\ [][Next]_vars

(***************************************************************************)
(* Fairness: a process inside a block goes on; some process keeps ticking  *)
(* (materializing, and claiming due runs, which CronRunQueue shows to      *)
(* happen); time passes.  Users owe nothing.                               *)
(***************************************************************************)
Fairness ==
  /\ WF_vars(Advance)
  /\ \A p \in Procs : WF_vars(Continue(p))
  /\ SF_vars(\E p \in Procs : ListOneOffs(p))
  /\ \A r \in RunIds : SF_vars(\E p \in Procs : Start(p, r))

FairSpec == Spec /\ Fairness

-----------------------------------------------------------------------------
(* Safety.                                                                 *)

\* One revision of a one-time schedule never has two runs that are not
\* cancelled: a manual trigger takes the place of the planned occurrence
\* (hasConsumedOneOffRevision, consumeOneOffWithManualRun, the unique index).
OneRunPerRevision ==
  \A q, r \in RunIds :
    /\ q # r /\ runs[q].spec = runs[r].spec /\ runs[q].rev = runs[r].rev
    /\ runs[q].kind = "one_off" /\ runs[r].kind \in {"one_off", "manual"}
    => "cancelled" \in {runs[q].status, runs[r].status}

\* The rows are well formed, and those of one-time schedules are not doubled.
SpecsInv == TypeOK /\ OneRunPerRevision

\* A planned one-time run starts only in the revision it was planned for: an
\* edit, pause or resume before its time withdraws it (the cancellation in
\* updateHubSchedule; executeClaim itself never compares revisions).
OneOffStartsInItsRevision ==
  [][\A r \in RunIds : runs[r].kind = "one_off" /\ ~runs[r].started /\ runs'[r].started =>
       runs[r].rev = spec[runs[r].spec].rev]_vars

\* However long nobody was polling, a recurring schedule queues one run for
\* all slots it missed: each run is for a slot after the previous run was queued
\* (materializeDueScheduleRun moves next_run_at past the present, in one transaction).
\* Excepted by name (late) is a schedule of which another process queued a run while its
\* creation was still going on: the last write of the creation puts next_run_at back.
CatchUpOnce ==
  \A q, r \in RunIds :
    q < r /\ runs[q].kind = "schedule" /\ runs[r].kind = "schedule" /\ runs[q].spec = runs[r].spec
    => runs[q].made < runs[r].due \/ spec[runs[q].spec].late

-----------------------------------------------------------------------------
(* Liveness.                                                               *)

\* The bound on rows is reached: nothing more can be queued.
RowsUsedUp == \A r \in RunIds : runs[r].status # "absent"

Pending(s, v) == Runnable(spec[s]) /\ spec[s].kind = "one_off" /\ spec[s].rev = v

\* A one-time schedule that stays as it is eventually runs, also after it was
\* paused and resumed, edited or triggered by hand before.
OneTimeRuns ==
  \A s \in Schedules, v \in 1 .. MaxRev :
    Pending(s, v) ~> \/ ~Pending(s, v) \/ RowsUsedUp
                     \/ \E r \in RunsOf(s, v) : runs[r].started

\* No run of a deleted schedule stays queued, not even one that another
\* process queued from a list it read before the deletion.
DeletedDrains ==
  \A r \in RunIds :
    (runs[r].status = "queued" /\ spec[runs[r].spec].removed) ~> runs[r].status # "queued"
=============================================================================
