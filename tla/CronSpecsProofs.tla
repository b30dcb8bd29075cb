--------------------------- MODULE CronSpecsProofs ---------------------------
(***************************************************************************)
(* Proofs about CronSpecs.  For any number of processes that share the     *)
(* database, and whatever edits, crashes and stale lists: the rows keep    *)
(* their types, and a recurring schedule queues one run for all the slots  *)
(* it missed.  For one process: a revision of a one-time schedule runs     *)
(* once, and only while it is the schedule's revision.                     *)
(***************************************************************************)
EXTENDS CronSpecs, FiniteSetTheorems, TLAPS

\* A schedule at hand exists, and so does the schedule of a run.
AtHand == {"create", "initialize", "delete", "trigger", "insert"}
Exists(s) == s \in Schedules /\ Created(s)

SchedulesExist ==
  /\ \A r \in RunIds : runs[r].status # "absent" => Exists(runs[r].spec) /\ runs[r].kind # "none"
  /\ \A p \in Procs : /\ proc[p].pc \in AtHand => Exists(proc[p].cur)
                      /\ proc[p].pc \in {"one_offs", "insert"} => \A s \in proc[p].todo : Created(s)

\* Rows are filled in order, and an unused one is of no kind.
RowsInOrder ==
  /\ \A r \in RunIds : runs[r].status = "absent" => runs[r].kind = "none"
  /\ \A q, r \in RunIds : q < r /\ runs[q].status = "absent" => runs[r].status = "absent"

\* A recurring schedule goes on after the time it queued each of its runs.
GoesOnAfter(r) ==
  LET row == spec[runs[r].spec]
  IN  row.late \/ row.kind # "schedule" \/ row.next = Null \/ runs[r].made < row.next
Ahead ==
  \A r \in RunIds : runs[r].kind = "schedule" => runs[r].made <= now /\ GoesOnAfter(r)

SlotsInv == TypeOK /\ SchedulesExist /\ RowsInOrder /\ Ahead /\ CatchUpOnce

\* What a process has read is still true: it is alone.
SeenIsTrue ==
  \A p \in Procs :
    /\ proc[p].pc = "trigger" => LET s == proc[p].cur
                                 IN  /\ proc[p].snap[s].kind = spec[s].kind
                                     /\ proc[p].snap[s].rev = spec[s].rev
    /\ proc[p].pc \in {"one_offs", "insert"} =>
         \A s \in proc[p].todo :
           proc[p].snap[s] = spec[s] /\ Runnable(spec[s]) /\ spec[s].kind = "one_off"
    /\ proc[p].pc = "insert" => /\ proc[p].cur \in proc[p].todo
                                /\ ~Consumed(proc[p].cur, spec[proc[p].cur].rev)

\* One-time runs belong to a revision so far, one that is queued to the present one.
OneOffRevisions ==
  \A r \in RunIds : runs[r].kind = "one_off" =>
    LET row == spec[runs[r].spec]
    IN  /\ runs[r].rev <= row.rev
        /\ runs[r].rev = row.rev => row.kind = "one_off"
        /\ runs[r].status = "queued" => runs[r].rev = row.rev

OneTimeInv == SlotsInv /\ SeenIsTrue /\ OneOffRevisions /\ OneRunPerRevision

-----------------------------------------------------------------------------
(* Time and types.                                                         *)

\* The next slot lies in the future, whatever the period.
LEMMA NextSlotLater == ASSUME NEW t \in Nat PROVE NextSlot(t) \in Nat /\ NextSlot(t) > t
BY ConstantsAssumption DEF NextSlot

LEMMA NowIsTime == TypeOK => now \in Nat /\ now >= 1 /\ MaxNow \in Nat /\ 0 \in 0 .. MaxRev
BY ConstantsAssumption DEF TypeOK

\* What the rows and blocks hold at first.
LEMMA Unused == NoSpec \in SpecRow /\ NoRun \in RunRow /\ Idle \in Block
<1>1. MaxRev \in Nat
  BY ConstantsAssumption
<1>2. NoSpec \in SpecRow /\ NoRun \in RunRow
  BY <1>1 DEF NoSpec, SpecRow, NoRun, RunRow, Null
<1>3. [s \in Schedules |-> NoSpec] \in [Schedules -> SpecRow]
  BY <1>2
<1> QED BY <1>2, <1>3 DEF Idle, Block, Null

\* A row that is queued.
LEMMA QueuedType ==
  ASSUME TypeOK, NEW s \in Schedules, NEW rev \in 0 .. MaxRev,
         NEW kind \in {"one_off", "schedule", "manual"}, NEW due \in Nat
  PROVE  QueuedRun(s, rev, kind, due) \in RunRow
BY NowIsTime DEF QueuedRun, RunRow, Null

\* The row of a schedule that is created.
LEMMA NewRowType ==
  ASSUME NEW kind \in Kinds, NEW at \in 0 .. MaxNow PROVE NewRow(kind, at) \in SpecRow
<1>1. Cardinality({q \in Schedules : Created(q)}) \in Nat
  BY ConstantsAssumption, FS_Subset, FS_CardinalityType
<1>2. kind \in {"one_off", "schedule"} /\ at \in Nat /\ 1 \in 0 .. MaxRev
  BY ConstantsAssumption
<1> QED BY <1>1, <1>2 DEF NewRow, SpecRow, Null

\* Changes of one field.
LEMMA RowTypes ==
  ASSUME NEW row \in SpecRow
  PROVE  /\ \A n \in Nat : [row EXCEPT !.next = n] \in SpecRow
         /\ \A n \in Nat, b \in BOOLEAN : [row EXCEPT !.next = n, !.late = b] \in SpecRow
         /\ \A kind \in {"one_off", "schedule"}, v \in 0 .. MaxRev :
              [row EXCEPT !.kind = kind, !.rev = v] \in SpecRow
         /\ \A v \in 0 .. MaxRev : [row EXCEPT !.rev = v] \in SpecRow
         /\ [row EXCEPT !.removed = TRUE, !.enabled = FALSE] \in SpecRow
BY DEF SpecRow

LEMMA RunTypes ==
  ASSUME NEW row \in RunRow
  PROVE  /\ \A st \in {"running", "done", "cancelled"} : [row EXCEPT !.status = st] \in RunRow
         /\ [row EXCEPT !.status = "running", !.started = TRUE] \in RunRow
BY DEF RunRow

\* Blocks.
LEMMA BlockTypes ==
  ASSUME NEW s \in Schedules, NEW row \in SpecRow, NEW block \in Block
  PROVE  /\ \A pc \in {"create", "initialize", "trigger"} :
              [Idle EXCEPT !.pc = pc, !.cur = s, !.snap = [@ EXCEPT ![s] = row]] \in Block
         /\ [Idle EXCEPT !.pc = "delete", !.cur = s] \in Block
         /\ [block EXCEPT !.pc = "insert", !.cur = s] \in Block
         /\ [block EXCEPT !.todo = @ \ {s}] \in Block
         /\ Visited(block, s) \in Block
<1>1. Idle.snap \in [Schedules -> SpecRow] /\ block.snap \in [Schedules -> SpecRow]
  BY Unused DEF Block
<1>2. /\ [Idle.snap EXCEPT ![s] = row] \in [Schedules -> SpecRow]
      /\ [block.snap EXCEPT ![s] = NoSpec] \in [Schedules -> SpecRow]
  BY <1>1, Unused
<1> QED BY <1>2, Unused DEF Block, Visited, Null

-----------------------------------------------------------------------------
(* Types are kept.                                                         *)

\* The names of the next state's parts.
LEMMA TypeParts ==
  TypeOK => /\ now \in 1 .. MaxNow /\ spec \in [Schedules -> SpecRow]
            /\ runs \in [RunIds -> RunRow] /\ proc \in [Procs -> Block]
BY DEF TypeOK

\* A process goes on to another block, and at most one schedule and one run change.
LEMMA OneChange ==
  ASSUME TypeOK, now' = now,
         \E p \in Procs, block \in Block : proc' = [proc EXCEPT ![p] = block],
         spec' = spec \/ \E s \in Schedules, row \in SpecRow : spec' = [spec EXCEPT ![s] = row],
         runs' = runs \/ \E r \in RunIds, row \in RunRow : runs' = [runs EXCEPT ![r] = row]
  PROVE  TypeOK'
BY DEF TypeOK

\* The rows of runs after a cancellation.
LEMMA CancelTypes ==
  ASSUME TypeOK, NEW S PROVE
    [r \in RunIds |-> IF r \in S THEN [runs[r] EXCEPT !.status = "cancelled"] ELSE runs[r]]
      \in [RunIds -> RunRow]
BY RunTypes DEF TypeOK

\* A block whose schedule at hand has another row.
LEMMA SnapTypes ==
  ASSUME NEW block \in Block, NEW s \in Schedules, NEW row \in SpecRow
  PROVE  [block EXCEPT !.pc = "initialize", !.snap = [@ EXCEPT ![s] = row]] \in Block
BY DEF Block

LEMMA CreateTypes ==
  ASSUME TypeOK, NEW p \in Procs, NEW s \in Schedules, NEW kind \in Kinds, NEW at \in 0 .. MaxNow,
         Create(p, s, kind, at)
  PROVE  TypeOK'
<1> DEFINE row == NewRow(kind, at)
           seen == [NoSpec EXCEPT !.next = at]
           pc == IF kind = "one_off" THEN "initialize" ELSE "create"
           block == [Idle EXCEPT !.pc = pc, !.cur = s, !.snap = [@ EXCEPT ![s] = seen]]
<1>1. row \in SpecRow /\ seen \in SpecRow
  <2>1. at \in Nat
    OBVIOUS
  <2>2. seen \in SpecRow
    <3> HIDE DEF row
    <3> QED BY <2>1, Unused, RowTypes
  <2> QED BY <2>2, NewRowType
<1>2. UNCHANGED <<now, runs>> /\ spec' = [spec EXCEPT ![s] = row]
  BY DEF Create
<1>3. proc' = [proc EXCEPT ![p] = block]
  BY DEF Create, Idle
<1> HIDE DEF row, seen
<1>4. block \in Block
  BY <1>1, BlockTypes, Unused
<1> HIDE DEF block
<1> QED BY ONLY <1>1, <1>2, <1>3, <1>4, OneChange, TypeOK, p \in Procs, s \in Schedules

\* The read of a recurring schedule at its creation.
LEMMA ReadCreatedTypes ==
  ASSUME TypeOK, SchedulesExist, NEW p \in Procs, ReadCreated(p) PROVE TypeOK'
<1> DEFINE s == proc[p].cur
           n == IF spec[s].kind = "schedule" /\ spec[s].enabled THEN NextSlot(now) ELSE Null
           row == [proc[p].snap[s] EXCEPT !.next = n]
           block == [proc[p] EXCEPT !.pc = "initialize", !.snap = [@ EXCEPT ![s] = row]]
<1>1. s \in Schedules /\ proc[p] \in Block /\ proc[p].snap[s] \in SpecRow
  BY DEF ReadCreated, SchedulesExist, AtHand, Exists, TypeOK, Block
<1>2. NextSlot(now) \in Nat
  BY NowIsTime, NextSlotLater
<1>3. n \in Nat
  BY <1>2 DEF Null
<1>4. UNCHANGED <<now, spec, runs>> /\ proc' = [proc EXCEPT ![p] = block]
  <2>1. proc[p].snap \in [Schedules -> SpecRow]
    BY <1>1 DEF Block
  <2>2. [proc[p].snap EXCEPT ![s].next = n] = [proc[p].snap EXCEPT ![s] = row]
    BY <1>1, <2>1
  <2>3. [proc[p] EXCEPT !.pc = "initialize", !.snap = [proc[p].snap EXCEPT ![s].next = n]] = block
    BY <1>1, <2>2 DEF Block
  <2> QED BY <1>1, <2>3 DEF ReadCreated, TypeOK, Block
<1> HIDE DEF n, s
<1>5. row \in SpecRow
  BY <1>1, <1>3, RowTypes
<1> HIDE DEF row
<1>6. block \in Block
  BY <1>1, <1>5, SnapTypes
<1> HIDE DEF block
<1> QED BY <1>4, <1>6, OneChange

LEMMA InitializeTypes ==
  ASSUME TypeOK, SchedulesExist, NEW p \in Procs, InitializeNext(p) PROVE TypeOK'
<1> DEFINE s == proc[p].cur
           n == proc[p].snap[s].next
           late == spec[s].late \/ QueuedBefore(s)
           row == [spec[s] EXCEPT !.next = n, !.late = late]
<1>1. s \in Schedules /\ spec[s] \in SpecRow /\ proc[p].snap[s] \in SpecRow
  BY DEF InitializeNext, SchedulesExist, AtHand, Exists, TypeOK, Block
<1>2. n \in Nat /\ late \in BOOLEAN
  BY <1>1 DEF SpecRow, QueuedBefore
<1>3. spec' = [spec EXCEPT ![s] = row]
  BY <1>1 DEF InitializeNext, TypeOK
<1>4. UNCHANGED <<now, runs>> /\ proc' = [proc EXCEPT ![p] = Idle]
  BY DEF InitializeNext
<1> HIDE DEF n, late, s
<1>5. row \in SpecRow
  BY <1>1, <1>2, RowTypes
<1> HIDE DEF row
<1> QED BY <1>1, <1>3, <1>4, <1>5, OneChange, Unused

\* What an update asks for ...
Edits(row, new) ==
  \E kind \in Kinds, at \in 0 .. MaxNow, enabled \in BOOLEAN :
    new = [row EXCEPT !.kind = kind, !.at = at, !.enabled = enabled]

\* ... and what it stores.
LEMMA EditsTypes ==
  ASSUME NEW row \in SpecRow, NEW new, Edits(row, new)
  PROVE  /\ new \in SpecRow
         /\ new.rev = row.rev /\ new.next = row.next /\ new.late = row.late
<1>1. PICK kind \in Kinds, at \in 0 .. MaxNow, enabled \in BOOLEAN :
        new = [row EXCEPT !.kind = kind, !.at = at, !.enabled = enabled]
  BY DEF Edits
<1>2. kind \in {"one_off", "schedule"} /\ at \in Nat
  BY ConstantsAssumption
<1> QED BY <1>1, <1>2 DEF SpecRow

LEMMA UpsertedTypes ==
  ASSUME NEW row \in SpecRow, NEW new \in SpecRow, new.rev = row.rev, NEW edited,
         NEW stored, stored = Upserted(row, new, edited), stored.rev <= MaxRev
  PROVE  /\ stored \in SpecRow
         /\ stored.rev = IF Meaningful(row, new, edited) THEN row.rev + 1 ELSE row.rev
         /\ stored.next = new.next /\ stored.late = new.late /\ stored.kind = new.kind
         /\ stored.enabled = new.enabled /\ stored.removed = new.removed
<1> DEFINE rev == IF Meaningful(row, new, edited) THEN row.rev + 1 ELSE row.rev
<1>1. rev \in Nat
  BY ConstantsAssumption DEF SpecRow
<1>2. stored = [new EXCEPT !.rev = rev]
  BY DEF Upserted, SpecRow
<1> HIDE DEF rev
<1>3. /\ stored.rev = rev
      /\ stored.next = new.next /\ stored.late = new.late /\ stored.kind = new.kind
      /\ stored.enabled = new.enabled /\ stored.removed = new.removed
  BY <1>2 DEF SpecRow
<1>4. rev \in 0 .. MaxRev
  BY <1>1, <1>3, ConstantsAssumption
<1>5. stored \in SpecRow
  BY <1>2, <1>4, RowTypes
<1> QED BY <1>3, <1>5 DEF rev

LEMMA InitialNextType ==
  ASSUME TypeOK, NEW row \in SpecRow PROVE InitialNext(row) \in Nat
BY NowIsTime, NextSlotLater DEF InitialNext, SpecRow, Null

\* The parts of an update, by name.
Stores(s, row, new, stored, timed, switched) ==
  /\ spec' = [spec EXCEPT ![s] =
                [stored EXCEPT !.next = IF timed \/ switched THEN InitialNext(new) ELSE @]]
  /\ runs' = IF /\ "one_off" \in {row.kind, new.kind}
                /\ stored.rev # row.rev \/ new.enabled # row.enabled
             THEN OneOffsCancelled(s) ELSE runs

LEMMA UpdateParts ==
  ASSUME NEW p \in Procs, NEW s \in Schedules, NEW edited, NEW timed, NEW switched,
         Update(p, s, edited, timed, switched)
  PROVE  \E new, stored :
           /\ Edits(spec[s], new)
           /\ MayAsk(spec[s], new, timed, switched)
           /\ stored = Upserted(spec[s], new, edited) /\ stored.rev <= MaxRev
           /\ Stores(s, spec[s], new, stored, timed, switched)
<1>1. PICK kind \in Kinds, at \in 0 .. MaxNow, enabled \in BOOLEAN :
        LET new == [spec[s] EXCEPT !.kind = kind, !.at = at, !.enabled = enabled]
            stored == Upserted(spec[s], new, edited)
        IN  /\ MayAsk(spec[s], new, timed, switched)
            /\ stored.rev <= MaxRev
            /\ Stores(s, spec[s], new, stored, timed, switched)
  BY DEF Update, Stores
<1>2. PICK new : new = [spec[s] EXCEPT !.kind = kind, !.at = at, !.enabled = enabled]
  OBVIOUS
<1>3. PICK stored : stored = Upserted(spec[s], new, edited)
  OBVIOUS
<1>4. Edits(spec[s], new)
  BY <1>2 DEF Edits
<1>5. /\ MayAsk(spec[s], new, timed, switched) /\ stored.rev <= MaxRev
      /\ Stores(s, spec[s], new, stored, timed, switched)
  BY <1>1, <1>2, <1>3
<1> QED BY <1>3, <1>4, <1>5

LEMMA UpdateTypes ==
  ASSUME TypeOK, NEW p \in Procs, NEW s \in Schedules, NEW edited, NEW timed, NEW switched,
         Update(p, s, edited, timed, switched)
  PROVE  TypeOK'
<1>1. spec[s] \in SpecRow
  BY DEF TypeOK
<1>2. PICK new, stored :
        /\ Edits(spec[s], new)
        /\ stored = Upserted(spec[s], new, edited) /\ stored.rev <= MaxRev
        /\ Stores(s, spec[s], new, stored, timed, switched)
  BY UpdateParts
<1>3. new \in SpecRow /\ new.rev = spec[s].rev
  BY <1>1, <1>2, EditsTypes
<1>9. stored \in SpecRow /\ InitialNext(new) \in Nat
  BY <1>1, <1>2, <1>3, UpsertedTypes, InitialNextType
<1>4. PICK n \in Nat : spec' = [spec EXCEPT ![s] = [stored EXCEPT !.next = n]]
  BY <1>2, <1>9 DEF Stores, SpecRow
<1>5. [stored EXCEPT !.next = n] \in SpecRow
  BY <1>9, RowTypes
<1>6. spec' \in [Schedules -> SpecRow]
  BY <1>4, <1>5 DEF TypeOK
<1>7. runs' \in {runs, OneOffsCancelled(s)} /\ UNCHANGED <<now, proc>>
  BY <1>2 DEF Update, Stores
<1>8. OneOffsCancelled(s) \in [RunIds -> RunRow]
  BY RunTypes DEF OneOffsCancelled, TypeOK
<1> QED BY <1>6, <1>7, <1>8 DEF TypeOK

\* Rows that are queued.
LEMMA QueueTypes ==
  ASSUME TypeOK, SchedulesExist, NEW p \in Procs,
         TriggerRecurring(p) \/ ConsumeOneOff(p) \/ InsertOneOff(p)
         \/ \E s \in Schedules : MaterializeDue(p, s)
  PROVE  TypeOK'
<1> DEFINE s == proc[p].cur
           seen == proc[p].snap[s]
<1>0. now \in Nat /\ proc[p] \in Block /\ NextSlot(now) \in Nat
  BY NowIsTime, NextSlotLater DEF TypeOK
<1>1. proc[p].pc \in AtHand => s \in Schedules /\ seen \in SpecRow
  BY <1>0 DEF SchedulesExist, Exists, Block
<1>2. ASSUME proc[p].pc \in AtHand
      PROVE  /\ seen.next \in Nat /\ seen.rev \in 0 .. MaxRev /\ spec[s] \in SpecRow
             /\ \A kind \in {"one_off", "schedule", "manual"}, due \in Nat :
                  QueuedRun(s, seen.rev, kind, due) \in RunRow
  BY <1>1, <1>2, QueuedType DEF SpecRow, TypeOK
<1>3. CASE TriggerRecurring(p)
  <2>1. proc[p].pc \in AtHand
    BY <1>3 DEF TriggerRecurring, AtHand
  <2>2. PICK r \in RunIds : runs' = [runs EXCEPT ![r] = QueuedRun(s, seen.rev, "manual", now)]
    BY <1>3 DEF TriggerRecurring
  <2> QED BY <1>0, <1>2, <1>3, <2>1, <2>2, OneChange, Unused DEF TriggerRecurring
<1>4. CASE ConsumeOneOff(p)
  <2>1. proc[p].pc \in AtHand
    BY <1>4 DEF ConsumeOneOff, AtHand
  <2>2. spec' \in [Schedules -> SpecRow]
    <3>1. spec' = spec \/ spec' = [spec EXCEPT ![s] = [spec[s] EXCEPT !.next = Null]]
      BY <1>4, <1>1, <2>1 DEF ConsumeOneOff, TypeOK
    <3>2. [spec[s] EXCEPT !.next = Null] \in SpecRow
      BY <1>2, <2>1, RowTypes DEF Null
    <3> QED BY <3>1, <3>2 DEF TypeOK
  <2>3. runs' \in [RunIds -> RunRow]
    <3>1. CASE runs' = runs
      BY <3>1 DEF TypeOK
    <3>2. CASE runs' # runs
      <4>1. PICK S : \E r \in RunIds : runs' = [q \in RunIds |->
                           IF q = r THEN QueuedRun(s, seen.rev, "manual", now)
                           ELSE IF q \in S THEN [runs[q] EXCEPT !.status = "cancelled"]
                           ELSE runs[q]]
        BY <1>4, <3>2 DEF ConsumeOneOff
      <4>2. QueuedRun(s, seen.rev, "manual", now) \in RunRow
        BY <1>0, <1>2, <2>1
      <4> QED BY <4>1, <4>2, RunTypes DEF TypeOK
    <3> QED BY <3>1, <3>2
  <2> QED BY <1>4, <2>2, <2>3, Unused DEF ConsumeOneOff, TypeOK
<1>5. CASE InsertOneOff(p)
  <2>1. proc[p].pc \in AtHand
    BY <1>5 DEF InsertOneOff, AtHand
  <2>2. Visited(proc[p], s) \in Block
    BY <1>0, <1>1, <2>1, BlockTypes, Unused
  <2>3. UNCHANGED <<now, spec>> /\ \E block \in Block : proc' = [proc EXCEPT ![p] = block]
    BY <1>5, <2>2, Unused DEF InsertOneOff, TypeOK
  <2>4. runs' = runs \/ \E r \in RunIds, row \in RunRow : runs' = [runs EXCEPT ![r] = row]
    <3> DEFINE due == IF seen.next # Null THEN seen.next ELSE now
    <3>1. due \in Nat
      BY <1>0, <1>2, <2>1
    <3>2. QueuedRun(s, seen.rev, "one_off", due) \in RunRow
      BY <1>2, <2>1, <3>1
    <3> QED BY <1>5, <3>2 DEF InsertOneOff
  <2> QED BY <2>3, <2>4, OneChange
<1>6. ASSUME NEW t \in Schedules, MaterializeDue(p, t) PROVE TypeOK'
  <2>1. spec[t] \in SpecRow /\ spec[t].rev \in 0 .. MaxRev /\ spec[t].next \in Nat
    BY DEF TypeOK, SpecRow
  <2>2. [spec[t] EXCEPT !.next = NextSlot(now)] \in SpecRow
    BY <1>0, <2>1, RowTypes
  <2>3. UNCHANGED now /\ \E block \in Block : proc' = [proc EXCEPT ![p] = block]
    <3>1. [proc[p] EXCEPT !.todo = @ \ {t}] \in Block
      BY <1>0, BlockTypes, Unused
    <3> QED BY <1>6, <3>1 DEF MaterializeDue, TypeOK
  <2>4. runs' = runs \/ \E r \in RunIds, row \in RunRow : runs' = [runs EXCEPT ![r] = row]
    <3>1. QueuedRun(t, spec[t].rev, "schedule", spec[t].next) \in RunRow
      BY <2>1, QueuedType
    <3> QED BY <1>6, <3>1 DEF MaterializeDue
  <2>5. spec' = spec \/ spec' = [spec EXCEPT ![t] = [spec[t] EXCEPT !.next = NextSlot(now)]]
    BY <1>6 DEF MaterializeDue, NextAfterRun, TypeOK
  <2> QED BY <2>2, <2>3, <2>4, <2>5, OneChange
<1> QED BY <1>3, <1>4, <1>5, <1>6

\* Steps that queue nothing.
LEMMA ListingTypes ==
  ASSUME TypeOK, NEW p \in Procs,
         \/ \E s \in Schedules : Trigger(p, s) \/ CheckOneOff(p, s)
         \/ ListOneOffs(p) \/ ListSchedules(p) \/ MaterializeEnds(p) \/ Crash(p)
  PROVE  TypeOK'
<1>1. Idle.snap = [s \in Schedules |-> NoSpec] /\ \A kind : Listed(kind) \subseteq Schedules
  BY DEF Idle, Listed
<1>2. ASSUME NEW s \in Schedules, Trigger(p, s) PROVE TypeOK'
  <2> DEFINE seen == [NoSpec EXCEPT !.kind = spec[s].kind, !.rev = spec[s].rev]
             block == [Idle EXCEPT !.pc = "trigger", !.cur = s, !.snap = [@ EXCEPT ![s] = seen]]
  <2>1. seen \in SpecRow
    <3>1. spec[s].kind \in {"one_off", "schedule"} /\ spec[s].rev \in 0 .. MaxRev
      BY DEF TypeOK, SpecRow
    <3> QED BY <3>1, Unused, RowTypes
  <2>2. UNCHANGED <<now, spec, runs>> /\ proc' = [proc EXCEPT ![p] = block]
    BY <1>2 DEF Trigger, Idle
  <2> HIDE DEF seen
  <2>3. block \in Block
    BY <2>1, BlockTypes, Unused
  <2> HIDE DEF block
  <2> QED BY <2>2, <2>3, OneChange
<1>3. ASSUME NEW s \in Schedules, CheckOneOff(p, s) PROVE TypeOK'
  <2>1. /\ [proc[p] EXCEPT !.pc = "insert", !.cur = s] \in Block
        /\ Visited(proc[p], s) \in Block
    BY BlockTypes, Unused DEF TypeOK
  <2> QED BY <1>3, <2>1 DEF CheckOneOff, TypeOK
<1>4. CASE ListOneOffs(p)
  <2> DEFINE L == Listed("one_off")
             snap == [s \in Schedules |-> IF s \in L THEN spec[s] ELSE Idle.snap[s]]
  <2> HIDE DEF L
  <2>1. snap \in [Schedules -> SpecRow]
    BY <1>1, Unused DEF TypeOK
  <2> HIDE DEF snap
  <2>2. [Idle EXCEPT !.pc = "one_offs", !.todo = L, !.snap = snap] \in Block
    BY <1>1, <2>1, Unused DEF Block, L
  <2>3. proc' = [proc EXCEPT ![p] = [Idle EXCEPT !.pc = "one_offs", !.todo = L, !.snap = snap]]
    BY <1>4 DEF ListOneOffs, L, snap, Idle
  <2> QED BY <1>4, <2>2, <2>3 DEF ListOneOffs, TypeOK
<1>5. CASE ListSchedules(p)
  <2> DEFINE L == Listed("schedule")
  <2>1. [Idle EXCEPT !.pc = "schedules", !.todo = L] \in Block
    <3> HIDE DEF L
    <3> QED BY <1>1, Unused DEF Block, L
  <2> QED BY <1>5, <2>1 DEF ListSchedules, TypeOK
<1>6. CASE MaterializeEnds(p)
  BY <1>6, Unused DEF MaterializeEnds, TypeOK
<1>7. CASE Crash(p)
  BY <1>7, Unused DEF Crash, TypeOK
<1> QED BY <1>2, <1>3, <1>4, <1>5, <1>6, <1>7

LEMMA EndingTypes ==
  ASSUME TypeOK, SchedulesExist,
         \/ Advance
         \/ \E p \in Procs : \/ \E s \in Schedules : Delete(p, s)
                            \/ CancelQueued(p)
                            \/ \E r \in RunIds :
                                 Start(p, r) \/ \E st \in {"done", "cancelled"} : Finish(p, r, st)
  PROVE  TypeOK'
<1>1. CASE Advance
  BY <1>1, NowIsTime DEF Advance, TypeOK
<1>2. ASSUME NEW p \in Procs, NEW s \in Schedules, Delete(p, s) PROVE TypeOK'
  <2>1. [spec[s] EXCEPT !.removed = TRUE, !.enabled = FALSE] \in SpecRow
    BY RowTypes DEF TypeOK
  <2>2. [Idle EXCEPT !.pc = "delete", !.cur = s] \in Block
    BY BlockTypes, Unused
  <2>3. spec' = [spec EXCEPT ![s] = [spec[s] EXCEPT !.removed = TRUE, !.enabled = FALSE]]
    BY <1>2 DEF Delete, TypeOK
  <2> QED BY <1>2, <2>1, <2>2, <2>3 DEF Delete, TypeOK
<1>3. ASSUME NEW p \in Procs, CancelQueued(p) PROVE TypeOK'
  BY <1>3, RunTypes, Unused DEF CancelQueued, TypeOK
<1>4. ASSUME NEW p \in Procs, NEW r \in RunIds, Start(p, r) PROVE TypeOK'
  <2>1. /\ [runs[r] EXCEPT !.status = "running", !.started = TRUE] \in RunRow
        /\ [runs[r] EXCEPT !.status = "cancelled"] \in RunRow
    BY RunTypes DEF TypeOK
  <2> QED BY <1>4, <2>1 DEF Start, TypeOK
<1>5. ASSUME NEW p \in Procs, NEW r \in RunIds, NEW st \in {"done", "cancelled"}, Finish(p, r, st)
      PROVE  TypeOK'
  <2>1. [runs[r] EXCEPT !.status = st] \in RunRow /\ runs[r].spec \in Schedules
    BY <1>5, RunTypes DEF TypeOK, Finish, SchedulesExist, Exists
  <2>2. [spec[runs[r].spec] EXCEPT !.next = Null] \in SpecRow
    BY <2>1, RowTypes DEF TypeOK, Null
  <2>3. spec' \in {spec, [spec EXCEPT ![runs[r].spec] = [spec[runs[r].spec] EXCEPT !.next = Null]]}
    BY <1>5 DEF Finish, TypeOK
  <2>4. runs' = [runs EXCEPT ![r] = [runs[r] EXCEPT !.status = st]] /\ UNCHANGED <<now, proc>>
    BY <1>5 DEF Finish, TypeOK
  <2> QED BY <2>1, <2>2, <2>3, <2>4 DEF TypeOK
<1> QED BY <1>1, <1>2, <1>3, <1>4, <1>5

\* Every step keeps the types.
LEMMA TypesKept == TypeOK /\ SchedulesExist /\ [Next]_vars => TypeOK'
<1> SUFFICES ASSUME TypeOK, SchedulesExist, [Next]_vars PROVE TypeOK'
  OBVIOUS
<1>1. CASE Next
  <2> USE DEF Continue
  <2>1. ASSUME NEW p \in Procs, NEW s \in Schedules, NEW kind \in Kinds, NEW at \in 0 .. MaxNow,
               Create(p, s, kind, at)
        PROVE  TypeOK'
    BY <2>1, CreateTypes
  <2>2. ASSUME NEW p \in Procs, NEW s \in Schedules, NEW edited, NEW timed, NEW switched,
               Update(p, s, edited, timed, switched)
        PROVE  TypeOK'
    BY <2>2, UpdateTypes
  <2>3. ASSUME NEW p \in Procs, InitializeNext(p) PROVE TypeOK'
    BY <2>3, InitializeTypes
  <2>4. ASSUME NEW p \in Procs, ReadCreated(p) PROVE TypeOK'
    BY <2>4, ReadCreatedTypes
  <2> QED BY <1>1, <2>1, <2>2, <2>3, <2>4, QueueTypes, ListingTypes, EndingTypes DEF Next
<1>2. CASE UNCHANGED vars
  BY <1>2 DEF vars, TypeOK
<1> QED BY <1>1, <1>2

-----------------------------------------------------------------------------
(* Rows exist, and a recurring schedule goes on past the runs it queued.   *)

\* A step keeps a run: at most its status goes on.
KeptRun(r) ==
  /\ runs'[r].spec = runs[r].spec /\ runs'[r].rev = runs[r].rev /\ runs'[r].kind = runs[r].kind
  /\ runs'[r].due = runs[r].due /\ runs'[r].made = runs[r].made
  /\ runs[r].status = "absent" <=> runs'[r].status = "absent"

\* A step keeps a schedule: it exists, and goes on where it was or after the present,
\* unless it queued nothing yet.
KeptSpec(s) ==
  LET row == spec'[s]
  IN  /\ row.rev > 0
      /\ spec[s].late => row.late
      /\ \/ row.late \/ row.kind # "schedule" \/ row.next = Null \/ row.next > now
         \/ row.kind = spec[s].kind /\ row.next = spec[s].next
         \/ ~QueuedBefore(s)

\* The row a step queues.
NewRun(r, s, kind, due) ==
  /\ NextFree(r)
  /\ runs'[r] = QueuedRun(s, runs'[r].rev, kind, due)
  /\ \A q \in RunIds \ {r} : KeptRun(q)

\* The block a process is in after a step.
KeptBlock(p) ==
  /\ proc'[p].pc \in AtHand => proc'[p].cur \in Schedules /\ spec'[proc'[p].cur].rev > 0
  /\ proc'[p].pc \in {"one_offs", "insert"} => \A s \in proc'[p].todo : spec'[s].rev > 0

\* What a step keeps of the invariant when it queues nothing ...
LEMMA SlotsKept ==
  ASSUME SlotsInv, TypeOK', now' >= now, \A r \in RunIds : KeptRun(r),
         \A s \in Schedules : Created(s) => KeptSpec(s), \A p \in Procs : KeptBlock(p)
  PROVE  SlotsInv'
<1> USE DEF SlotsInv
<1>1. SchedulesExist'
  BY DEF SchedulesExist, Exists, Created, KeptRun, KeptSpec, KeptBlock
<1>2. RowsInOrder'
  BY DEF RowsInOrder, KeptRun
<1>3. Ahead'
  <2> SUFFICES ASSUME NEW r \in RunIds, runs'[r].kind = "schedule"
               PROVE  runs'[r].made <= now' /\ GoesOnAfter(r)'
    BY DEF Ahead
  <2>1. runs[r].status # "absent" /\ runs[r].kind = "schedule" /\ KeptRun(r)
    BY DEF KeptRun, RowsInOrder
  <2>2. /\ Created(runs[r].spec) /\ runs[r].spec \in Schedules /\ runs[r].made <= now
        /\ GoesOnAfter(r) /\ KeptSpec(runs[r].spec)
    BY <2>1 DEF SchedulesExist, Exists, Ahead
  <2>3. runs[r].made \in Nat /\ now \in Nat /\ now' \in Nat /\ spec'[runs[r].spec].next \in Nat
    BY <2>2, NowIsTime DEF TypeOK, RunRow, SpecRow
  <2> QED BY <2>1, <2>2, <2>3 DEF KeptRun, KeptSpec, GoesOnAfter, QueuedBefore
<1>4. CatchUpOnce'
  <2> SUFFICES ASSUME NEW q \in RunIds, NEW r \in RunIds, q < r, runs'[q].kind = "schedule",
                      runs'[r].kind = "schedule", runs'[q].spec = runs'[r].spec
               PROVE  runs'[q].made < runs'[r].due \/ spec'[runs'[q].spec].late
    BY DEF CatchUpOnce
  <2>1. runs[q].status # "absent" /\ runs[q].kind = "schedule"
    BY DEF KeptRun, RowsInOrder
  <2>2. Created(runs[q].spec) /\ runs[q].spec \in Schedules
    BY <2>1 DEF SchedulesExist, Exists
  <2> QED BY <2>2 DEF KeptRun, KeptSpec, CatchUpOnce
<1> QED BY <1>1, <1>2, <1>3, <1>4

\* ... and when it queues one run.
LEMMA SlotsKeptByNew ==
  ASSUME SlotsInv, TypeOK', now' = now,
         NEW r \in RunIds, NEW s \in Schedules, NEW kind \in {"one_off", "manual", "schedule"},
         NEW due, NewRun(r, s, kind, due), Created(s),
         kind = "schedule" => /\ spec[s].kind = "schedule" /\ spec[s].next = due /\ due # Null
                              /\ spec'[s].next > now,
         \A t \in Schedules : Created(t) => KeptSpec(t), \A p \in Procs : KeptBlock(p)
  PROVE  SlotsInv'
<1> USE DEF SlotsInv
<1>1. /\ runs'[r].spec = s /\ runs'[r].kind = kind /\ runs'[r].due = due
      /\ runs'[r].made = IF kind = "schedule" THEN now ELSE Null
      /\ runs'[r].status = "queued" /\ runs[r].status = "absent"
      /\ \A q \in RunIds : q < r => runs[q].status # "absent"
      /\ \A q \in RunIds : q # r => KeptRun(q)
  BY DEF NewRun, QueuedRun, NextFree
<1>2. \A q \in RunIds : r < q => runs'[q].kind = "none"
  <2> SUFFICES ASSUME NEW q \in RunIds, r < q PROVE runs'[q].kind = "none"
    OBVIOUS
  <2>1. q # r /\ runs[q].status = "absent"
    BY <1>1 DEF RowsInOrder
  <2> QED BY <1>1, <2>1 DEF RowsInOrder, KeptRun
<1>3. KeptSpec(s) /\ spec'[s].rev > 0 /\ now \in Nat /\ spec'[s].next \in Nat
  BY NowIsTime DEF KeptSpec, TypeOK, SpecRow
<1>4. SchedulesExist'
  BY <1>1, <1>3 DEF SchedulesExist, Exists, Created, KeptRun, KeptSpec, KeptBlock
<1>5. RowsInOrder'
  <2>1. ASSUME NEW q \in RunIds, runs'[q].status = "absent" PROVE runs'[q].kind = "none"
    BY <2>1, <1>1 DEF RowsInOrder, KeptRun
  <2>2. ASSUME NEW q1 \in RunIds, NEW q2 \in RunIds, q1 < q2, runs'[q1].status = "absent"
        PROVE  runs'[q2].status = "absent"
    <3>1. q1 # r /\ runs[q1].status = "absent"
      BY <2>2, <1>1 DEF KeptRun
    <3>2. runs[q2].status = "absent"
      BY <2>2, <3>1 DEF RowsInOrder
    <3>3. q2 # r
      BY <2>2, <3>1, <1>1
    <3> QED BY <3>2, <3>3, <1>1 DEF KeptRun
  <2> QED BY <2>1, <2>2 DEF RowsInOrder
<1>6. Ahead'
  <2> SUFFICES ASSUME NEW q \in RunIds, runs'[q].kind = "schedule"
               PROVE  runs'[q].made <= now' /\ GoesOnAfter(q)'
    BY DEF Ahead
  <2>1. CASE q = r
    BY <1>1, <1>3, <2>1 DEF GoesOnAfter
  <2>2. CASE q # r
    <3>1. runs[q].status # "absent" /\ runs[q].kind = "schedule" /\ KeptRun(q)
      BY <1>1, <2>2 DEF KeptRun, RowsInOrder
    <3>2. /\ Created(runs[q].spec) /\ runs[q].spec \in Schedules /\ runs[q].made <= now
          /\ GoesOnAfter(q) /\ KeptSpec(runs[q].spec)
      BY <3>1 DEF SchedulesExist, Exists, Ahead
    <3>3. runs[q].made \in Nat /\ spec'[runs[q].spec].next \in Nat
      BY <3>2 DEF TypeOK, RunRow, SpecRow
    <3> QED BY <1>3, <3>1, <3>2, <3>3 DEF KeptRun, KeptSpec, GoesOnAfter, QueuedBefore
  <2> QED BY <2>1, <2>2
<1>7. CatchUpOnce'
  <2> SUFFICES ASSUME NEW q1 \in RunIds, NEW q2 \in RunIds, q1 < q2, runs'[q1].kind = "schedule",
                      runs'[q2].kind = "schedule", runs'[q1].spec = runs'[q2].spec
               PROVE  runs'[q1].made < runs'[q2].due \/ spec'[runs'[q1].spec].late
    BY DEF CatchUpOnce
  <2>1. q1 # r
    BY <1>2
  <2>2. KeptRun(q1) /\ runs[q1].kind = "schedule" /\ runs[q1].status # "absent"
    BY <1>1, <2>1 DEF KeptRun, RowsInOrder
  <2>3. Created(runs[q1].spec) /\ runs[q1].spec \in Schedules /\ KeptSpec(runs[q1].spec)
    BY <2>2 DEF SchedulesExist, Exists
  <2>4. CASE q2 = r
    <3>1. kind = "schedule" /\ runs[q1].spec = s /\ runs'[q1].spec = s
      BY <1>1, <2>2, <2>4 DEF KeptRun
    <3>2. spec[s].kind = "schedule" /\ spec[s].next = due /\ due # Null
      BY <3>1
    <3>3. spec[s].late \/ runs[q1].made < due
      BY <2>2, <3>1, <3>2 DEF Ahead, GoesOnAfter
    <3>4. spec[s].late => spec'[s].late
      BY <1>3 DEF KeptSpec
    <3>5. runs'[q1].made = runs[q1].made /\ runs'[q2].due = due
      BY <1>1, <2>2, <2>4 DEF KeptRun
    <3> QED BY <3>1, <3>3, <3>4, <3>5
  <2>5. CASE q2 # r
    BY <1>1, <2>2, <2>3, <2>5 DEF KeptRun, KeptSpec, CatchUpOnce
  <2> QED BY <2>4, <2>5
<1> QED BY <1>4, <1>5, <1>6, <1>7

\* Runs and schedules a step leaves alone.
LEMMA Unmoved ==
  ASSUME TypeOK
  PROVE  /\ runs' = runs => \A r \in RunIds : KeptRun(r)
         /\ \A s \in Schedules : Created(s) /\ spec'[s] = spec[s] => KeptSpec(s)
         /\ \A r \in RunIds : \A st :
              /\ runs'[r] = [runs[r] EXCEPT !.status = st] /\ st # "absent"
              /\ runs[r].status # "absent"
              => KeptRun(r)
BY DEF KeptRun, KeptSpec, Created, TypeOK, RunRow

\* The blocks of the other processes.
LEMMA BlocksKept ==
  ASSUME TypeOK, SchedulesExist, NEW p \in Procs, KeptBlock(p),
         \A s \in Schedules : Created(s) => KeptSpec(s),
         \A q \in Procs : q # p => proc'[q] = proc[q]
  PROVE  \A q \in Procs : KeptBlock(q)
BY DEF KeptBlock, KeptSpec, SchedulesExist, Exists, TypeOK, Block

LEMMA CreateKeepsSlots ==
  ASSUME SlotsInv, TypeOK', NEW p \in Procs, NEW s \in Schedules, NEW kind \in Kinds,
         NEW at \in 0 .. MaxNow, Create(p, s, kind, at)
  PROVE  SlotsInv'
<1> USE DEF SlotsInv
<1>1. spec'[s].rev > 0 /\ \A t \in Schedules : Created(t) => KeptSpec(t)
  <2>1. spec'[s].rev = 1 /\ ~Created(s)
    BY DEF Create, NewRow, TypeOK
  <2>2. \A t \in Schedules : t # s => spec'[t] = spec[t]
    BY DEF Create, TypeOK
  <2> QED BY <2>1, <2>2, Unmoved
<1>2. KeptBlock(p)
  BY <1>1 DEF Create, KeptBlock, Idle, TypeOK
<1>3. \A q \in Procs : KeptBlock(q)
  <2>1. \A q \in Procs : q # p => proc'[q] = proc[q]
    BY DEF Create, TypeOK
  <2> QED BY <1>1, <1>2, <2>1, BlocksKept
<1>4. runs' = runs /\ now' >= now
  BY NowIsTime DEF Create
<1> QED BY <1>1, <1>3, <1>4, Unmoved, SlotsKept

LEMMA ReadCreatedKeepsSlots ==
  ASSUME SlotsInv, TypeOK', NEW p \in Procs, ReadCreated(p) PROVE SlotsInv'
<1> USE DEF SlotsInv
<1>1. /\ UNCHANGED <<now, spec, runs>> /\ now' >= now
      /\ proc'[p].cur = proc[p].cur /\ proc'[p].pc = "initialize" /\ proc[p].pc = "create"
      /\ \A q \in Procs : q # p => proc'[q] = proc[q]
  BY NowIsTime DEF ReadCreated, TypeOK, Block
<1>2. KeptBlock(p)
  BY <1>1 DEF KeptBlock, SchedulesExist, AtHand, Exists, Created
<1>3. \A s \in Schedules : Created(s) => KeptSpec(s)
  BY <1>1, Unmoved
<1> QED BY <1>1, <1>2, <1>3, BlocksKept, Unmoved, SlotsKept

LEMMA InitializeKeepsSlots ==
  ASSUME SlotsInv, TypeOK', NEW p \in Procs, InitializeNext(p) PROVE SlotsInv'
<1> USE DEF SlotsInv
<1> DEFINE s == proc[p].cur
<1>1. s \in Schedules /\ Created(s)
  BY DEF InitializeNext, SchedulesExist, AtHand, Exists
<1>2. KeptSpec(s)
  <2> DEFINE n == proc[p].snap[s].next
             late == spec[s].late \/ QueuedBefore(s)
  <2>1. late \in BOOLEAN /\ (spec[s].late => late) /\ (QueuedBefore(s) => late)
    BY <1>1 DEF TypeOK, SpecRow, QueuedBefore
  <2>2. spec'[s] = [spec[s] EXCEPT !.next = n, !.late = late]
    BY <1>1 DEF InitializeNext, TypeOK
  <2> HIDE DEF s, n, late
  <2> QED BY <1>1, <2>1, <2>2 DEF KeptSpec, Created, TypeOK, SpecRow
<1>3. \A t \in Schedules : Created(t) => KeptSpec(t)
  <2>1. \A t \in Schedules : t # s => spec'[t] = spec[t]
    BY <1>1 DEF InitializeNext, TypeOK
  <2> QED BY <1>2, <2>1, Unmoved
<1>4. \A q \in Procs : KeptBlock(q)
  <2>1. \A q \in Procs : q # p => proc'[q] = proc[q]
    BY DEF InitializeNext, TypeOK
  <2>2. KeptBlock(p)
    BY DEF InitializeNext, KeptBlock, Idle, TypeOK, AtHand
  <2> QED BY <1>3, <2>1, <2>2, BlocksKept
<1>5. runs' = runs /\ now' >= now
  BY NowIsTime DEF InitializeNext
<1> QED BY <1>3, <1>4, <1>5, Unmoved, SlotsKept

\* An update keeps next_run_at or computes it anew; a new kind makes it compute.
LEMMA UpdatedSpec ==
  ASSUME TypeOK, NEW p \in Procs, NEW s \in Schedules, NEW edited, NEW timed, NEW switched,
         Update(p, s, edited, timed, switched)
  PROVE  /\ KeptSpec(s) /\ Created(s) /\ \A t \in Schedules \ {s} : spec'[t] = spec[t]
         /\ spec'[s].rev >= spec[s].rev
         /\ spec'[s].rev = spec[s].rev => spec'[s].kind = spec[s].kind
         /\ \/ runs' = runs /\ (spec[s].kind = "one_off" => spec'[s].rev = spec[s].rev)
            \/ runs' = OneOffsCancelled(s)
<1>1. spec[s] \in SpecRow /\ Created(s)
  BY DEF TypeOK, Update
<1>2. PICK new, stored :
        /\ Edits(spec[s], new)
        /\ MayAsk(spec[s], new, timed, switched)
        /\ stored = Upserted(spec[s], new, edited) /\ stored.rev <= MaxRev
        /\ Stores(s, spec[s], new, stored, timed, switched)
  BY UpdateParts
<1>3. /\ new \in SpecRow /\ new.rev = spec[s].rev /\ new.next = spec[s].next
      /\ new.late = spec[s].late
  BY <1>1, <1>2, EditsTypes
<1>4. /\ stored \in SpecRow
      /\ stored.rev = IF Meaningful(spec[s], new, edited) THEN spec[s].rev + 1 ELSE spec[s].rev
      /\ stored.next = new.next /\ stored.late = new.late /\ stored.kind = new.kind
  BY <1>1, <1>2, <1>3, UpsertedTypes
<1>5. /\ spec'[s].rev = stored.rev /\ spec'[s].late = stored.late /\ spec'[s].kind = stored.kind
      /\ spec'[s].next = IF timed \/ switched THEN InitialNext(new) ELSE stored.next
      /\ \A t \in Schedules \ {s} : spec'[t] = spec[t]
  <2>1. PICK n : /\ n = IF timed \/ switched THEN InitialNext(new) ELSE stored.next
                 /\ spec' = [spec EXCEPT ![s] = [stored EXCEPT !.next = n]]
    BY <1>2 DEF Stores
  <2>2. PICK final : final = [stored EXCEPT !.next = n]
    OBVIOUS
  <2>3. /\ final.rev = stored.rev /\ final.late = stored.late /\ final.kind = stored.kind
        /\ final.next = n
    BY <1>4, <2>2 DEF SpecRow
  <2>4. spec'[s] = final /\ \A t \in Schedules \ {s} : spec'[t] = spec[t]
    BY <2>1, <2>2 DEF TypeOK
  <2> QED BY <2>1, <2>3, <2>4
<1>6. /\ stored.rev >= spec[s].rev
      /\ stored.rev = spec[s].rev => ~Meaningful(spec[s], new, edited)
  BY <1>1, <1>4 DEF SpecRow
<1>7. KeptSpec(s)
  <2>1. spec'[s].rev > 0 /\ (spec[s].late => spec'[s].late)
    BY <1>1, <1>3, <1>4, <1>5, <1>6 DEF Created, SpecRow
  <2>2. CASE timed \/ switched
    <3>1. new.kind = "schedule" => InitialNext(new) \in {Null, NextSlot(now)}
      BY DEF InitialNext
    <3>2. NextSlot(now) > now
      BY NowIsTime, NextSlotLater
    <3> QED BY <1>4, <1>5, <2>1, <2>2, <3>1, <3>2 DEF KeptSpec
  <2>3. CASE ~(timed \/ switched)
    BY <1>2, <1>3, <1>4, <1>5, <2>1, <2>3 DEF KeptSpec, MayAsk
  <2> QED BY <2>2, <2>3
<1>8. spec'[s].rev = spec[s].rev => spec'[s].kind = spec[s].kind
  BY <1>4, <1>5, <1>6 DEF Meaningful
<1>9. \/ runs' = runs /\ (spec[s].kind = "one_off" => spec'[s].rev = spec[s].rev)
      \/ runs' = OneOffsCancelled(s)
  BY <1>2, <1>5 DEF Stores
<1> QED BY <1>1, <1>5, <1>6, <1>7, <1>8, <1>9

LEMMA UpdateKeepsSlots ==
  ASSUME SlotsInv, TypeOK', NEW p \in Procs, NEW s \in Schedules, NEW edited, NEW timed,
         NEW switched, Update(p, s, edited, timed, switched)
  PROVE  SlotsInv'
<1> USE DEF SlotsInv
<1>1. \A t \in Schedules : Created(t) => KeptSpec(t)
  BY UpdatedSpec, Unmoved
<1>2. \A r \in RunIds : KeptRun(r)
  <2>1. OneOffsCancelled(s) = runs' => \A r \in RunIds : KeptRun(r)
    BY Unmoved DEF OneOffsCancelled, KeptRun
  <2> QED BY <2>1, UpdatedSpec, Unmoved
<1>3. proc' = proc /\ now' >= now
  BY NowIsTime DEF Update
<1>4. \A q \in Procs : KeptBlock(q)
  BY <1>1, <1>3, BlocksKept DEF KeptBlock, KeptSpec, SchedulesExist, Exists, TypeOK, Block
<1> QED BY <1>1, <1>2, <1>3, <1>4, SlotsKept

LEMMA DeleteKeepsSlots ==
  ASSUME SlotsInv, TypeOK', NEW p \in Procs, (\E s \in Schedules : Delete(p, s)) \/ CancelQueued(p)
  PROVE  SlotsInv'
<1> USE DEF SlotsInv
<1>1. ASSUME NEW s \in Schedules, Delete(p, s) PROVE SlotsInv'
  <2>1. KeptSpec(s) /\ spec'[s].rev > 0
    BY <1>1 DEF Delete, KeptSpec, Created, TypeOK, SpecRow
  <2>2. \A t \in Schedules : t # s => spec'[t] = spec[t]
    BY <1>1 DEF Delete, TypeOK
  <2>3. \A t \in Schedules : Created(t) => KeptSpec(t)
    BY <2>1, <2>2, Unmoved
  <2>4. KeptBlock(p) /\ \A q \in Procs : q # p => proc'[q] = proc[q]
    BY <1>1, <2>1 DEF Delete, KeptBlock, Idle, TypeOK
  <2>5. \A q \in Procs : KeptBlock(q)
    BY <2>3, <2>4, BlocksKept
  <2>6. runs' = runs /\ now' >= now
    <3>1. runs' = runs /\ now' = now
      BY <1>1 DEF Delete
    <3> QED BY <3>1, NowIsTime
  <2> QED BY <2>3, <2>5, <2>6, Unmoved, SlotsKept
<1>2. CASE CancelQueued(p)
  <2>1. \A r \in RunIds : KeptRun(r)
    BY <1>2, Unmoved DEF CancelQueued, KeptRun
  <2>2. now' >= now /\ \A t \in Schedules : Created(t) => KeptSpec(t)
    BY <1>2, NowIsTime, Unmoved DEF CancelQueued
  <2>3. KeptBlock(p) /\ \A q \in Procs : q # p => proc'[q] = proc[q]
    BY <1>2 DEF CancelQueued, KeptBlock, Idle, TypeOK, AtHand
  <2>4. \A q \in Procs : KeptBlock(q)
    BY <2>2, <2>3, BlocksKept
  <2> QED BY <2>1, <2>2, <2>4, SlotsKept
<1> QED BY <1>1, <1>2

\* The steps of a listing, and a trigger, only move a process.
LEMMA ListingKeepsSlots ==
  ASSUME SlotsInv, TypeOK', NEW p \in Procs,
         \/ \E s \in Schedules : Trigger(p, s) \/ CheckOneOff(p, s)
         \/ ListOneOffs(p) \/ ListSchedules(p) \/ MaterializeEnds(p) \/ Crash(p)
  PROVE  SlotsInv'
<1> USE DEF SlotsInv
<1>1. UNCHANGED <<now, spec, runs>>
  BY DEF Trigger, CheckOneOff, ListOneOffs, ListSchedules, MaterializeEnds, Crash
<1>2. \A t \in Schedules : Created(t) => KeptSpec(t)
  BY <1>1, Unmoved
<1>3. \A q \in Procs : q # p => proc'[q] = proc[q]
  BY DEF Trigger, CheckOneOff, ListOneOffs, ListSchedules, MaterializeEnds, Crash, TypeOK
<1>4. KeptBlock(p)
  <2>1. ASSUME NEW s \in Schedules, Trigger(p, s) PROVE KeptBlock(p)
    <3>1. spec'[s].rev > 0
      BY <1>1, <2>1 DEF Trigger, Runnable
    <3> QED BY <2>1, <3>1 DEF Trigger, KeptBlock, Idle, TypeOK
  <2>2. ASSUME NEW s \in Schedules, CheckOneOff(p, s) PROVE KeptBlock(p)
    <3>1. \A u \in proc[p].todo : u \in Schedules /\ spec'[u].rev > 0
      BY <1>1, <2>2 DEF CheckOneOff, SchedulesExist, Created, TypeOK, Block
    <3>2. s \in proc[p].todo /\ proc[p] \in Block
      BY <2>2 DEF CheckOneOff, TypeOK
    <3>3. \/ proc'[p] = Visited(proc[p], s)
          \/ proc'[p] = [proc[p] EXCEPT !.pc = "insert", !.cur = s]
      BY <2>2 DEF CheckOneOff, TypeOK
    <3> QED BY <3>1, <3>2, <3>3 DEF Visited, KeptBlock, Block, AtHand
  <2>3. CASE ListOneOffs(p)
    <3>1. \A u \in Listed("one_off") : u \in Schedules /\ spec'[u].rev > 0
      BY <1>1 DEF Listed, Runnable
    <3>2. proc'[p].pc = "one_offs" /\ proc'[p].todo = Listed("one_off")
      BY <2>3 DEF ListOneOffs, Idle, TypeOK
    <3> QED BY <3>1, <3>2 DEF KeptBlock, AtHand
  <2>4. CASE ListSchedules(p)
    BY <2>4 DEF ListSchedules, KeptBlock, Idle, TypeOK, AtHand
  <2>5. CASE MaterializeEnds(p)
    BY <2>5 DEF MaterializeEnds, KeptBlock, Idle, TypeOK, AtHand
  <2>6. CASE Crash(p)
    BY <2>6 DEF Crash, KeptBlock, Idle, TypeOK, AtHand
  <2> QED BY <2>1, <2>2, <2>3, <2>4, <2>5, <2>6
<1>5. \A q \in Procs : KeptBlock(q)
  BY <1>2, <1>3, <1>4, BlocksKept
<1>6. now' >= now
  BY <1>1, NowIsTime
<1> QED BY <1>1, <1>2, <1>5, <1>6, Unmoved, SlotsKept

\* Runs start and end, and time passes.
LEMMA EndingKeepsSlots ==
  ASSUME SlotsInv, TypeOK',
         \/ Advance
         \/ \E p \in Procs, r \in RunIds :
              Start(p, r) \/ \E st \in {"done", "cancelled"} : Finish(p, r, st)
  PROVE  SlotsInv'
<1> USE DEF SlotsInv
<1>1. now' >= now /\ proc' = proc
  <2>1. now' \in {now, now + 1} /\ proc' = proc
    BY DEF Advance, Start, Finish
  <2> QED BY <2>1, NowIsTime
<1>2. \A t \in Schedules : Created(t) => KeptSpec(t)
  <2>1. CASE spec' = spec
    BY <2>1, Unmoved
  <2>2. ASSUME NEW s \in Schedules, spec' = [spec EXCEPT ![s].next = Null]
        PROVE  \A t \in Schedules : Created(t) => KeptSpec(t)
    <3>1. \A t \in Schedules : t # s => spec'[t] = spec[t]
      BY <2>2 DEF TypeOK
    <3>2. Created(s) => KeptSpec(s)
      BY <2>2 DEF KeptSpec, Created, TypeOK, SpecRow
    <3> QED BY <3>1, <3>2, Unmoved
  <2>3. spec' = spec \/ \E s \in Schedules : spec' = [spec EXCEPT ![s].next = Null]
    BY DEF Advance, Start, Finish, SchedulesExist, Exists
  <2> QED BY <2>1, <2>2, <2>3
<1>3. \A r \in RunIds : KeptRun(r)
  <2>1. CASE runs' = runs
    BY <2>1, Unmoved
  <2>2. ASSUME NEW p \in Procs, NEW q \in RunIds, Start(p, q) PROVE \A r \in RunIds : KeptRun(r)
    <3>1. \A r \in RunIds : r # q => runs'[r] = runs[r]
      BY <2>2 DEF Start, TypeOK
    <3>2. runs[q].status = "queued" /\ runs[q] \in RunRow
      BY <2>2 DEF Start, TypeOK
    <3>3. \/ runs'[q] = [runs[q] EXCEPT !.status = "running", !.started = TRUE]
          \/ runs'[q] = [runs[q] EXCEPT !.status = "cancelled"]
      BY <2>2 DEF Start, TypeOK
    <3>4. KeptRun(q)
      BY <3>2, <3>3 DEF KeptRun, RunRow
    <3> QED BY <3>1, <3>4 DEF KeptRun
  <2>3. ASSUME NEW p \in Procs, NEW q \in RunIds, NEW st \in {"done", "cancelled"}, Finish(p, q, st)
        PROVE  \A r \in RunIds : KeptRun(r)
    <3>1. runs'[q] = [runs[q] EXCEPT !.status = st] /\ runs[q].status = "running"
      BY <2>3 DEF Finish, TypeOK
    <3>2. \A r \in RunIds : r # q => runs'[r] = runs[r]
      BY <2>3 DEF Finish, TypeOK
    <3>3. KeptRun(q)
      BY <3>1, Unmoved
    <3> QED BY <3>2, <3>3 DEF KeptRun
  <2> QED BY <2>1, <2>2, <2>3 DEF Advance
<1>4. \A q \in Procs : KeptBlock(q)
  BY <1>1, <1>2 DEF KeptBlock, KeptSpec, SchedulesExist, Exists, TypeOK, Block
<1> QED BY <1>1, <1>2, <1>3, <1>4, SlotsKept

\* A row put into the first free place.
LEMMA PutNew ==
  ASSUME TypeOK, NEW r \in RunIds, NextFree(r), NEW s, NEW rev, NEW kind, NEW due,
         runs' = [runs EXCEPT ![r] = QueuedRun(s, rev, kind, due)]
  PROVE  NewRun(r, s, kind, due) /\ runs'[r].rev = rev
<1>1. runs'[r] = QueuedRun(s, rev, kind, due) /\ \A q \in RunIds \ {r} : runs'[q] = runs[q]
  BY DEF TypeOK
<1>2. runs'[r].rev = rev
  BY <1>1 DEF QueuedRun
<1> QED BY <1>1, <1>2 DEF NewRun, KeptRun

LEMMA TriggerKeepsSlots ==
  ASSUME SlotsInv, TypeOK', NEW p \in Procs, TriggerRecurring(p) PROVE SlotsInv'
<1> USE DEF SlotsInv
<1> DEFINE s == proc[p].cur
<1>1. Created(s) /\ s \in Schedules
  BY DEF TriggerRecurring, SchedulesExist, AtHand, Exists
<1>2. PICK r \in RunIds : /\ NextFree(r)
                          /\ runs' = [runs EXCEPT ![r] =
                               QueuedRun(s, proc[p].snap[s].rev, "manual", now)]
  BY DEF TriggerRecurring
<1>3. NewRun(r, s, "manual", now)
  BY <1>2, PutNew
<1>4. \A t \in Schedules : Created(t) => KeptSpec(t)
  BY Unmoved DEF TriggerRecurring
<1>5. \A q \in Procs : KeptBlock(q)
  <2>1. \A q \in Procs : q # p => proc'[q] = proc[q]
    BY DEF TriggerRecurring, TypeOK
  <2>2. KeptBlock(p)
    BY DEF TriggerRecurring, KeptBlock, Idle, TypeOK, AtHand
  <2> QED BY <1>4, <2>1, <2>2, BlocksKept
<1>6. now' = now
  BY DEF TriggerRecurring
<1> HIDE DEF s
<1> QED BY <1>1, <1>3, <1>4, <1>5, <1>6, SlotsKeptByNew

\* Consuming queues a manual run, and withdraws the planned one.
LEMMA ConsumeKeepsSlots ==
  ASSUME SlotsInv, TypeOK', NEW p \in Procs, ConsumeOneOff(p) PROVE SlotsInv'
<1> USE DEF SlotsInv
<1> DEFINE s == proc[p].cur
           rev == proc[p].snap[s].rev
<1>1. Created(s) /\ s \in Schedules /\ now' = now
  BY DEF ConsumeOneOff, SchedulesExist, AtHand, Exists
<1>2. \A t \in Schedules : Created(t) => KeptSpec(t)
  <2>1. CASE spec' = spec
    BY <2>1, Unmoved
  <2>2. CASE spec' = [spec EXCEPT ![s].next = Null]
    <3>1. \A t \in Schedules : t # s => spec'[t] = spec[t]
      BY <1>1, <2>2 DEF TypeOK
    <3>2. KeptSpec(s)
      BY <1>1, <2>2 DEF KeptSpec, Created, TypeOK, SpecRow
    <3> QED BY <3>1, <3>2, Unmoved
  <2> QED BY <2>1, <2>2 DEF ConsumeOneOff
<1>3. \A q \in Procs : KeptBlock(q)
  <2>1. \A q \in Procs : q # p => proc'[q] = proc[q]
    BY DEF ConsumeOneOff, TypeOK
  <2>2. KeptBlock(p)
    BY DEF ConsumeOneOff, KeptBlock, Idle, TypeOK, AtHand
  <2> QED BY <1>2, <2>1, <2>2, BlocksKept
<1>4. CASE runs' = runs
  <2>1. now' >= now
    BY <1>1, NowIsTime
  <2> QED BY <1>2, <1>3, <1>4, <2>1, Unmoved, SlotsKept
<1>5. CASE runs' # runs
  <2>1. PICK r \in RunIds, S \in SUBSET RunIds :
          /\ NextFree(r) /\ \A q \in S : runs[q].status = "queued"
          /\ runs' = [q \in RunIds |->
               IF q = r THEN QueuedRun(s, rev, "manual", now)
               ELSE IF q \in S THEN [runs[q] EXCEPT !.status = "cancelled"] ELSE runs[q]]
    <3> DEFINE S == {r \in Standing(s, rev) : runs[r].kind = "one_off" /\ runs[r].status = "queued"}
    <3>1. S \in SUBSET RunIds /\ \A q \in S : runs[q].status = "queued"
      BY DEF Standing, RunsOf
    <3>2. \E r \in RunIds :
            /\ NextFree(r)
            /\ runs' = [q \in RunIds |->
                 IF q = r THEN QueuedRun(s, rev, "manual", now)
                 ELSE IF q \in S THEN [runs[q] EXCEPT !.status = "cancelled"] ELSE runs[q]]
      BY <1>5 DEF ConsumeOneOff
    <3> HIDE DEF S, s, rev
    <3> QED BY <3>1, <3>2
  <2>2. NewRun(r, s, "manual", now)
    <3>1. runs'[r] = QueuedRun(s, rev, "manual", now)
      BY <2>1
    <3>2. runs'[r] = QueuedRun(s, runs'[r].rev, "manual", now)
      BY <3>1 DEF QueuedRun
    <3>3. \A q \in RunIds \ {r} :
            runs'[q] = IF q \in S THEN [runs[q] EXCEPT !.status = "cancelled"] ELSE runs[q]
      BY <2>1
    <3>4. \A q \in RunIds \ {r} : KeptRun(q)
      BY <2>1, <3>3, Unmoved DEF KeptRun
    <3> QED BY <2>1, <3>2, <3>4 DEF NewRun
  <2> HIDE DEF s
  <2> QED BY <1>1, <1>2, <1>3, <2>2, SlotsKeptByNew
<1> QED BY <1>4, <1>5

LEMMA InsertKeepsSlots ==
  ASSUME SlotsInv, TypeOK', NEW p \in Procs, InsertOneOff(p) PROVE SlotsInv'
<1> USE DEF SlotsInv
<1> DEFINE s == proc[p].cur
           seen == proc[p].snap[s]
<1>1. Created(s) /\ s \in Schedules /\ UNCHANGED <<now, spec>> /\ proc[p] \in Block
  BY DEF InsertOneOff, SchedulesExist, AtHand, Exists, TypeOK
<1>2. \A t \in Schedules : Created(t) => KeptSpec(t)
  BY <1>1, Unmoved
<1>3. \A q \in Procs : KeptBlock(q)
  <2>1. \A q \in Procs : q # p => proc'[q] = proc[q]
    BY DEF InsertOneOff, TypeOK
  <2>2. proc'[p] \in {Idle, Visited(proc[p], s)}
    BY DEF InsertOneOff, TypeOK
  <2>3. \A u \in proc[p].todo : u \in Schedules /\ spec'[u].rev > 0
    BY <1>1 DEF InsertOneOff, SchedulesExist, Created, Block
  <2>4. KeptBlock(p)
    <3>1. CASE proc'[p] = Idle
      BY <3>1 DEF KeptBlock, Idle, AtHand
    <3>2. CASE proc'[p] = Visited(proc[p], s)
      <4>1. proc'[p].pc = "one_offs" /\ proc'[p].todo \subseteq proc[p].todo
        BY <1>1, <3>2 DEF Visited, Block
      <4> QED BY <2>3, <4>1 DEF KeptBlock, AtHand
    <3> QED BY <2>2, <3>1, <3>2
  <2> QED BY <1>2, <2>1, <2>4, BlocksKept
<1>4. CASE runs' = runs
  <2>1. now' >= now
    BY <1>1, NowIsTime
  <2> QED BY <1>2, <1>3, <1>4, <2>1, Unmoved, SlotsKept
<1>5. CASE runs' # runs
  <2>1. PICK r \in RunIds :
          /\ NextFree(r)
          /\ \E due : runs' = [runs EXCEPT ![r] = QueuedRun(s, seen.rev, "one_off", due)]
    BY <1>5 DEF InsertOneOff
  <2>3. PICK due : runs' = [runs EXCEPT ![r] = QueuedRun(s, seen.rev, "one_off", due)]
    BY <2>1
  <2>2. NewRun(r, s, "one_off", due)
    BY <2>1, <2>3, PutNew
  <2> HIDE DEF s
  <2> QED BY <1>1, <1>2, <1>3, <2>2, SlotsKeptByNew
<1> QED BY <1>4, <1>5

\* A recurring schedule that is due goes on after the present.
LEMMA MaterializeKeepsSlots ==
  ASSUME SlotsInv, TypeOK', NEW p \in Procs, NEW s \in Schedules, MaterializeDue(p, s)
  PROVE  SlotsInv'
<1> USE DEF SlotsInv
<1>1. now \in Nat /\ now' = now /\ NextSlot(now) > now
  BY NowIsTime, NextSlotLater DEF MaterializeDue
<1>2. spec' = spec \/ spec' = [spec EXCEPT ![s].next = NextSlot(now)]
  BY DEF MaterializeDue, NextAfterRun
<1>3. \A t \in Schedules : Created(t) => KeptSpec(t)
  <2>1. CASE spec' = spec
    BY <2>1, Unmoved
  <2>2. CASE spec' = [spec EXCEPT ![s].next = NextSlot(now)]
    <3>1. \A t \in Schedules : t # s => spec'[t] = spec[t]
      BY <2>2 DEF TypeOK
    <3>2. Created(s) => KeptSpec(s)
      BY <1>1, <2>2 DEF KeptSpec, Created, TypeOK, SpecRow
    <3> QED BY <3>1, <3>2, Unmoved
  <2> QED BY <1>2, <2>1, <2>2
<1>4. \A q \in Procs : KeptBlock(q)
  <2>1. \A q \in Procs : q # p => proc'[q] = proc[q]
    BY DEF MaterializeDue, TypeOK
  <2>2. KeptBlock(p)
    <3>1. proc'[p] = [proc[p] EXCEPT !.todo = proc[p].todo \ {s}]
      BY DEF MaterializeDue, TypeOK
    <3>2. proc[p].pc = "schedules" /\ proc[p] \in Block
      BY DEF MaterializeDue, TypeOK
    <3>3. proc'[p].pc = "schedules"
      BY <3>1, <3>2 DEF Block
    <3> QED BY <3>3 DEF KeptBlock, AtHand
  <2> QED BY <1>3, <2>1, <2>2, BlocksKept
<1>5. CASE runs' = runs
  <2>1. now' >= now
    BY <1>1
  <2> QED BY <1>3, <1>4, <1>5, <2>1, Unmoved, SlotsKept
<1>6. CASE runs' # runs
  <2>1. /\ spec[s].kind = "schedule" /\ Created(s) /\ spec[s].next # Null
        /\ spec' = [spec EXCEPT ![s].next = NextSlot(now)]
    BY <1>6 DEF MaterializeDue, Runnable, Created, NextAfterRun
  <2>2. PICK r \in RunIds : /\ NextFree(r)
                            /\ runs' = [runs EXCEPT ![r] =
                                          QueuedRun(s, spec[s].rev, "schedule", spec[s].next)]
    BY <1>6 DEF MaterializeDue
  <2>3. PICK due : due = spec[s].next
    OBVIOUS
  <2>4. NewRun(r, s, "schedule", due)
    BY <2>2, <2>3, PutNew
  <2>5. spec'[s].next > now
    BY <1>1, <2>1 DEF TypeOK, SpecRow
  <2> QED BY <1>1, <1>3, <1>4, <2>1, <2>3, <2>4, <2>5, SlotsKeptByNew
<1> QED BY <1>5, <1>6

LEMMA SlotsInit == Init => SlotsInv
<1> SUFFICES ASSUME Init PROVE SlotsInv
  OBVIOUS
<1>1. TypeOK
  BY Unused, ConstantsAssumption DEF Init, TypeOK
<1>2. /\ \A r \in RunIds : runs[r].status = "absent" /\ runs[r].kind = "none"
      /\ \A p \in Procs : proc[p].pc = "idle"
  BY DEF Init, NoRun, Idle
<1> QED BY <1>1, <1>2
    DEF SlotsInv, SchedulesExist, AtHand, RowsInOrder, Ahead, CatchUpOnce

LEMMA SlotsStep == SlotsInv /\ [Next]_vars => SlotsInv'
<1> SUFFICES ASSUME SlotsInv, [Next]_vars PROVE SlotsInv'
  OBVIOUS
<1>1. TypeOK'
  BY TypesKept DEF SlotsInv
<1>2. CASE Next
  <2>1. ASSUME NEW p \in Procs, NEW s \in Schedules, NEW kind \in Kinds, NEW at \in 0 .. MaxNow,
               Create(p, s, kind, at)
        PROVE  SlotsInv'
    BY <1>1, <2>1, CreateKeepsSlots
  <2>2. ASSUME NEW p \in Procs, NEW s \in Schedules, NEW edited, NEW timed, NEW switched,
               Update(p, s, edited, timed, switched)
        PROVE  SlotsInv'
    BY <1>1, <2>2, UpdateKeepsSlots
  <2>3. ASSUME NEW p \in Procs, Continue(p) PROVE SlotsInv'
    <3>1. CASE InitializeNext(p)
      BY <1>1, <3>1, InitializeKeepsSlots
    <3>2. CASE CancelQueued(p)
      BY <1>1, <3>2, DeleteKeepsSlots
    <3>3. CASE TriggerRecurring(p)
      BY <1>1, <3>3, TriggerKeepsSlots
    <3>4. CASE ConsumeOneOff(p)
      BY <1>1, <3>4, ConsumeKeepsSlots
    <3>5. CASE InsertOneOff(p)
      BY <1>1, <3>5, InsertKeepsSlots
    <3>6. CASE \E s \in Schedules : MaterializeDue(p, s)
      BY <1>1, <3>6, MaterializeKeepsSlots
    <3>7. CASE \/ ListSchedules(p) \/ MaterializeEnds(p)
               \/ \E s \in Schedules : CheckOneOff(p, s)
      BY <1>1, <3>7, ListingKeepsSlots
    <3>8. CASE ReadCreated(p)
      BY <1>1, <3>8, ReadCreatedKeepsSlots
    <3> QED BY <2>3, <3>1, <3>2, <3>3, <3>4, <3>5, <3>6, <3>7, <3>8 DEF Continue
  <2>4. ASSUME NEW p \in Procs, \/ \E s \in Schedules : Delete(p, s) \/ Trigger(p, s)
                                \/ ListOneOffs(p) \/ Crash(p)
        PROVE  SlotsInv'
    BY <1>1, <2>4, DeleteKeepsSlots, ListingKeepsSlots
  <2> QED BY <1>1, <1>2, <2>1, <2>2, <2>3, <2>4, EndingKeepsSlots DEF Next
<1>3. CASE UNCHANGED vars
  <2>1. TypeOK' /\ SchedulesExist' /\ RowsInOrder' /\ Ahead' /\ CatchUpOnce'
    BY <1>1, <1>3 DEF vars, SlotsInv, SchedulesExist, AtHand, Exists, Created, RowsInOrder, Ahead,
                      GoesOnAfter, CatchUpOnce
  <2> QED BY <2>1 DEF SlotsInv
<1> QED BY <1>2, <1>3

-----------------------------------------------------------------------------
(* However many processes share the database.                              *)

\* Schedules, runs and processes keep their types.
THEOREM SpecsTypes == Spec => []TypeOK
<1>1. Init => SlotsInv
  BY SlotsInit
<1>2. SlotsInv /\ [Next]_vars => SlotsInv'
  BY SlotsStep
<1>3. SlotsInv => TypeOK
  BY DEF SlotsInv
<1> QED BY <1>1, <1>2, <1>3, PTL DEF Spec

\* A recurring schedule queues one run for all the slots it missed, whoever else
\* edits it, materializes it or crashes (materializeDueScheduleRun advances it past
\* the present in the transaction that queues the run).
THEOREM MissedSlotsMakeOneRun == Spec => []CatchUpOnce
<1>1. Init => SlotsInv
  BY SlotsInit
<1>2. SlotsInv /\ [Next]_vars => SlotsInv'
  BY SlotsStep
<1>3. SlotsInv => CatchUpOnce
  BY DEF SlotsInv
<1> QED BY <1>1, <1>2, <1>3, PTL DEF Spec

-----------------------------------------------------------------------------
(* One process: a revision of a one-time schedule runs once, in its time.  *)

Alone == \A p, q \in Procs : p = q

\* A step takes no run back, and gives no schedule another kind or revision.
ForwardRun(r) ==
  /\ KeptRun(r)
  /\ runs[r].status = "cancelled" => runs'[r].status = "cancelled"
  /\ runs'[r].status = "queued" => runs[r].status = "queued"
SameRevision(s) == spec'[s].rev = spec[s].rev /\ spec'[s].kind = spec[s].kind

LEMMA QuietSteps ==
  ASSUME SlotsInv,
         \/ Advance
         \/ \E p \in Procs :
              \/ \E s \in Schedules :
                   \/ \E kind \in Kinds, at \in 0 .. MaxNow : Create(p, s, kind, at)
                   \/ Delete(p, s) \/ Trigger(p, s) \/ CheckOneOff(p, s)
              \/ ReadCreated(p) \/ InitializeNext(p) \/ CancelQueued(p)
              \/ ListOneOffs(p) \/ ListSchedules(p) \/ MaterializeEnds(p) \/ Crash(p)
              \/ \E r \in RunIds : Start(p, r) \/ \E st \in {"done", "cancelled"} : Finish(p, r, st)
  PROVE  /\ \A r \in RunIds : ForwardRun(r)
         /\ \A s \in Schedules : Created(s) => SameRevision(s)
<1> USE DEF SlotsInv
<1>1. \A r \in RunIds : ForwardRun(r)
  <2>1. CASE runs' = runs
    BY <2>1, Unmoved DEF ForwardRun
  <2>2. ASSUME NEW p \in Procs, CancelQueued(p) PROVE \A r \in RunIds : ForwardRun(r)
    <3> SUFFICES ASSUME NEW r \in RunIds PROVE ForwardRun(r)
      OBVIOUS
    <3>1. \/ runs'[r] = runs[r]
          \/ runs[r].status = "queued" /\ runs'[r] = [runs[r] EXCEPT !.status = "cancelled"]
      BY <2>2 DEF CancelQueued
    <3>2. runs[r] \in RunRow
      BY DEF TypeOK
    <3> QED BY <3>1, <3>2 DEF ForwardRun, KeptRun, RunRow
  <2>3. ASSUME NEW p \in Procs, NEW q \in RunIds, Start(p, q)
        PROVE  \A r \in RunIds : ForwardRun(r)
    <3>1. \A r \in RunIds : r # q => runs'[r] = runs[r]
      BY <2>3 DEF Start, TypeOK
    <3>2. runs[q].status = "queued" /\ runs[q] \in RunRow
      BY <2>3 DEF Start, TypeOK
    <3>3. \/ runs'[q] = [runs[q] EXCEPT !.status = "running", !.started = TRUE]
          \/ runs'[q] = [runs[q] EXCEPT !.status = "cancelled"]
      BY <2>3 DEF Start, TypeOK
    <3>4. ForwardRun(q)
      BY <3>2, <3>3 DEF ForwardRun, KeptRun, RunRow
    <3> QED BY <3>1, <3>4 DEF ForwardRun, KeptRun
  <2>4. ASSUME NEW p \in Procs, NEW q \in RunIds, NEW st \in {"done", "cancelled"}, Finish(p, q, st)
        PROVE  \A r \in RunIds : ForwardRun(r)
    <3>1. runs'[q] = [runs[q] EXCEPT !.status = st] /\ runs[q].status = "running"
      BY <2>4 DEF Finish, TypeOK
    <3>2. \A r \in RunIds : r # q => runs'[r] = runs[r]
      BY <2>4 DEF Finish, TypeOK
    <3>3. ForwardRun(q)
      BY <3>1 DEF ForwardRun, KeptRun, TypeOK, RunRow
    <3> QED BY <3>2, <3>3 DEF ForwardRun, KeptRun
  <2>5. ASSUME runs' # runs
        PROVE  \E p \in Procs : CancelQueued(p) \/ \E r \in RunIds :
                 Start(p, r) \/ \E st \in {"done", "cancelled"} : Finish(p, r, st)
    BY <2>5 DEF Advance, Create, Delete, Trigger, CheckOneOff, ReadCreated, InitializeNext,
                ListOneOffs, ListSchedules, MaterializeEnds, Crash
  <2> QED BY <2>1, <2>2, <2>3, <2>4, <2>5
<1>2. \A s \in Schedules : Created(s) => SameRevision(s)
  <2>1. CASE spec' = spec
    BY <2>1 DEF SameRevision
  <2>2. ASSUME NEW p \in Procs, NEW s \in Schedules, NEW kind \in Kinds, NEW at \in 0 .. MaxNow,
               Create(p, s, kind, at)
        PROVE  \A t \in Schedules : Created(t) => SameRevision(t)
    BY <2>2 DEF Create, SameRevision, TypeOK
  <2>3. ASSUME NEW p \in Procs, NEW s \in Schedules, Delete(p, s)
        PROVE  \A t \in Schedules : Created(t) => SameRevision(t)
    BY <2>3 DEF Delete, SameRevision, TypeOK, SpecRow
  <2>4. ASSUME NEW p \in Procs, InitializeNext(p)
        PROVE  \A t \in Schedules : Created(t) => SameRevision(t)
    <3> DEFINE s == proc[p].cur
    <3>1. s \in Schedules /\ spec[s] \in SpecRow
      BY <2>4 DEF InitializeNext, SchedulesExist, AtHand, Exists, TypeOK
    <3>2. \E n, b : spec'[s] = [spec[s] EXCEPT !.next = n, !.late = b]
      BY <2>4, <3>1 DEF InitializeNext, TypeOK
    <3>3. SameRevision(s)
      BY <3>1, <3>2 DEF SameRevision, SpecRow
    <3>4. \A t \in Schedules : t # s => spec'[t] = spec[t]
      BY <2>4, <3>1 DEF InitializeNext, TypeOK
    <3> QED BY <3>3, <3>4 DEF SameRevision
  <2>5. ASSUME NEW s, spec' = [spec EXCEPT ![s].next = Null]
        PROVE  \A t \in Schedules : Created(t) => SameRevision(t)
    BY <2>5 DEF SameRevision, TypeOK, SpecRow
  <2>6. \/ spec' = spec
        \/ \E p \in Procs, s \in Schedules :
             Delete(p, s) \/ \E kind \in Kinds, at \in 0 .. MaxNow : Create(p, s, kind, at)
        \/ \E p \in Procs : InitializeNext(p)
        \/ \E s : spec' = [spec EXCEPT ![s].next = Null]
    BY DEF Advance, Trigger, CheckOneOff, CancelQueued, ListOneOffs, ListSchedules, ReadCreated,
           MaterializeEnds, Crash, Start, Finish
  <2> QED BY <2>1, <2>2, <2>3, <2>4, <2>5, <2>6
<1> QED BY <1>1, <1>2

\* Steps that queue no run keep the revisions in order.
LEMMA RevisionsKept ==
  ASSUME SlotsInv, OneOffRevisions, OneRunPerRevision,
         \A r \in RunIds : ForwardRun(r),
         \A r \in RunIds : runs[r].kind = "one_off" =>
           LET s == runs[r].spec
           IN  /\ spec'[s].rev >= spec[s].rev
               /\ spec'[s].rev = spec[s].rev => spec'[s].kind = spec[s].kind
               /\ runs'[r].status = "queued" => spec'[s].rev = spec[s].rev,
         TypeOK'
  PROVE  OneOffRevisions' /\ OneRunPerRevision'
<1> USE DEF SlotsInv
<1>1. OneOffRevisions'
  <2> SUFFICES ASSUME NEW r \in RunIds, runs'[r].kind = "one_off"
               PROVE  /\ runs'[r].rev <= spec'[runs'[r].spec].rev
                      /\ runs'[r].rev = spec'[runs'[r].spec].rev
                           => spec'[runs'[r].spec].kind = "one_off"
                      /\ runs'[r].status = "queued" => runs'[r].rev = spec'[runs'[r].spec].rev
    BY DEF OneOffRevisions
  <2>1. /\ runs[r].kind = "one_off" /\ runs'[r].spec = runs[r].spec /\ runs'[r].rev = runs[r].rev
        /\ runs'[r].status = "queued" => runs[r].status = "queued"
    BY DEF ForwardRun, KeptRun
  <2>2. runs[r].spec \in Schedules
    BY <2>1 DEF RowsInOrder, SchedulesExist, Exists
  <2>3. runs[r].rev \in Nat /\ spec[runs[r].spec].rev \in Nat /\ spec'[runs[r].spec].rev \in Nat
    BY <2>2, ConstantsAssumption DEF TypeOK, RunRow, SpecRow
  <2> QED BY <2>1, <2>3 DEF OneOffRevisions
<1>2. OneRunPerRevision'
  BY DEF OneRunPerRevision, ForwardRun, KeptRun
<1> QED BY <1>1, <1>2

\* So does a step that queues a run beside none that counts.
LEMMA RevisionsKeptByNew ==
  ASSUME SlotsInv, TypeOK', OneOffRevisions, OneRunPerRevision,
         NEW r \in RunIds, NEW s \in Schedules, NEW kind \in {"one_off", "manual", "schedule"},
         NEW due, NewRun(r, s, kind, due),
         \A q \in RunIds \ {r} : ForwardRun(q),
         \A t \in Schedules : SameRevision(t),
         kind = "one_off" => runs'[r].rev = spec[s].rev /\ spec[s].kind = "one_off",
         \A q \in RunIds \ {r} :
           /\ runs[q].spec = s /\ runs[q].rev = runs'[r].rev
           /\ \/ kind = "one_off" /\ runs[q].kind \in {"one_off", "manual"}
              \/ kind = "manual" /\ runs[q].kind = "one_off"
           => runs'[q].status = "cancelled"
  PROVE  OneOffRevisions' /\ OneRunPerRevision'
<1> USE DEF SlotsInv
<1>1. runs'[r].spec = s /\ runs'[r].kind = kind
  BY DEF NewRun, QueuedRun
<1>2. OneOffRevisions'
  <2> SUFFICES ASSUME NEW q \in RunIds, runs'[q].kind = "one_off"
               PROVE  /\ runs'[q].rev <= spec'[runs'[q].spec].rev
                      /\ runs'[q].rev = spec'[runs'[q].spec].rev
                           => spec'[runs'[q].spec].kind = "one_off"
                      /\ runs'[q].status = "queued" => runs'[q].rev = spec'[runs'[q].spec].rev
    BY DEF OneOffRevisions
  <2>1. CASE q = r
    <3>1. runs'[r].rev = spec'[s].rev /\ spec'[s].kind = "one_off" /\ spec'[s].rev \in Nat
      BY <1>1, <2>1, ConstantsAssumption DEF SameRevision, TypeOK, SpecRow
    <3> QED BY <1>1, <2>1, <3>1
  <2>2. CASE q # r
    <3>1. /\ runs[q].kind = "one_off" /\ runs'[q].spec = runs[q].spec /\ runs'[q].rev = runs[q].rev
          /\ runs'[q].status = "queued" => runs[q].status = "queued"
      BY <2>2 DEF ForwardRun, KeptRun
    <3>2. runs[q].spec \in Schedules
      BY <3>1 DEF RowsInOrder, SchedulesExist, Exists
    <3> QED BY <3>1, <3>2 DEF OneOffRevisions, SameRevision
  <2> QED BY <2>1, <2>2
<1>3. OneRunPerRevision'
  <2> SUFFICES ASSUME NEW q1 \in RunIds, NEW q2 \in RunIds, q1 # q2,
                      runs'[q1].spec = runs'[q2].spec, runs'[q1].rev = runs'[q2].rev,
                      runs'[q1].kind = "one_off", runs'[q2].kind \in {"one_off", "manual"}
               PROVE  "cancelled" \in {runs'[q1].status, runs'[q2].status}
    BY DEF OneRunPerRevision
  <2>1. CASE q1 = r
    BY <1>1, <2>1 DEF ForwardRun, KeptRun
  <2>2. CASE q2 = r
    BY <1>1, <2>2 DEF ForwardRun, KeptRun
  <2>3. CASE q1 # r /\ q2 # r
    BY <2>3 DEF ForwardRun, KeptRun, OneRunPerRevision
  <2> QED BY <2>1, <2>2, <2>3
<1> QED BY <1>2, <1>3

\* A process that is alone and reads nothing that it will use.
LEMMA NothingSeen ==
  ASSUME Alone, NEW p \in Procs, proc'[p].pc \in {"idle", "create", "initialize", "delete", "schedules"}
  PROVE  SeenIsTrue'
<1>1. \A q \in Procs : q = p
  BY DEF Alone
<1> QED BY <1>1 DEF SeenIsTrue

LEMMA SeenKept ==
  ASSUME Alone, SlotsInv, SeenIsTrue, [Next]_vars PROVE SeenIsTrue'
<1> USE DEF SlotsInv
<1>1. ASSUME NEW p \in Procs,
             \E s \in Schedules : \/ Delete(p, s)
                                  \/ \E kind \in Kinds, at \in 0 .. MaxNow : Create(p, s, kind, at)
      PROVE  SeenIsTrue'
  <2>1. ASSUME NEW s \in Schedules, Delete(p, s) PROVE proc'[p].pc = "delete"
    BY <2>1 DEF Delete, Idle, TypeOK
  <2>2. ASSUME NEW s \in Schedules, NEW kind \in Kinds, NEW at \in 0 .. MaxNow,
               Create(p, s, kind, at)
        PROVE  proc'[p].pc \in {"create", "initialize"}
    BY <2>2 DEF Create, Idle, TypeOK
  <2> QED BY <1>1, <2>1, <2>2, NothingSeen
<1>2. ASSUME NEW p \in Procs, NEW s \in Schedules, NEW edited, NEW timed, NEW switched,
             Update(p, s, edited, timed, switched)
      PROVE  SeenIsTrue'
  <2>1. proc'[p].pc = "idle"
    BY <1>2 DEF Update, IsIdle
  <2> QED BY <2>1, NothingSeen
<1>3. ASSUME NEW p \in Procs, NEW s \in Schedules, Trigger(p, s) PROVE SeenIsTrue'
  <2>1. /\ proc'[p].pc = "trigger" /\ proc'[p].cur = s /\ spec' = spec
        /\ proc'[p].snap[s].kind = spec[s].kind /\ proc'[p].snap[s].rev = spec[s].rev
    BY <1>3 DEF Trigger, Idle, NoSpec, TypeOK
  <2>2. \A q \in Procs : q = p
    BY DEF Alone
  <2> QED BY <2>1, <2>2 DEF SeenIsTrue
<1>4. ASSUME NEW p \in Procs, ListOneOffs(p) PROVE SeenIsTrue'
  <2>1. /\ proc'[p].pc = "one_offs" /\ proc'[p].todo = Listed("one_off") /\ spec' = spec
        /\ \A s \in Listed("one_off") : proc'[p].snap[s] = spec[s]
    BY <1>4 DEF ListOneOffs, Idle, Listed, TypeOK
  <2>2. \A s \in Listed("one_off") : Runnable(spec[s]) /\ spec[s].kind = "one_off"
    BY DEF Listed
  <2>3. \A q \in Procs : q = p
    BY DEF Alone
  <2> QED BY <2>1, <2>2, <2>3 DEF SeenIsTrue
<1>5. ASSUME NEW p \in Procs, proc'[p] = Visited(proc[p], proc[p].cur), spec' = spec,
             proc[p].pc = "insert"
      PROVE  SeenIsTrue'
  <2>1. \A q \in Procs : q = p
    BY DEF Alone
  <2>2. proc[p] \in Block
    BY DEF TypeOK
  <2>3. /\ proc'[p].pc = "one_offs" /\ proc'[p].todo = proc[p].todo \ {proc[p].cur}
        /\ \A s \in proc'[p].todo : proc'[p].snap[s] = proc[p].snap[s]
    BY <1>5, <2>2 DEF Visited, Block
  <2> QED BY <1>5, <2>1, <2>3 DEF SeenIsTrue
<1>6. ASSUME NEW p \in Procs, NEW s \in Schedules, CheckOneOff(p, s) PROVE SeenIsTrue'
  <2>1. \A q \in Procs : q = p
    BY DEF Alone
  <2>2. /\ proc[p] \in Block /\ UNCHANGED <<spec, runs>> /\ proc[p].pc = "one_offs"
        /\ s \in proc[p].todo /\ proc[p].snap[s] = spec[s]
    BY <1>6 DEF CheckOneOff, TypeOK, SeenIsTrue
  <2>3. CASE Consumed(s, proc[p].snap[s].rev)
    <3>1. proc'[p] = Visited(proc[p], s)
      BY <1>6, <2>3 DEF CheckOneOff, TypeOK
    <3>2. /\ proc'[p].pc = "one_offs" /\ proc'[p].todo = proc[p].todo \ {s}
          /\ \A u \in proc'[p].todo : proc'[p].snap[u] = proc[p].snap[u]
      BY <2>2, <3>1 DEF Visited, Block
    <3> QED BY <2>1, <2>2, <3>2 DEF SeenIsTrue
  <2>4. CASE ~Consumed(s, proc[p].snap[s].rev)
    <3>1. proc'[p] = [proc[p] EXCEPT !.pc = "insert", !.cur = s]
      BY <1>6, <2>4 DEF CheckOneOff, TypeOK
    <3>2. /\ proc'[p].pc = "insert" /\ proc'[p].cur = s /\ proc'[p].todo = proc[p].todo
          /\ proc'[p].snap = proc[p].snap
      BY <2>2, <3>1 DEF Block
    <3>3. ~Consumed(s, spec[s].rev)'
      BY <2>2, <2>4 DEF Consumed, RunsOf
    <3> QED BY <2>1, <2>2, <3>2, <3>3 DEF SeenIsTrue
  <2> QED BY <2>3, <2>4
<1>7. ASSUME NEW p \in Procs, InsertOneOff(p) PROVE SeenIsTrue'
  <2>1. proc'[p] = Idle \/ proc'[p] = Visited(proc[p], proc[p].cur)
    BY <1>7 DEF InsertOneOff, TypeOK
  <2>2. spec' = spec /\ proc[p].pc = "insert"
    BY <1>7 DEF InsertOneOff
  <2> QED BY <2>1, <2>2, <1>5, NothingSeen DEF Idle
<1>8. ASSUME NEW p \in Procs, \/ InitializeNext(p) \/ CancelQueued(p) \/ TriggerRecurring(p)
                              \/ ConsumeOneOff(p) \/ MaterializeEnds(p) \/ Crash(p)
      PROVE  SeenIsTrue'
  <2>1. proc'[p].pc = "idle"
    BY <1>8 DEF InitializeNext, CancelQueued, TriggerRecurring, ConsumeOneOff, MaterializeEnds,
                Crash, Idle, TypeOK
  <2> QED BY <2>1, NothingSeen
<1>9. ASSUME NEW p \in Procs, ListSchedules(p) \/ \E s \in Schedules : MaterializeDue(p, s)
      PROVE  SeenIsTrue'
  <2>1. proc'[p].pc = "schedules"
    BY <1>9 DEF ListSchedules, MaterializeDue, Idle, TypeOK, Block
  <2> QED BY <2>1, NothingSeen
<1>10. ASSUME NEW p \in Procs, NEW r \in RunIds,
              Start(p, r) \/ \E st \in {"done", "cancelled"} : Finish(p, r, st)
       PROVE  SeenIsTrue'
  <2>1. proc'[p].pc = "idle"
    BY <1>10 DEF Start, Finish, IsIdle
  <2> QED BY <2>1, NothingSeen
<1>11. CASE UNCHANGED <<spec, runs, proc>>
  BY <1>11 DEF SeenIsTrue, Consumed, RunsOf
<1>12. ASSUME NEW p \in Procs, ReadCreated(p) PROVE SeenIsTrue'
  <2>1. proc'[p].pc = "initialize"
    BY <1>12 DEF ReadCreated, TypeOK, Block
  <2> QED BY <2>1, NothingSeen
<1> QED BY <1>1, <1>2, <1>3, <1>4, <1>6, <1>7, <1>8, <1>9, <1>10, <1>11, <1>12
        DEF Next, Continue, Advance, vars

\* An edit withdraws the queued run of the revision it ends.
LEMMA UpdateKeepsRevisions ==
  ASSUME OneTimeInv, TypeOK', NEW p \in Procs, NEW s \in Schedules, NEW edited, NEW timed,
         NEW switched, Update(p, s, edited, timed, switched)
  PROVE  OneOffRevisions' /\ OneRunPerRevision'
<1> USE DEF OneTimeInv, SlotsInv
<1>1. /\ \A t \in Schedules \ {s} : spec'[t] = spec[t]
      /\ spec'[s].rev >= spec[s].rev
      /\ spec'[s].rev = spec[s].rev => spec'[s].kind = spec[s].kind
      /\ \/ runs' = runs /\ (spec[s].kind = "one_off" => spec'[s].rev = spec[s].rev)
         \/ runs' = OneOffsCancelled(s)
  BY UpdatedSpec
<1>2. \A r \in RunIds : ForwardRun(r)
  <2> SUFFICES ASSUME NEW r \in RunIds PROVE ForwardRun(r)
    OBVIOUS
  <2>1. \/ runs'[r] = runs[r]
        \/ runs[r].status = "queued" /\ runs'[r] = [runs[r] EXCEPT !.status = "cancelled"]
    BY <1>1 DEF OneOffsCancelled
  <2>2. runs[r] \in RunRow
    BY DEF TypeOK
  <2> QED BY <2>1, <2>2 DEF ForwardRun, KeptRun, RunRow
<1>3. ASSUME NEW r \in RunIds, runs[r].kind = "one_off"
      PROVE  LET t == runs[r].spec
             IN  /\ spec'[t].rev >= spec[t].rev
                 /\ spec'[t].rev = spec[t].rev => spec'[t].kind = spec[t].kind
                 /\ runs'[r].status = "queued" => spec'[t].rev = spec[t].rev
  <2>1. runs[r].spec \in Schedules /\ runs[r] \in RunRow
    BY <1>3 DEF RowsInOrder, SchedulesExist, Exists, TypeOK
  <2>2. spec[runs[r].spec].rev \in Nat
    BY <2>1, ConstantsAssumption DEF TypeOK, SpecRow
  <2>3. CASE runs[r].spec # s
    BY <1>1, <2>1, <2>2, <2>3
  <2>4. CASE runs[r].spec = s
    <3>1. CASE runs' = OneOffsCancelled(s)
      <4>1. runs'[r].status # "queued"
        BY <1>3, <2>1, <2>4, <3>1 DEF OneOffsCancelled, RunRow
      <4> QED BY <1>1, <2>4, <4>1
    <3>2. CASE runs' = runs /\ (spec[s].kind = "one_off" => spec'[s].rev = spec[s].rev)
      BY <1>1, <1>3, <2>4, <3>2 DEF OneOffRevisions
    <3> QED BY <1>1, <3>1, <3>2
  <2> QED BY <2>3, <2>4
<1> QED BY <1>2, <1>3, RevisionsKept

\* A run queued for the next slot, or by hand, of a recurring schedule.
LEMMA RecurringKeepsRevisions ==
  ASSUME OneTimeInv, TypeOK', NEW p \in Procs,
         TriggerRecurring(p) \/ \E s \in Schedules : MaterializeDue(p, s)
  PROVE  OneOffRevisions' /\ OneRunPerRevision'
<1> USE DEF OneTimeInv, SlotsInv
<1>1. ASSUME NEW s \in Schedules, spec' = spec \/ spec' = [spec EXCEPT ![s].next = NextSlot(now)]
      PROVE  \A t \in Schedules : SameRevision(t)
  BY <1>1 DEF SameRevision, TypeOK, SpecRow
<1>2. ASSUME runs' = runs, \A t \in Schedules : SameRevision(t)
      PROVE  OneOffRevisions' /\ OneRunPerRevision'
  <2>1. \A r \in RunIds : ForwardRun(r)
    BY <1>2, Unmoved DEF ForwardRun
  <2>2. \A r \in RunIds : runs[r].kind = "one_off" =>
          runs[r].spec \in Schedules /\ spec[runs[r].spec].rev \in Nat
    BY ConstantsAssumption DEF RowsInOrder, SchedulesExist, Exists, TypeOK, SpecRow
  <2> QED BY <1>2, <2>1, <2>2, RevisionsKept DEF SameRevision, OneOffRevisions
<1>3. CASE TriggerRecurring(p)
  <2> DEFINE s == proc[p].cur
  <2>1. /\ s \in Schedules /\ proc[p].snap[s].rev = spec[s].rev /\ spec[s].kind = "schedule"
        /\ spec' = spec
    BY <1>3 DEF TriggerRecurring, SchedulesExist, AtHand, Exists, SeenIsTrue
  <2>2. PICK r \in RunIds : /\ NextFree(r)
                            /\ runs' = [runs EXCEPT ![r] = QueuedRun(s, spec[s].rev, "manual", now)]
    BY <1>3, <2>1 DEF TriggerRecurring
  <2>3. NewRun(r, s, "manual", now) /\ runs'[r].rev = spec[s].rev
    BY <2>2, PutNew
  <2>4. \A q \in RunIds \ {r} : runs'[q] = runs[q] /\ ForwardRun(q)
    BY <2>2 DEF ForwardRun, KeptRun, TypeOK
  <2>5. \A q \in RunIds \ {r} :
          ~(runs[q].spec = s /\ runs[q].rev = spec[s].rev /\ runs[q].kind = "one_off")
    BY <2>1 DEF OneOffRevisions
  <2>6. \A t \in Schedules : SameRevision(t)
    BY <2>1 DEF SameRevision
  <2> HIDE DEF s
  <2> QED BY <2>1, <2>3, <2>4, <2>5, <2>6, RevisionsKeptByNew
<1>4. ASSUME NEW s \in Schedules, MaterializeDue(p, s) PROVE OneOffRevisions' /\ OneRunPerRevision'
  <2>1. \A t \in Schedules : SameRevision(t)
    BY <1>1, <1>4 DEF MaterializeDue, NextAfterRun
  <2>2. CASE runs' = runs
    BY <1>2, <2>1, <2>2
  <2>3. CASE runs' # runs
    <3>1. PICK r \in RunIds :
            /\ NextFree(r)
            /\ \E due : runs' = [runs EXCEPT ![r] = QueuedRun(s, spec[s].rev, "schedule", due)]
      BY <1>4, <2>3 DEF MaterializeDue
    <3>4. PICK due : runs' = [runs EXCEPT ![r] = QueuedRun(s, spec[s].rev, "schedule", due)]
      BY <3>1
    <3>2. NewRun(r, s, "schedule", due)
      BY <3>1, <3>4, PutNew
    <3>3. \A q \in RunIds \ {r} : ForwardRun(q)
      BY <3>4 DEF ForwardRun, KeptRun, TypeOK
    <3> QED BY <2>1, <3>2, <3>3, RevisionsKeptByNew
  <2> QED BY <2>2, <2>3
<1> QED BY <1>3, <1>4

\* The planned run is queued where no other run of the revision is ...
LEMMA InsertKeepsRevisions ==
  ASSUME OneTimeInv, TypeOK', NEW p \in Procs, InsertOneOff(p)
  PROVE  OneOffRevisions' /\ OneRunPerRevision'
<1> USE DEF OneTimeInv, SlotsInv
<1> DEFINE s == proc[p].cur
<1>1. /\ s \in Schedules /\ proc[p].snap[s] = spec[s] /\ spec[s].kind = "one_off" /\ spec' = spec
      /\ ~Consumed(s, spec[s].rev)
  BY DEF InsertOneOff, SchedulesExist, AtHand, Exists, SeenIsTrue
<1>2. \A t \in Schedules : SameRevision(t)
  BY <1>1 DEF SameRevision
<1>3. PICK r \in RunIds :
        /\ NextFree(r)
        /\ \E due : runs' = [runs EXCEPT ![r] = QueuedRun(s, spec[s].rev, "one_off", due)]
  BY <1>1 DEF InsertOneOff, Consumed
<1>7. PICK due : runs' = [runs EXCEPT ![r] = QueuedRun(s, spec[s].rev, "one_off", due)]
  BY <1>3
<1>4. NewRun(r, s, "one_off", due) /\ runs'[r].rev = spec[s].rev
  BY <1>3, <1>7, PutNew
<1>5. \A q \in RunIds \ {r} : ForwardRun(q)
  BY <1>7 DEF ForwardRun, KeptRun, TypeOK
<1>6. \A q \in RunIds : ~(/\ runs[q].spec = s /\ runs[q].rev = spec[s].rev
                          /\ runs[q].kind \in {"one_off", "manual"})
  BY <1>1 DEF Consumed, RunsOf
<1> HIDE DEF s
<1> QED BY <1>1, <1>2, <1>4, <1>5, <1>6, RevisionsKeptByNew

\* ... and a manual run takes the place of the planned one.
LEMMA ConsumeKeepsRevisions ==
  ASSUME OneTimeInv, TypeOK', NEW p \in Procs, ConsumeOneOff(p)
  PROVE  OneOffRevisions' /\ OneRunPerRevision'
<1> USE DEF OneTimeInv, SlotsInv
<1> DEFINE s == proc[p].cur
           rev == proc[p].snap[s].rev
           S == {r \in Standing(s, rev) : runs[r].kind = "one_off" /\ runs[r].status = "queued"}
<1>1. s \in Schedules
  BY DEF ConsumeOneOff, SchedulesExist, AtHand, Exists
<1>2. \A t \in Schedules : SameRevision(t)
  <2>1. spec' = spec \/ spec' = [spec EXCEPT ![s].next = Null]
    BY DEF ConsumeOneOff
  <2> QED BY <1>1, <2>1 DEF SameRevision, TypeOK, SpecRow
<1>3. CASE runs' = runs
  <2>1. \A r \in RunIds : ForwardRun(r)
    BY <1>3, Unmoved DEF ForwardRun
  <2>2. \A r \in RunIds : runs[r].kind = "one_off" =>
          runs[r].spec \in Schedules /\ spec[runs[r].spec].rev \in Nat
    BY ConstantsAssumption DEF RowsInOrder, SchedulesExist, Exists, TypeOK, SpecRow
  <2> QED BY <1>2, <1>3, <2>1, <2>2, RevisionsKept DEF SameRevision, OneOffRevisions
<1>4. CASE runs' # runs
  <2>1. PICK r \in RunIds :
          /\ NextFree(r) /\ Standing(s, rev) = S
          /\ runs' = [q \in RunIds |->
               IF q = r THEN QueuedRun(s, rev, "manual", now)
               ELSE IF q \in S THEN [runs[q] EXCEPT !.status = "cancelled"] ELSE runs[q]]
    BY <1>4 DEF ConsumeOneOff
  <2>2. /\ runs'[r] = QueuedRun(s, rev, "manual", now)
        /\ \A q \in RunIds \ {r} :
             runs'[q] = IF q \in S THEN [runs[q] EXCEPT !.status = "cancelled"] ELSE runs[q]
    BY <2>1
  <2>3. \A q \in S : runs[q].status = "queued"
    OBVIOUS
  <2>4. \A q \in RunIds \ {r} : ForwardRun(q) /\ (q \in S => runs'[q].status = "cancelled")
    <3> SUFFICES ASSUME NEW q \in RunIds \ {r}
                 PROVE  ForwardRun(q) /\ (q \in S => runs'[q].status = "cancelled")
      OBVIOUS
    <3>1. \/ q \notin S /\ runs'[q] = runs[q]
          \/ runs[q].status = "queued" /\ runs'[q] = [runs[q] EXCEPT !.status = "cancelled"]
      BY <2>2, <2>3
    <3>2. runs[q] \in RunRow
      BY DEF TypeOK
    <3> HIDE DEF S, s, rev
    <3> QED BY <3>1, <3>2 DEF ForwardRun, KeptRun, RunRow
  <2>5. /\ runs'[r].rev = rev
        /\ QueuedRun(s, runs'[r].rev, "manual", now) = runs'[r]
    BY <2>2 DEF QueuedRun
  <2>6. NewRun(r, s, "manual", now)
    BY <2>1, <2>4, <2>5 DEF NewRun, ForwardRun
  <2>7. \A q \in RunIds \ {r} : /\ runs[q].spec = s /\ runs[q].rev = rev
                                /\ runs[q].kind = "one_off"
                                => runs'[q].status = "cancelled"
    <3> SUFFICES ASSUME NEW q \in RunIds \ {r}, runs[q].spec = s, runs[q].rev = rev,
                        runs[q].kind = "one_off"
                 PROVE  runs'[q].status = "cancelled"
      OBVIOUS
    <3>1. q \in RunsOf(s, rev)
      BY DEF RunsOf
    <3>2. runs[q].status = "cancelled" \/ q \in Standing(s, rev)
      BY <3>1 DEF Standing
    <3> QED BY <2>1, <2>4, <3>2 DEF ForwardRun
  <2>8. \A q \in RunIds \ {r} : ForwardRun(q)
    BY <2>4
  <2>9. \A q \in RunIds \ {r} : /\ runs[q].spec = s /\ runs[q].rev = runs'[r].rev
                                /\ runs[q].kind = "one_off"
                                => runs'[q].status = "cancelled"
    BY <2>5, <2>7
  <2> HIDE DEF s, rev, S
  <2> QED BY <1>1, <1>2, <2>6, <2>8, <2>9, RevisionsKeptByNew
<1> QED BY <1>3, <1>4

LEMMA OneTimeInit == Init => OneTimeInv
<1> SUFFICES ASSUME Init PROVE OneTimeInv
  OBVIOUS
<1>1. /\ \A r \in RunIds : runs[r].kind = "none"
      /\ \A p \in Procs : proc[p].pc = "idle"
  BY DEF Init, NoRun, Idle
<1> QED BY <1>1, SlotsInit DEF OneTimeInv, SeenIsTrue, OneOffRevisions, OneRunPerRevision

LEMMA OneTimeStep == ASSUME Alone PROVE OneTimeInv /\ [Next]_vars => OneTimeInv'
<1> SUFFICES ASSUME OneTimeInv, [Next]_vars PROVE OneTimeInv'
  OBVIOUS
<1>1. SlotsInv /\ TypeOK' /\ SlotsInv' /\ SeenIsTrue'
  BY SlotsStep, SeenKept DEF OneTimeInv, SlotsInv
<1>2. ASSUME \A r \in RunIds : ForwardRun(r),
             \A s \in Schedules : Created(s) => SameRevision(s)
      PROVE  OneOffRevisions' /\ OneRunPerRevision'
  <2>1. \A r \in RunIds : runs[r].kind = "one_off" =>
          /\ SameRevision(runs[r].spec) /\ spec[runs[r].spec].rev \in Nat
    BY <1>1, <1>2, ConstantsAssumption
       DEF SlotsInv, RowsInOrder, SchedulesExist, Exists, TypeOK, SpecRow
  <2> QED BY <1>1, <1>2, <2>1, RevisionsKept DEF OneTimeInv, SameRevision
<1>3. OneOffRevisions' /\ OneRunPerRevision'
  <2>1. CASE UNCHANGED vars
    BY <2>1 DEF vars, OneTimeInv, OneOffRevisions, OneRunPerRevision
  <2>2. CASE Next
    <3>1. ASSUME NEW p \in Procs, NEW s \in Schedules, NEW edited, NEW timed, NEW switched,
                 Update(p, s, edited, timed, switched)
          PROVE  OneOffRevisions' /\ OneRunPerRevision'
      BY <1>1, <3>1, UpdateKeepsRevisions
    <3>2. ASSUME NEW p \in Procs, NEW s \in Schedules, NEW kind \in Kinds, NEW at \in 0 .. MaxNow,
                 Create(p, s, kind, at)
          PROVE  OneOffRevisions' /\ OneRunPerRevision'
      BY <1>1, <1>2, <3>2, QuietSteps
    <3>3. ASSUME NEW p \in Procs, \E s \in Schedules : Delete(p, s) \/ Trigger(p, s)
          PROVE  OneOffRevisions' /\ OneRunPerRevision'
      BY <1>1, <1>2, <3>3, QuietSteps
    <3>4. ASSUME NEW p \in Procs, ListOneOffs(p) \/ Crash(p)
          PROVE  OneOffRevisions' /\ OneRunPerRevision'
      BY <1>1, <1>2, <3>4, QuietSteps
    <3>5. ASSUME NEW p \in Procs, NEW r \in RunIds,
                 Start(p, r) \/ \E st \in {"done", "cancelled"} : Finish(p, r, st)
          PROVE  OneOffRevisions' /\ OneRunPerRevision'
      BY <1>1, <1>2, <3>5, QuietSteps
    <3>6. CASE Advance
      BY <1>1, <1>2, <3>6, QuietSteps
    <3>7. ASSUME NEW p \in Procs, Continue(p) PROVE OneOffRevisions' /\ OneRunPerRevision'
      <4>1. CASE \/ ReadCreated(p) \/ InitializeNext(p) \/ CancelQueued(p)
                 \/ ListSchedules(p) \/ MaterializeEnds(p)
        BY <1>1, <1>2, <4>1, QuietSteps
      <4>2. CASE \E s \in Schedules : CheckOneOff(p, s)
        BY <1>1, <1>2, <4>2, QuietSteps
      <4>3. CASE TriggerRecurring(p) \/ \E s \in Schedules : MaterializeDue(p, s)
        BY <1>1, <4>3, RecurringKeepsRevisions
      <4>4. CASE ConsumeOneOff(p)
        BY <1>1, <4>4, ConsumeKeepsRevisions
      <4>5. CASE InsertOneOff(p)
        BY <1>1, <4>5, InsertKeepsRevisions
      <4> QED BY <3>7, <4>1, <4>2, <4>3, <4>4, <4>5 DEF Continue
    <3> QED BY <2>2, <3>1, <3>2, <3>3, <3>4, <3>5, <3>6, <3>7 DEF Next
  <2> QED BY <2>1, <2>2
<1> QED BY <1>1, <1>3 DEF OneTimeInv

\* With one process, a revision of a one-time schedule never has two runs that are not
\* cancelled (consumeOneOffWithManualRun, hasConsumedOneOffRevision, the unique index).
THEOREM RevisionRunsOnce == ASSUME Alone PROVE Spec => []SpecsInv
<1>1. Init => OneTimeInv
  BY OneTimeInit
<1>2. OneTimeInv /\ [Next]_vars => OneTimeInv'
  BY OneTimeStep
<1>3. OneTimeInv => SpecsInv
  BY DEF OneTimeInv, SlotsInv, SpecsInv
<1> QED BY <1>1, <1>2, <1>3, PTL DEF Spec

\* Only a start sets started_at of a one-time run.
LEMMA OnlyStartStarts ==
  ASSUME SlotsInv, Next, NEW r \in RunIds, runs[r].kind = "one_off", ~runs[r].started,
         runs'[r].started
  PROVE  runs[r].status = "queued" /\ spec' = spec
<1> USE DEF SlotsInv
<1>0. runs[r] \in RunRow /\ runs[r].status # "absent"
  BY DEF TypeOK, RowsInOrder
<1>1. ASSUME \E st : runs'[r] = [runs[r] EXCEPT !.status = st] PROVE FALSE
  BY <1>0, <1>1 DEF RunRow
<1>2. runs'[r] # runs[r]
  OBVIOUS
<1>3. ASSUME NEW q \in RunIds, NextFree(q), NEW row, runs' = [runs EXCEPT ![q] = row] PROVE FALSE
  <2>1. q # r
    BY <1>0, <1>3 DEF NextFree
  <2> QED BY <1>2, <1>3, <2>1
<1>4. ASSUME NEW p \in Procs, Continue(p) PROVE FALSE
  <2>1. CASE \/ ReadCreated(p) \/ InitializeNext(p) \/ ListSchedules(p) \/ MaterializeEnds(p)
             \/ \E s \in Schedules : CheckOneOff(p, s)
    BY <1>2, <2>1 DEF ReadCreated, InitializeNext, ListSchedules, MaterializeEnds, CheckOneOff
  <2>2. CASE CancelQueued(p)
    BY <1>1, <1>2, <2>2 DEF CancelQueued
  <2>3. CASE TriggerRecurring(p) \/ InsertOneOff(p) \/ \E s \in Schedules : MaterializeDue(p, s)
    BY <1>2, <1>3, <2>3 DEF TriggerRecurring, InsertOneOff, MaterializeDue
  <2>4. CASE ConsumeOneOff(p)
    <3> DEFINE s == proc[p].cur
               S == {q \in Standing(s, proc[p].snap[s].rev) :
                       runs[q].kind = "one_off" /\ runs[q].status = "queued"}
    <3>1. PICK q \in RunIds :
            /\ NextFree(q)
            /\ runs' = [x \in RunIds |->
                 IF x = q THEN QueuedRun(s, proc[p].snap[s].rev, "manual", now)
                 ELSE IF x \in S THEN [runs[x] EXCEPT !.status = "cancelled"] ELSE runs[x]]
      BY <1>2, <2>4 DEF ConsumeOneOff
    <3> HIDE DEF S
    <3>2. q # r
      BY <1>0, <3>1 DEF NextFree
    <3> QED BY <1>1, <1>2, <3>1, <3>2
  <2> QED BY <1>4, <2>1, <2>2, <2>3, <2>4 DEF Continue
<1>5. ASSUME NEW p \in Procs, NEW q \in RunIds, Start(p, q)
      PROVE  runs[r].status = "queued" /\ spec' = spec
  <2>1. q = r
    BY <1>2, <1>5 DEF Start
  <2> QED BY <1>5, <2>1 DEF Start
<1>6. ASSUME NEW p \in Procs, NEW q \in RunIds, NEW st \in {"done", "cancelled"}, Finish(p, q, st)
      PROVE  FALSE
  <2>1. q = r
    BY <1>2, <1>6 DEF Finish
  <2> QED BY <1>1, <1>6, <2>1 DEF Finish, TypeOK
<1>7. ASSUME NEW p \in Procs, NEW s \in Schedules, NEW edited, NEW timed, NEW switched,
             Update(p, s, edited, timed, switched)
      PROVE  FALSE
  <2>1. runs' = OneOffsCancelled(s)
    BY <1>2, <1>7, UpdatedSpec
  <2> QED BY <1>1, <1>2, <2>1 DEF OneOffsCancelled
<1>8. ASSUME NEW p \in Procs,
             \/ \E s \in Schedules :
                  \/ Delete(p, s) \/ Trigger(p, s)
                  \/ \E kind \in Kinds, at \in 0 .. MaxNow : Create(p, s, kind, at)
             \/ ListOneOffs(p) \/ Crash(p)
      PROVE  FALSE
  BY <1>2, <1>8 DEF Delete, Trigger, Create, ListOneOffs, Crash
<1>9. CASE Advance
  BY <1>2, <1>9 DEF Advance
<1> QED BY <1>4, <1>5, <1>6, <1>7, <1>8, <1>9 DEF Next

\* With one process, a planned one-time run starts only in the revision it was planned
\* for (updateHubSchedule withdraws it; executeClaim never compares revisions).
THEOREM StartsInItsRevision == ASSUME Alone PROVE Spec => OneOffStartsInItsRevision
<1> DEFINE Starts == \A r \in RunIds :
             runs[r].kind = "one_off" /\ ~runs[r].started /\ runs'[r].started =>
               runs[r].rev = spec[runs[r].spec].rev
<1>1. Init => OneTimeInv
  BY OneTimeInit
<1>2. OneTimeInv /\ [Next]_vars => OneTimeInv'
  BY OneTimeStep
<1>3. OneTimeInv /\ [Next]_vars => [Starts]_vars
  <2>1. OneTimeInv /\ Next => Starts
    BY OnlyStartStarts DEF OneTimeInv, OneOffRevisions
  <2> QED BY <2>1
<1> QED BY <1>1, <1>2, <1>3, PTL DEF Spec, OneOffStartsInItsRevision

=============================================================================
