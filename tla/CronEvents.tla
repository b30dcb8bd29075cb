----------------------------- MODULE CronEvents -----------------------------
(***************************************************************************)
(* Runs triggered by events (sdk/packages/core/src/cron/events/            *)
(* cron-event-ingress.ts and cron/store/sqlite-cron-store.ts): an event is *)
(* logged once, and for each spec that listens to it it is merged into a   *)
(* run that is still waiting (debounceSeconds), suppressed because of a    *)
(* recent run of the same dedupe key (dedupeWindowSeconds) or of the spec  *)
(* (cooldownSeconds), or given a run of its own.                           *)
(*                                                                         *)
(* ingestEvent reads the clock before its transaction waits for the        *)
(* database, so events of several processes may be accepted in another     *)
(* order than they were received in.  A caller whose delivery failed       *)
(* delivers the event again.  A run is named by the event it was made for. *)
(* What happens to a claimed run is CronRunQueue's subject: here it is     *)
(* finished, put back, or its lease lapses.                                *)
(***************************************************************************)
EXTENDS Integers, FiniteSets

CONSTANTS
  Events, Keys, \* events by their numbers; dedupe keys
  KeysOfEvents, \* the keys that the events may have
  Specs, Confs, \* event specs whose filters match the events, and what they may ask for
  MaxSkew,      \* how long a transaction may wait for the database
  MaxTime, LastReceipt, MaxFaults \* bounds

ASSUME ConstantsAssumption ==
  /\ Events \subseteq Nat \ {0} /\ IsFiniteSet(Events)
  /\ KeysOfEvents \subseteq [Events -> Keys]
  /\ {MaxSkew, LastReceipt, MaxFaults} \subseteq Nat /\ MaxTime \in Nat \ {0}
  /\ Confs \subseteq [debounce : Nat, window : Nat, cooldown : Nat]

None == 0
Times == 1 .. MaxTime

VARIABLES
  now,
  conf, on, \* the specs' settings, and whether they are enabled and not removed
  sent,     \* the number of events that have been delivered
  key,      \* their dedupe keys
  inbox,    \* deliveries that wait for the database: event and time of receipt
  log,      \* cron_event_log, with what became of the event for each spec
  runs,     \* cron_runs, by spec and by the event that a run was made for
  faults    \* counter for the bound

vars == <<now, conf, on, sent, key, inbox, log, runs, faults>>

\* Given a run of its own or merged into a waiting one; suppressed; no spec to match.
Outcomes == {"received", "queued", "window", "cooldown", "unmatched"}
\* Not made; waiting; claimed; claimed by a runner whose lease has lapsed; over.
RunStages == {"none", "queued", "running", "lapsed", "done", "cancelled"}

RunRecords == [st : RunStages, trigger : {None} \cup Events, due : Nat, began : {None} \cup Times]
NoRun == [st |-> "none", trigger |-> None, due |-> None, began |-> None]
NotLogged == [at |-> None, what |-> [s \in Specs |-> "received"], run |-> [s \in Specs |-> None]]

Init ==
  /\ now = 1 /\ conf \in [Specs -> Confs] /\ on = [s \in Specs |-> TRUE]
  /\ sent = 0 /\ key \in KeysOfEvents /\ inbox = {}
  /\ log = [e \in Events |-> NotLogged]
  /\ runs = [s \in Specs |-> [r \in Events |-> NoRun]]
  /\ faults = 0

TypeOK ==
  /\ now \in Times /\ conf \in [Specs -> Confs] /\ on \in [Specs -> BOOLEAN]
  /\ sent \in Nat /\ key \in [Events -> Keys] /\ inbox \subseteq Events \X Times
  /\ log \in [Events -> [at : {None} \cup Times, what : [Specs -> Outcomes],
                         run : [Specs -> {None} \cup Events]]]
  /\ runs \in [Specs -> [Events -> RunRecords]]
  /\ \A s \in Specs, r \in Events :
       runs[s][r].st \in {"none", "queued"} => runs[s][r].began = None
  /\ faults \in 0 .. MaxFaults

-----------------------------------------------------------------------------
(* What becomes of an event.                                               *)

Logged(e) == log[e].at # None
Made(s) == {r \in Events : runs[s][r].st # "none"}
TriggerAt(s, r) == log[runs[s][r].trigger].at
TriggerKey(s, r) == key[runs[s][r].trigger]
Larger(x, y) == IF x < y THEN y ELSE x

\* findQueuedEventRunForDedupe: the runs of the key that wait, and of them one due last.
Waiting(s, k) == {r \in Made(s) : runs[s][r].st = "queued" /\ TriggerKey(s, r) = k}
LastDue(s, k) ==
  CHOOSE r \in Waiting(s, k) : \A q \in Waiting(s, k) : runs[s][q].due <= runs[s][r].due

Merges(s, k) == conf[s].debounce > 0 /\ Waiting(s, k) # {}

\* hasRecentEventRunForDedupe.  Bug: only runs that are not over are counted.
BugRecentOfKey(s, k, t) ==
  \E r \in Made(s) : /\ TriggerKey(s, r) = k /\ TriggerAt(s, r) >= t
                     /\ runs[s][r].st \in {"queued", "running", "lapsed"}

\* Bug: the dedupe key is not compared.
BugKeyOfRecent(s, k, t) == \E r \in Made(s) : TriggerAt(s, r) >= t

RecentOfKey(s, k, t) == \E r \in Made(s) : TriggerKey(s, r) = k /\ TriggerAt(s, r) >= t

\* hasRecentEventRunForSpec.
Recent(s, t) == \E r \in Made(s) : TriggerAt(s, r) >= t

\* materializeForSpec, for an event of key k received at time t.
Fate(s, k, t) ==
  CASE ~on[s] -> "unmatched"
    [] on[s] /\ Merges(s, k) -> "queued"
    [] on[s] /\ ~Merges(s, k) /\ conf[s].window > 0 /\ RecentOfKey(s, k, t - conf[s].window) -> "window"
    [] OTHER -> IF conf[s].cooldown > 0 /\ Recent(s, t - conf[s].cooldown) THEN "cooldown"
                ELSE "queued"

RunFor(s, e) == IF Merges(s, key[e]) THEN LastDue(s, key[e]) ELSE e

\* Bug: a merged event sets the run's time, whatever it was.
BugDueAfter(due, t) == t

DueAfter(due, t) == Larger(due, t)

Materialized(s, e, t) ==
  LET r == RunFor(s, e) IN
  [runs[s] EXCEPT ![r] =
     [st |-> "queued", trigger |-> e, began |-> runs[s][r].began,
      due |-> DueAfter(runs[s][r].due, t + conf[s].debounce)]]

-----------------------------------------------------------------------------
(* Delivery.                                                               *)

\* Time passes while no delivery waits for too long.
Tick ==
  /\ now < MaxTime /\ now' = now + 1
  /\ \A d \in inbox : now - d[2] < MaxSkew
  /\ UNCHANGED <<conf, on, sent, key, inbox, log, runs, faults>>

Delivered(e) == \E t \in Times : <<e, t>> \in inbox

\* ingestEvent until BEGIN IMMEDIATE, for a new event or one whose delivery failed; or for an
\* event that was delivered already.
Receive(e) ==
  /\ now <= LastReceipt
  /\ \/ e = sent + 1 /\ sent' = e /\ UNCHANGED faults
     \/ e <= sent /\ ~Logged(e) /\ ~Delivered(e) /\ UNCHANGED <<sent, faults>>
     \/ /\ Logged(e) \/ Delivered(e)
        /\ faults < MaxFaults /\ faults' = faults + 1 /\ UNCHANGED sent
  /\ inbox' = inbox \cup {<<e, now>>}
  /\ UNCHANGED <<now, conf, on, key, log, runs>>

\* eventTransaction: the event is logged and materialized for every spec, or nothing is changed.
\* An event that is logged is a duplicate.
Accept(e, t) ==
  /\ <<e, t>> \in inbox /\ inbox' = inbox \ {<<e, t>>}
  /\ IF Logged(e) THEN UNCHANGED <<log, runs>>
     ELSE LET fate == [s \in Specs |-> Fate(s, key[e], t)] IN
          /\ log' = [log EXCEPT ![e] =
               [at |-> t, what |-> fate,
                run |-> [s \in Specs |-> IF fate[s] = "queued" THEN RunFor(s, e) ELSE None]]]
          /\ runs' = [s \in Specs |-> IF fate[s] = "queued" THEN Materialized(s, e, t) ELSE runs[s]]
  /\ UNCHANGED <<now, conf, on, sent, key, faults>>

\* Bug: the event stays logged when its acceptance fails.
BugRolledBack(e, t) == IF Logged(e) THEN log ELSE [log EXCEPT ![e].at = t]

RolledBack(e, t) == log

\* The transaction fails; the caller may deliver the event again.
FailAccept(e, t) ==
  /\ <<e, t>> \in inbox /\ faults < MaxFaults
  /\ inbox' = inbox \ {<<e, t>>} /\ faults' = faults + 1
  /\ log' = RolledBack(e, t)
  /\ UNCHANGED <<now, conf, on, sent, key, runs>>

-----------------------------------------------------------------------------
(* Runs and specs.                                                         *)

Run(s, r, stage, began) ==
  runs' = [runs EXCEPT ![s][r].st = stage, ![s][r].began = began]

\* Bug: runs whose lease has lapsed are not claimed again.
BugClaimable(s, r) == runs[s][r].st = "queued" /\ runs[s][r].due <= now

Claimable(s, r) == runs[s][r].st \in {"queued", "lapsed"} /\ runs[s][r].due <= now

\* claimDueRuns: one run of a spec at a time, those due first before others.  A run whose
\* spec is removed or disabled by then is cancelled.
Claim(s, r) ==
  /\ Claimable(s, r)
  /\ \A q \in Events : Claimable(s, q) => runs[s][r].due <= runs[s][q].due
  /\ \A q \in Events : runs[s][q].st # "running"
  /\ IF on[s] THEN Run(s, r, "running", now) ELSE Run(s, r, "cancelled", runs[s][r].began)
  /\ UNCHANGED <<now, conf, on, sent, key, inbox, log, faults>>

Finish(s, r) ==
  /\ runs[s][r].st \in {"running", "lapsed"}
  /\ Run(s, r, "done", runs[s][r].began)
  /\ UNCHANGED <<now, conf, on, sent, key, inbox, log, faults>>

\* Bug: started_at is not cleared.
BugPutBack(began) == began

PutBack(began) == None

\* requeueRun: the service is stopping before the run has started.
Requeue(s, r) ==
  /\ runs[s][r].st = "running" /\ faults < MaxFaults
  /\ Run(s, r, "queued", PutBack(runs[s][r].began)) /\ faults' = faults + 1
  /\ UNCHANGED <<now, conf, on, sent, key, inbox, log>>

\* The lease is not renewed: the runner has died or hangs.
Lapse(s, r) ==
  /\ runs[s][r].st = "running" /\ faults < MaxFaults
  /\ Run(s, r, "lapsed", runs[s][r].began) /\ faults' = faults + 1
  /\ UNCHANGED <<now, conf, on, sent, key, inbox, log>>

\* The spec's file is deleted or disabled.  Its waiting runs are cancelled, except when it is
\* only disabled or the process dies between the two writes.
Remove(s) ==
  /\ on[s] /\ faults < MaxFaults
  /\ on' = [on EXCEPT ![s] = FALSE] /\ faults' = faults + 1
  /\ \/ runs' = [runs EXCEPT ![s] = [r \in Events |->
                   IF runs[s][r].st = "queued" THEN [runs[s][r] EXCEPT !.st = "cancelled"]
                   ELSE runs[s][r]]]
     \/ UNCHANGED runs
  /\ UNCHANGED <<now, conf, sent, key, inbox, log>>

Restore(s) ==
  /\ ~on[s] /\ on' = [on EXCEPT ![s] = TRUE]
  /\ UNCHANGED <<now, conf, sent, key, inbox, log, runs, faults>>

Next ==
  \/ Tick
  \/ \E e \in Events : Receive(e) \/ \E t \in Times : Accept(e, t) \/ FailAccept(e, t)
  \/ \E s \in Specs : Remove(s) \/ Restore(s)
  \/ \E s \in Specs, r \in Events : Claim(s, r) \/ Finish(s, r) \/ Requeue(s, r) \/ Lapse(s, r)

Spec == Init /\ [][Next]_vars

\* Time passes, transactions end, a runner polls, and a run that keeps its lease finishes.
FairSpec ==
  /\ Spec
  /\ WF_vars(Tick \/ \E e \in Events, t \in Times : Accept(e, t))
  /\ WF_vars(\E s \in Specs, r \in Events :
               Claim(s, r) \/ (runs[s][r].st = "running" /\ Finish(s, r)))

-----------------------------------------------------------------------------
(* Properties.                                                             *)

\* An event that is logged has been decided for every spec: a failed acceptance leaves
\* nothing behind that would make the retry a duplicate.
LoggedIsDecided == \A e \in Events, s \in Specs : Logged(e) => log[e].what[s] # "received"

\* A run begins no earlier than the debounce time after every event it answers for, in
\* whatever order the events were accepted and also when the run was put back and merged into
\* again: no event is swallowed by a run that had begun before it.
BeginsAfterEvents ==
  \A e \in Events, s \in Specs : log[e].what[s] = "queued" =>
    LET r == runs[s][log[e].run[s]] IN
    r.began # None => r.began >= log[e].at + conf[s].debounce

Apart(s, q, r, gap) ==
  gap > 0 => log[q].at - log[r].at > gap - MaxSkew \/ log[r].at - log[q].at > gap - MaxSkew

\* The events that two runs of a spec were made for are further apart than the cooldown, and
\* those of one dedupe key further than its window, up to the time transactions wait.
RunsApart ==
  \A s \in Specs : \A q, r \in Made(s) : q # r =>
    /\ Apart(s, q, r, conf[s].cooldown)
    /\ key[q] = key[r] => Apart(s, q, r, conf[s].window)

\* An event is suppressed only when another event was given a run within the window before
\* it: of the same key for the dedupe window, of any for the cooldown.
SuppressedForCause ==
  \A e \in Events, s \in Specs :
    /\ log[e].what[s] = "window" =>
         \E f \in Events : /\ log[f].what[s] = "queued" /\ key[f] = key[e]
                           /\ log[f].at >= log[e].at - conf[s].window
    /\ log[e].what[s] = "cooldown" =>
         \E f \in Events : /\ log[f].what[s] = "queued"
                           /\ log[f].at >= log[e].at - conf[s].cooldown

\* The windows are kept from both sides: they hold runs apart, and suppress nothing else.
WindowsKept == RunsApart /\ SuppressedForCause

\* An event that was given a run is acted upon: the run finishes, or is cancelled with its spec,
\* however often it was put off by later events.
EventsAreRun ==
  \A e \in Events, s \in Specs :
    log[e].what[s] = "queued" ~>
      \E r \in Events : r = log[e].run[s] /\ runs[s][r].st \in {"done", "cancelled"}

=============================================================================
