# Verification of the Cline SDK's background work

TLA+ models of the parts of this repository that have to be right while nobody
watches: the automation (cron) subsystem, the hub daemon with its clients, its run
queue and its event log, the prompts of a session, and the loop of an agent. Source
paths are relative to `src/sdk/packages/core/src` unless they start with `sdk/`.

## 1. Inventory

The repository is a coding agent: an SDK (`sdk/packages`: `llms`, `agents`, `core`,
`shared`) and applications on top of it (CLI, VS Code extension, desktop). Most of its
lines are user interfaces, adapters to model providers and a generated catalogue of
models. What is hard sits in `core` and `agents`:

| component | state | operations | interacts with | modelled in |
|---|---|---|---|---|
| cron run queue, runners (`cron/store`, `cron/runner`) | `cron_runs` rows; per runner `activeRuns`, timers, abort controllers | enqueue, claim, renew, complete, requeue, attach; tick, heartbeat, deadline, stop | shared `cron.db`, sessions | `CronRunQueue` |
| schedules, materializer (`cron/service`, `cron/runner/cron-materializer.ts`) | `cron_specs` rows (revision, `next_run_at`) | create, update, delete, trigger, materialize | writes `cron_runs`; every tick of every process | `CronSpecs` |
| event ingress (`cron/events`) | event log, runs of events | ingest with debounce, dedupe window, cooldown | `cron_runs` | `CronEvents` |
| spec files, parser, time arithmetic (`cron/specs`, `cron/schedule`) | files, watcher timers | reconcile, parse, next slot | upserts of `cron_specs` | slots only |
| hub run queue (`hub/server/hub-run-queue.ts`, `handlers/run-queue-handlers.ts`) | `hub_runs` rows, `activeSessions` | enqueue, pump, execute, recover | session input | `HubRuns`, `RunFifo` |
| session input (`hub/server/handlers/run-handlers.ts`) | active turns per session | send, time out, abort | session host | `HubRuns` |
| pending prompts, session host (`runtime/turn-queue`, `runtime/host`) | queue, agent state, `aborting` | submit, steer, edit, delete, drain, run turn, Stop, fail | agent loop | `SessionTurns`, `HubRuns` |
| agent loop (`sdk/packages/agents/src/agent-runtime.ts`) | messages, budgets of its guards, abort controller | ask the model, retry, nudge, execute tools, steer, abort | providers, tools, hooks | `AgentLoop` |
| hub event log, sockets, clients (`hub/server/hub-event-log.ts`, `browser-websocket.ts`, `hub-server-transport.ts`, `hub/client`) | numbered events, listeners, subscriptions, cursors | publish, subscribe, replay, prune, reconnect, approve | applications | `HubEvents` |
| discovery, instance lock, upgrade, shutdown (`hub/daemon`, `hub/discovery`) | discovery record, two locks, `draining` | ensure, upgrade, drain, retire, repair, start, close | all clients of one owner | `HubDaemon` |
| agenda tasks, session persistence, providers, applications | rows, files | many | | not modelled |

Interactions. Several runners share one `cron.db`: the hub's `CronService` and
`HubScheduleService` each own a `CronRunner` (`hub/server/hub-server-transport.ts:360`
and `:446`), and so may the CLI and `ClineCore` in other processes. They meet only in
SQLite transactions. The hub's run queue has one owner, but its runs meet prompts that
clients send directly and prompts the session has queued. A session hands its turns to
an agent, which takes steers from the session's queue between two requests. Clients
find the hub through a record in a file, replace it when it is older than they are, and
follow its events over a websocket that may die unnoticed.

What makes each part correct, in a sentence: a claimed run is written only by its latest
claim and ends once; capacity limits hold; a one-time schedule runs once per revision and
a recurring one makes up for missed slots with one run; every event that is logged is
answered by a run that had not begun before it, or suppressed for a cause; the hub
executes accepted runs in order, once each; no prompt is lost, doubled or brought back;
the model gets a transcript it accepts and the loop ends; a subscriber gets the events of
its range in order, once, over reconnects; only older hubs are replaced, and not under
their sessions.

`hazards` in `PROJECT.json` lists what is hard to test, each at its line.

## 2. Modules

| module | models | extended or used by |
|---|---|---|
| `CronRunQueue` | `cron_runs`, claims, leases, runners | `CronRunQueueProofs`, `MCCronRunQueue` |
| `CronSpecs` | schedules and the materializer | `CronSpecsProofs`, `MCCronSpecs` |
| `CronEvents` | runs triggered by events | `CronEventsProofs`, `MCCronEvents` |
| `RunFifo` | what a run queue promises (abstract) | `HubRuns` (refinement) |
| `HubRuns` | the hub's runs, inputs and turns of many sessions | `HubRunsProofs`, `MCHubRuns` |
| `SessionTurns` | one session seen from the inside: prompts, turns, Stop | `SessionTurnsProofs`, `MCSessionTurns` |
| `AgentLoop` | a run of the agent | `AgentLoopProofs`, `MCAgentLoop` |
| `HubEvents` | event log, subscriptions, replay, reconnection | `HubEventsProofs`, `MCHubEvents` |
| `HubDaemon` | one hub per owner: discovery, upgrade, locks | `HubDaemonProofs`, `MCHubDaemon` |

In all of them an action is a transaction, or what a process does between two awaits.
A definition whose name starts with `Bug` is a faulty variant of the one that follows it;
no specification uses it. It shows that the properties notice the fault.

### CronRunQueue

`runs` is the table, with sessions and reports named by the claim they came from; `exec`
holds, per claim token, the `executeClaim` call and where it awaits; `active` is each
runner's `activeRuns`. A token is a UUID in the code and the pair (run, number of the
claim) here.

* `Tick` renews local claims and then claims a batch (`tick`, `claimDueRuns`);
  `IsClaimBatch` describes the batch: each row had capacity when its turn came.
* `Begin`, `RequestBuilt`, `SessionStarted`, `TurnFinished`, `StepFails`, `Unwind`,
  `CleanedUp`, `Report`, `Closed` are the stretches of `executeClaim`; `LateStart` is the
  continuation of a `startSession` nobody waits for any more.
* `Heartbeat`, `DeadlineFires`, `Stop`, `Stopped`, `Start`, `Crash`.
* `EnqueueRun`, `ToggleSpec`, `RemoveSpec` stand for the writers of the table.

The clock advances at any time without waiting for timers: that is a machine that sleeps.
`requeueRun` in a stopping runner is reached only if `stop` is called within the stretch
between claim and `executeClaim` (a telemetry callback); the model allows it between any
two claims of a batch.

### CronSpecs

`spec` and `runs` are the two tables, `proc` the block of statements a process is in, with the
records it has read. `Create`/`ReadCreated`/`InitializeNext`, `Delete`/`CancelQueued` and
`Trigger`/`ConsumeOneOff`/`TriggerRecurring` are split where the code issues separate
statements: between any two of them another process may write; `ListOneOffs`, `CheckOneOff`,
`InsertOneOff`, `ListSchedules`, `MaterializeDue` are the loop of `materializeAll`. Slots are
equidistant (`NextSlot`).

### CronEvents

A delivery has two halves: `Receive` reads the clock, `Accept` is the transaction
(`eventTransaction`, `materializeForSpec`) that may come up to `MaxSkew` later and in any
order; `FailAccept` rolls it back, and the caller may deliver the event again. `log` keeps
what became of an event for every spec and the run that answers for it. A run is named
by the event it was made for; its `trigger` is the event merged into it last, from which
the code measures the dedupe window and the cooldown. `Claim`, `Finish`, `Requeue`,
`Lapse`, `Remove` and `Restore` are the little of the queue that ingestion can notice.

### RunFifo and HubRuns

`RunFifo` states the promise of the comment that opens `hub-run-queue.ts`: per session a
queue in admission order, one run at a time, each taken once. `HubRuns` has the rows
(`state`), where every prompt is (`phase`), the count of active turns (`rpc`), the turns
sent by the drain of the in-memory queue (`drained`), the agent, and the executor's loop
per session (`pump`). A failing turn shuts its session down in several steps, during which
prompts still arrive. `Exit` may come at any time, also between the insert of a run and the
call of the pump; `Recover` is the next start.

### SessionTurns

`queue` is the session's `pendingPrompts` with both deliveries (steer and queue), `turn`
where each item's turn is, `agent` the run in flight. Users submit, edit, delete and press
Stop; the harness writes notes through the same queue, where they merge. `Drain` is the
microtask that takes the next entry and starts its turn, `ConsumeSteer` the callback with
which the agent reads a steer. A turn that fails tears its session down in steps before it
throws (`failSession`): `Fail` takes the status away, `CutOff` ends a run in flight, `Remove`
takes the session out of the host, with all that waits in its queue and the prompt that the
drain puts back afterwards. Histories (`given`, `read`, `doomed`, `stopped`, `ahead`) record
what users asked for, in which order, and what the model saw.

### AgentLoop

`at` is where `execute()` waits, `tail` the transcript from the model's last message on,
and the other variables are the counters of its guards: retries of the provider, recovery
from overflow, from cut answers, from calls that cannot be read, from answers that only
think, and nudges. What the model says is reduced to what the loop tells apart. Tools are
executed by a pool of workers; a tool that bounds its own concurrency
(`boundsOwnConcurrency`) runs outside of the pool. `Abort`, `SendSteer`, `HookStops` come in
between any two awaits. The end of a turn without calls is two actions, `SilentTurn` and
`Conclude`: between them the code awaits its guards, the host and the completion boundary,
and nothing that arrives meanwhile is looked at before `finishRun`.

### HubEvents

One client, since clients share nothing but the log. `up` and `down` are the frames on the
wire, lost with the connection. `peer` is the hub's end of each socket: it may stay half
open until the heartbeat finds out, after the client is back on another socket. `subs`
tells for each subscription whether the adapter holds it and whether the hub has a
listener for it. A replay reads pages of the log between which live events arrive.

### HubDaemon

A client is a process that runs `ensureDetachedHubServer` or `upgradeManagedHub`, one
action from await to await (`TakeStartupLock` to `Wipe`); a daemon takes the instance lock,
publishes its record, serves, closes and exits (`TakeInstanceLock` to `Exit`). All daemons
want the same URL, so a hub can be replaced behind it while a client acts on what it saw.
Daemons and clients die, a startup lock is stolen for being old, and a probe, a
verification, a drain (before or after it took effect), the question for sessions or the
lifting of a drain may each go unanswered although the hub serves. That is what makes a
client clear and then repair the record of a living hub, and what stops a busy hub or leaves
it draining (section 5); the history `lost` tells which requests a hub left unanswered.

## 3. Runs

| run | instance | states | shows |
|---|---|---|---|
| `cron_fencing` | 2 runners, 1 run, 3 claims, clock 0..2 | 368,169 | superseded workers cannot touch a row; settled is final; an aborted execution never succeeds; stop returns |
| `cron_single_runner` | 1 runner, 2 schedules, 2 runs, 2 claims each | 594,399 | capacity, attempts counted, one worker per run |
| `cron_liveness` | 1 runner, 2 runs for one slot, deadline | 83,502 | queued runs settle although runners die; a run given up for its deadline or a stop does not succeed after all, and late sessions are discarded |
| `specs_one_time` | 1 process, 1 schedule of changing kind, 2 revisions, 2 runs, clock to 4 | 234,384 | one run per revision, in its revision, and it happens |
| `specs_shared` | 2 processes that may die, 2 runs, clock to 3 | 517,621 | one catch-up run; deleted schedules drain |
| `cron_events` | 3 events, 3 patterns of keys, 1 spec with 4 settings, skew 1, clock to 5, 1 fault | 563,416 | no event swallowed; windows kept; every event with a run is acted upon |
| `hub_runs` | 1 session, 3 runs, 1 client prompt, queue limit 2 | 520,352 | FIFO refinement; running rows are worked on; nothing left in the queue |
| `hub_events` | 2 events, 1 approval, 2 sockets, pages of 1, 1 sweep | 360,367 | no gap; order; no repetition; catches up; approvals arrive |
| `hub_events_silenced` (violation) | the same for the key of one session, without approval and sweep | 3,823 | section 5 |
| `session_turns` | 2 prompts, 2 notes, 1 edit, 1 Stop | 1,985,770 | prompts of a live session neither lost, doubled nor brought back; order; Stop stops; the queue drains |
| `agent_loop` | 1 run, 1 steer, 2 calls per turn, pools of 1 and 2, budgets of 1 | 527,488 | calls answered; steer answered; abort final; a silent model ends |
| `hub_daemon` | clients of builds 1 and 2 in all combinations, 3 daemons, 1 fault | 640,410 | only older hubs retired; sessions spared; hubs handed back; clients end |

Invariants named `...Inv` are conjunctions of named parts, the type invariant among them.

Why the bounds are enough for what they show.
*Leases.* `Lease` is one clock tick and `MaxNow` at least one lease, so a lease can run out
at every point of an execution; three claims of one run give a superseded worker, its
successor and the successor's successor. With two runs it is the limit of a schedule that
binds (both runs may belong to one); the global limit of two cannot be exceeded by two runs,
and is covered for all bounds by the theorem `CapacityIsKept`.
*Schedules.* Two revisions are what stale records can confuse; with `Period` 1 and a clock
to 3 a process may miss several slots. `ListLimit` is never reached.
*Events.* With three events one can be merged, one suppressed and one be given its own
run; the windows of two ticks can end before, at and after a later event, and a skew of
one reverses neighbours. The theorems of section 4 have no such bounds.
*Hub runs.* Two runs can be queued while a third has just ended, which order needs;
timed-out runs whose turns linger and the client's prompt make turns overlap.
*Hub events.* Two sockets are an old one and its successor, pages of one make every replay
longer than a page, one sweep removes what a cursor still wants.
*Sessions.* Two prompts and two notes show every order of steer, queue and note; one edit
changes the delivery of a waiting prompt. *Agent.* A budget of one is used up and meets its
successor's first use; two calls end in both orders. *Daemons.* Three daemons are an old hub,
its successor and one that loses the race for the lock.

Deadlock is checked in the `cron_fencing`, `cron_single_runner`, `cron_liveness` and
`hub_runs` runs. In the others the instance really stops: time, rows, prompts, runs or
daemons are used up.

Fairness.
*CronRunQueue*: microtasks of a live process go on, and awaits the code bounds
(`CLEANUP_TIMEOUT_MS`) end: `Settling`. That is all `StopReturns` needs; above all not that
the agent's turn ends. It is checked with two runners and excepts by name an execution that
lost its entry in `activeRuns` (`Orphaned`, section 5). `TurnsEnd` and `Polling` are stated
where they are needed. `BeyondBounds` excuses a row whose dead claim the bounds can no longer
outlast.
*CronSpecs*: a process inside a block goes on; some process keeps ticking. Strong fairness is
used for the tick and the start of a run, because a process is now and then busy with a user's
command. Users owe nothing.
*CronEvents*: time passes, transactions end, a runner polls, a run that keeps its lease
finishes. Lapses and removals are never owed.
*HubRuns*: the event loop runs what is ready, turns end, the shutdown of a session is not
starved. A hub that went down need not come back.
*HubEvents*: frames are taken, replays go on, the reconnect timer fires while there are
subscriptions, a client sees that its hub is gone and the heartbeat finds half-open sockets.
*SessionTurns*: microtasks run, every turn ends and so does a teardown: weak fairness for the
turn of each item.
*AgentLoop*: requests, hooks, approvals and tools come to an end.
*HubDaemon*: requests are answered or fail, sleeps end and daemons get on; the two weak
fairness conditions are for all clients and all daemons together, which suffices since no
client or daemon can act for ever.

## 4. Proofs

### CronRunQueueProofs

For any number of runners, schedules, runs, claims, any lease, limits and clock:

* `TypeCorrectness`: `Spec => []TypeOK`;
* `ClaimsWorkedOn`: `Spec => []ClaimsAreWorkedOn`;
* `LatestClaimWrites`: `Spec => []ResultsOfLatestClaim`;
* `SettledForever`: `Spec => SettledIsFinal`;
* `LeaseProtects`: `Spec => ClaimEndsByOwnerOrExpiry`;
* `AbortIsKept`: `Spec => AbortedNeverSucceeds`;
* `AttemptsAreDispatches`: `Spec => []AttemptsCountDispatches`.

And with one runner (`OneRunner`; section 5 says what happens with two):

* `CapacityIsKept`: `OneRunner /\ Spec => []DispatchInv`;
* `OneWorker`: `OneRunner /\ Spec => []OneWorkerPerRun`.

The inductive invariant is `FencingInv`. `ClaimsAreWorkedOn` is not inductive by itself: one
needs that tokens are fresh (`TokensAreFresh`), that every row that was inserted or claimed
has a schedule (`RowsHaveSpecs`), and, because `attachReportPathToRun` names the row by its
id alone, that an execution that is about to report settled its row itself and nobody can
have claimed it since (`ReporterSettledTheRow`). What an action may write is stated once per
group of actions (`ExecuteWrites`, `TickWrites`, `HeartbeatWrites`, `OtherWrites`); the
invariants follow from these lemmas rather than from the actions.

The last two, and the proofs about one runner, start from `StepKinds`: a step is a tick, a
crash, a move of one execution (`Moves`: it goes on, is entered, hands its row back, settles
it, gives up or returns) or happens aside of them. `SoleInv` says that whoever works on a run
holds its row and is registered for it; hence a tick renews that row before it claims and
spares it (`TickSpares`), which is all `OneWorkerPerRun` needs. The bound on live leases is
not inductive: the lease of a living execution may run out, others may be claimed, and its
renewal counts no capacity. What is inductive is the bound on the rows of `Kept`, whose lease
is live or whose execution is alive. Only a tick adds to them, and its last row
(`LastClaimed`) found room for the whole batch (`BatchFits`, `BatchFitsSpec`).

### CronEventsProofs

For any number of events, keys and specs, any settings, clock and wait for the database:

* `EventTypes`: `Spec => []TypeOK`;
* `AcceptedWhole`: `Spec => []LoggedIsDecided`;
* `NoEventSwallowed`: `Spec => []BeginsAfterEvents`;
* `WindowsAreKept`: `Spec => []WindowsKept`.

The inductive invariant is `EventsInv`. That no event is swallowed follows from two facts
that each step keeps: a run waits for every event it was given (`RunsWaitForEvents`, which
needs that merging never moves a run's time back) and a run begins when it is due
(`RunsBeginWhenDue`, which needs that `requeueRun` clears `started_at`). The windows are
measured from the receipt of a run's trigger, which changes as events are merged, while the
property speaks of the events the runs were made for. `TriggersAreGiven` bridges the two: the
trigger has the key of the run's event and was received at most `MaxSkew` before it, since
no delivery waits longer (`DeliveriesAreRecent`). `AcceptWrites` says what one transaction
writes for a spec (declined, merged, newly made), `AcceptedRows` what that does to a row, and
`RunsMove` what claims, returns, lapses and removals have in common. `LargestExists`, by the
well-foundedness of strict inclusion on finite sets, is what makes the choice of
`findQueuedEventRunForDedupe` meaningful; it uses the assumption that events are finitely
many.

### HubDaemonProofs

For any number of clients, builds, daemons and faults:

* `DaemonTypes`: `Spec => []TypeOK`;
* `NewerRetire`: `Spec => OnlyOlderRetired`;
* `IdleHubsClose`: `Spec => SessionsSpared`.

What a retiring client knows of a hub is old by the time it acts. The inductive invariant
`DaemonInv` says what is left of it: the hub whose token it has is older than the client or
no longer serves (`RetiresOlder`), because a token that was ever in the record belongs to
one hub for good (`TokensWereHubs`) and the instance lock lets one hub serve at a time
(`OneHub`): a token that is not that of the hub that answers is that of a hub that has gone.
A signal to the recorded pid therefore reaches an older hub, or one that was already told to
stop (`ClosingIsStopped`).

`SparedInv` adds what becomes of a drain. A client that goes on to stop a hub that serves
has drained it itself (`DrainsAreOwn`, from `KnownAccepts`: a hub that serves accepts its
own token); the drain holds or its lifting has marked the hub (`DrainsHold`); under a drain
no creation is under way that was not there before (`NoneCreated`); hence what was idle when
the client looked stays idle (`StaysIdle`), until the sockets close (`StoppedAreIdle`). The
writes of all requests are compared by one predicate (`Fits`), those of a daemon by another
(`Goes`). Hubs that the property excepts are `Marked` throughout: one that left a request to
drain or the question for its sessions unanswered while it served (`lost`), and one that has a
session its drain does not cover (`late`). A loss marks the hub in the very step that makes
the client go on without an answer (`LossFits`), and no step takes a mark away.

### HubRunsProofs

For any number of sessions, clients and runs:

* `RowsTellTheTruth`: `Spec => []RunsInv`;
* `HubRunsImplementsFifo`: `Spec => ImplementsFifo`, the refinement of `RunFifo`.

A row alone does not say whether its request is in flight, so the inductive invariant `HubInv`
relates the rows, the loops of the executor and the requests: what is awaited is recorded as
running and is not at two places at once (`AwaitedRun`); while the database is open a running
row is awaited, by its session's loop, which has one and is busy (`RunningAwaited`); a daemon
that is down does nothing (`DownRests`), so a restart finds every running row to be nobody's.
Steps are of three kinds: those that leave requests and running rows alone (`QuietKeeps`),
those that take the oldest queued row (`TakeKeeps`; it exists because the sets of runs before
each run are well-founded), and those in which a request returns (`ReplyKeeps`). The counts
of the property follow from uniqueness (`OneOrNone`).

For the refinement, a session's waiting queue is its queued rows, oldest first (`Oldest`: a row
stands at the position of its rank among them), and its current run is the one recorded as
running. Rows are made in the order of their numbers (`RowsInOrder`), so the row of an admission
has the last rank and the queue grows at its end (`AdmitAccepts`); the executor takes the row of
the first rank (`TakeBegins`), and only when none is running, by `HubInv`; a row that leaves
"running" ends the current run (`RunsSettle`); every other step, a restart of the daemon with
no run under way included, leaves the three mapped variables alone (`RowsRest`).

### HubEventsProofs

For any number of keys, sessions, events, sockets, sweeps and any size of a page:

* `HubEventsDelivers`: `Spec => []DeliveryInv`;
* `HubEventsLeavesNoGap`: `Spec /\ []Fits => []NoGap`.

`Fits` says that the log has at most `MaxPages * PageSize` rows. It is the intent of
`HUB_EVENT_REPLAY_MAX_PAGES` (`hub/server/browser-websocket.ts:24-30`: 1,000 pages of 200, "covers
the event log's full retention cap"). The code enforces the cap by a sweep now and then; between
two sweeps the log may be larger, and a replay that runs out of pages goes over to live delivery
with rows left out. The premise is therefore needed: with `MaxPages = 1` TLC violates `NoGap`.

The inductive invariant `EventsInv` has two layers for each key. `KeyBase`: what a subscription
will still send lies past all that it or its predecessor sent, on the wire or taken, hence order
and no repetition. `KeyGap`: up to there nothing was left out, the buffer of a replay holds all
that was published since it began, and the pages left suffice for the rows before it. The first
layer needs no premise, the second needs `Fits`; the parameter `enough` says which is meant, so
that both theorems share their lemmas. A key whose subscription has not been opened on this
connection is `Fresh`: the next one starts from its cursor. The wire and the pages are described
by ranks (`Sorted`, `At`) instead of recursion. There is a lemma for each thing that can happen
to a key: an event is published (`KeyGrows`), its subscription goes deaf or goes (`KeyShrinks`),
the client takes a frame (`KeyTakes`), a page goes out (`KeyReplays`), it is subscribed
(`KeyBegins`), it concerns another key (`KeyUntouched`) or the connection is lost (`KeyAlone`).

### AgentLoopProofs

For any number of runs, messages and calls, all budgets and all bounds:

* `UserIsAnswered`: `Spec => []SteerIsAnswered`. In the strengthening `SteerInv`, `Resumed`
  says that only `resume` stands between a message that was read and the end of the run: once it
  is off, a turn of the model has been recorded since; the turn that ends the run is recorded
  after it and replaces the transcript that held the message. `Unheard` speaks of messages not
  read yet: one that waits while a request is open cuts it, or another was read before it; one
  that waits when a silent turn is closing came after its stream, or another was read before
  it. Those that came after the last stream are counted in `missed` and excepted: the code
  does not look for them (section 5).
* `EveryCallIsAnswered`: `Spec => []CallsAnswered`. In `LoopInv` the model's message is the
  first of the transcript kept (`AskedFirst`), nothing follows it while its calls are in hand
  and it counts them (`InHand`), and it is answered by all results in order, or by none
  (`OneOfThem`). The pool starts and ends calls in any order without losing one
  (`FillKeepsCalls`, `LaunchedKeepsCalls`), so `Collect` appends a result for each
  (`CollectKeeps`); every other step says something only when no call is in hand
  (`SpokenKeeps`).
* `CallsAreKept`: `Spec => []CallsInv`, with the types and the bounds of the pool. The calls
  that are busy never outnumber the workers, nor these the bound of the turn (`PoolInv`): a
  worker takes the first calls that wait (`FirstOnes`, `FillBusy`), and one that ends a call
  takes the next (`SetCallBusy`), also in a run that was stopped while the next one begins.
* `AbortIsFinal`: `Spec => AbortSendsNothing`. `AbortHolds` also says that an aborted run ends,
  which TLC checks.

### CronSpecsProofs

For any number of processes, schedules, revisions and runs, any period and clock:

* `SpecsTypes`: `Spec => []TypeOK`;
* `MissedSlotsMakeOneRun`: `Spec => []CatchUpOnce`.

And for one process (`Alone`; with two, section 5):

* `RevisionRunsOnce`: `Spec => []SpecsInv`;
* `StartsInItsRevision`: `Spec => OneOffStartsInItsRevision`.

A recurring schedule queues one run for all slots it missed because its next slot is later
than the making of each of its runs (`Ahead`), in whatever order processes edit, trigger,
materialize and die: every write of the row keeps or advances that time, except the last write
of a creation, recurring or one-time, of a schedule for which another process has queued a run
since the row was inserted (`cron/store/sqlite-cron-store.ts:1167` and `:687`). The history
field `late` marks such schedules and `CatchUpOnce` excepts them (section 5). For one process,
what it has read of a schedule is still true when it acts on it (`SeenIsTrue`), and a one-time
run that is queued belongs to the present revision (`OneOffRevisions`): an edit withdraws the
others.

### SessionTurnsProofs

For any number of prompts, notes, edits and stops:

* `TurnsInvariant`: `Spec => []TurnsInv`;
* `NoPromptIsLost`: `Spec => []NothingLost`;
* `QueueIsConsistent`: `Spec => []QueueInv`;
* `StopHalts`: `Spec => []StoppedTurnIsHalted`;
* `PromptsStartInTurn`: `Spec => InTurn`.

`TurnsInv` follows a prompt from the queue into its turn: what waits was not read and has no
turn (`OnTheirWay`), what the drain has taken was accepted, and the histories record what
was (`Recorded`), a turn is torn down only with its session (`TornDown`), steers wait in front
and the others in the order in which they joined, by the relation `ahead` (`InOrder`), and the
abort of a stopped turn is remembered by the agent, by the session, or by
the turn that has yet to begin (`Halting`). That removing an entry keeps the order of the others
is stated by ranks (`PartBy`: a strictly increasing function from the positions left to the
positions before), because what `SelectSeq` computes is induction over data and out of the
prover's reach; `Without`, the removal, is defined by these ranks, and its assumption is that
`None` is no item and no entry. `NothingLost` promises something only while the session is up:
one that fails loses what waits in it (section 5).

Only model-checked is liveness, beyond the prover: among it that an aborted run of the agent
ends, and that a client of the hub catches up and hears of approvals. The state predicates and
step properties of all runs are theorems.

## 5. What the models showed

### A violated property

`hub_events_silenced`: the hub notices the end of an old connection after the client is back
on a new one. The close of the old socket unregisters the client id that both share, and with
it the listeners of the new socket. The adapter still holds the subscriptions, so renewing
them does nothing, and the client hears nothing until it reconnects. `hub-event-log.ts:9-10`
says that disconnect never implies data loss. The passing properties `CatchesUp` and
`ApprovalReaches` except subscriptions in that state (`Silenced`).

### What other instances show

Each is a counterexample of the same modules under other constants or for another formula;
no run keeps them.

* *Capacity with two runners* (`CapacityRespected`, `Runners = {A, B}`, one schedule).
  `renewClaim` renews an expired lease without counting capacity: a runner that slept renews
  its lease after another was given the freed slot (`cron/store/sqlite-cron-store.ts:1699`;
  `sdk/ARCHITECTURE.md:876` says the claim transaction keeps several connections from
  exceeding a schedule's parallelism).
* *A runner reclaims its own run* (two runners, four claims, clock to 3). `activeRuns` is
  keyed by run; when a run went to another runner and came back, the exit of the first
  execution deletes the entry of the second (`cron/runner/cron-runner.ts:550`). Its lease is
  no longer renewed by the tick, which claims it while it is being worked on, and `stop` waits
  for its turn instead of aborting it. `cron_fencing` reaches the latter; `StopReturns`
  excepts it (`Orphaned`), and without the exception TLC violates it. Two executions of one
  run under two runners are also what the expiry of a lease means; hence `OneWorkerPerRun` is
  checked for one.
* *A one-time schedule runs twice* (`OneRunPerRevision`, two processes). The materializer's
  check and insert are two statements (`cron/runner/cron-materializer.ts:77`), and the
  unique index does not cover manual runs.
* *A one-time schedule runs early.* A manual trigger clears `next_run_at`; an edit of the
  prompt makes a new revision without restoring it, which is due at once
  (`cron/store/sqlite-cron-store.ts:771`).
* *A missed slot is made up for twice* (two processes; `specs_shared` without the exception).
  A creation inserts the row and sets `next_run_at` later. That of a recurring schedule reads
  the row and the clock (`cron/store/sqlite-cron-store.ts:1154`) and writes the slot in another
  statement (`:1167`): if another process lists the schedule and queues its run between them,
  the write puts `next_run_at` back and the slot is queued again. That of a one-time schedule
  (`:687`) does so if the other process makes it recurring first. `CatchUpOnce` excepts schedules
  of which a run was queued in the middle of their creation (`late`).
* *Idle hub that works.* Turns that the in-memory queue starts are in neither count of
  `hub.status` (`hub/server/hub-server-transport.ts:1094`).
* *A log longer than a replay* (`MaxPages = 1`, pages of 1). A replay that has used up its pages
  goes over to live delivery, and the client's cursor passes rows it never saw
  (`hub/server/browser-websocket.ts:24-30`); `NoGap` needs a log within the pages.
* *Two turns of one session.* `runTurn` checks the agent several awaits before it starts it
  (`runtime/host/local-runtime-host.ts:3110`). The agent refuses the second run, and that
  fails the session. In `SessionTurns` the history `overlap` marks these behaviours.

### Remarks on the code

*Schedules and runs.* `listSpecs` returns at most 500 rows and one-time schedules that have
run stay enabled, so with more of them the oldest pending one is not materialized. A hub run
whose session is busy is recorded as completed while its prompt waits in memory.

*Events.* `sdk/examples/cron/README.md:144` and `:320` let the cooldown begin after a run;
the code measures it from the receipt of the trigger. Cancelled and failed runs suppress
later events too. Merging skips the cooldown, and nothing limits how long a burst may put a
run off. Merging an older event moves the trigger, and with it the windows, back; `RunsApart`
therefore has the tolerance `MaxSkew`.

*Sessions.* A turn that fails takes its session with it
(`runtime/host/local-runtime-host.ts:3222`, `:4843`), and with the session the prompts that
wait in its queue, without a word to the user. The drain then puts its own prompt back
(`runtime/turn-queue/pending-prompt-service.ts:467`), but into the queue of a session the host
no longer has; in the paths modelled a turn of the drain never throws and leaves the session
alive, so this never helps. A harness note that is queued while a stopped turn settles starts
the session again (`runtime/turn-queue/pending-prompt-service.ts:397-403`). Stop between two
turns leaves `aborting` set, and what is queued then waits for the next prompt (excepted in
`QueueDrains`). The retry after an expired login resets the request to abort
(`runtime/orchestration/session-runtime-orchestrator.ts:1192-1214`). Of two steers the newer
is read first.

*Agent.* A message of the user that arrives between the end of the last stream and `finishRun`
is not read by that run: the guards, the host and the completion boundary are awaited in
between (`sdk/packages/agents/src/agent-runtime.ts:2545-2827`), and the code does not look
again. An abort there is not looked at either, and the run completes. An abort during the last
tool of a run still ends as "completed" (`sdk/packages/agents/README.md:166-167`). A Stop by
the user does not keep approved calls of the same turn from starting, nor does a stop by a
hook (`:178-179`). Budgets of the guards are those of the instance, not of a run. Calls that
cannot be read, alternating between two kinds, and a completion policy that names a tool, are
nudged without bound.

*Hub.* Requests to a hub that is slow to answer are read as if it were not there. A question
for its sessions that fails means "idle" (`hub/daemon/index.ts:281`, `:293`) and a drain that
fails means that the snapshot decides (`:308-311`): a busy hub is stopped. Nor is a hub handed
back that took a drain whose answer was lost, since the client then does not know that it
drained it (`:320-324`, `:237-241`, `:342`); that does not answer one probe and so counts as
retired (`:211-214`); or to which the request to lift the drain, made once, does not get
through (`:329-334`, `:343-348`): it stays up and refuses all work. `SessionsSpared` and
`HandedBack` except these hubs by name (`lost`). `ensureHubWebSocketServer` looks for sessions
before it drains and ignores a failed retirement. `clearHubDiscovery` does not compare ids, so
it can delete the record of a new hub; records repaired under `repaired-<port>` are never
removed by their hub. `draining` is one flag for all clients: one lifts another's drain. A
client killed between drain and its end leaves the hub draining. `session.create` under way,
and `session.attach`, which is not among the refused commands, start sessions on a drained
hub, contrary to `hub/daemon/index.ts:304-312` ("the hub admits no new work, so the reading
stays true through the retire"). `SessionsSpared` excepts these by name (`late`).

### Hazards without a property

`hub.status` (above) has no property because the code violates it. Not stated either: a
client that connects without a cursor gets only what follows; overlapping keys on one
connection move each other's cursor; a key that is unsubscribed and subscribed again on one
connection may see frames of its first life (excepted by `cancelled`); a log that was
replaced leaves cursors ahead of it; the sweep of `reconcileAll` after a partial listing; the
slots around a change of daylight saving.

## 6. Not modelled

The lines that the map covers are a small share of the repository, and will remain so: most
of it is user interface, provider adapters, generated data and tests, which keep no state
that processes contend for.

Left out of modelled components: see `components` in `PROJECT.json`. Most important: the order
of prompts within `HubRuns` (that is `SessionTurns`), teams of agents and non-interactive
sessions, the retry after an expired login, which loses a Stop
(`runtime/orchestration/session-runtime-orchestrator.ts:1204-1233`), several consecutive runs
of an agent in the passing run (the module has them; `MaxRuns` is 1), `restore()`, the guards
of the agent that look for a lack of progress, for repetition and for a cut intent to call a
tool, exceptions of SQLite in a runner (the read of the event log before its `try`,
`cron/runner/cron-runner.ts:352-354`, and the write in its `catch`, `:498`), port fallback and
protocol versions of hubs, an append to the event log that fails.

Not modelled at all: the reconciler and the parser of spec files, agenda tasks (their claims
follow the pattern of the cron queue), the persistence of sessions, providers, applications.

What would come next: consecutive runs of the agent with their leftover abort controllers; the
directory scan of the reconciler against its watcher; agenda tasks.
