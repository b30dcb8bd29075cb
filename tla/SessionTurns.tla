----------------------------- MODULE SessionTurns -----------------------------
(***************************************************************************)
(* The prompts of one interactive session: those that wait in its queue    *)
(* (runtime/turn-queue/pending-prompt-service.ts), the turns they start,   *)
(* Stop, and the notes the runtime writes to the model through the same    *)
(* queue (runtime/host/local-runtime-host.ts).                             *)
(*                                                                         *)
(* HubRuns has many sessions and their admission; here one session is seen *)
(* from the inside.  Granularity: one action is a synchronous stretch      *)
(* between two awaits.  Prompts are named by their text, which is what the *)
(* queue compares.  Teams of agents, retries after an expired login and    *)
(* sessions that are stopped or disposed of from outside are left out.     *)
(***************************************************************************)
EXTENDS Integers, FiniteSets, Sequences

CONSTANTS
  None,
  MaxPrompts, \* bound: texts users submit, numbered in the order they first do
  MaxNotes, \* bound: texts of the harness, numbered likewise
  MaxEdits, \* bound: resubmissions, edits and deletions of waiting prompts
  MaxStops  \* bound: calls of abort

Prompts == 1 .. MaxPrompts
Notes == (MaxPrompts + 1) .. (MaxPrompts + MaxNotes)
Items == Prompts \cup Notes

\* noteKind, "none" for the reports of rounds and delegations; "status" stands for all
\* that merge.
Kinds == {"none", "status"}
Entries == [id : Prompts, kind : {"prompt"}, delivery : {"queue", "steer"}]
           \cup [id : Notes, kind : Kinds, delivery : {"queue", "steer"}]

ASSUME ConstantsAssumption ==
  /\ None \notin Items \cup Entries
  /\ {MaxPrompts, MaxNotes, MaxEdits, MaxStops} \subseteq Nat

VARIABLES
  session,  \* "up", "failing" while a turn that failed tears it down, or "gone" from the
            \* host's sessions
  queue,    \* pendingPrompts: <<[id, kind, delivery]>>
  turn,     \* item -> where the turn it started is
  agent,    \* the item whose run is in flight: canStartRun() is agent = None
  halted,   \* the run in flight has been told to abort
  aborting, \* session.aborting
  draining, \* the entry that drain has sent (drainingPendingPrompts), or None
  drainDue, \* a microtask that calls drain is queued
  given,    \* history: what was submitted or noted
  read,     \* history: what the model was given
  doomed,   \* history: what was deleted, and what waited when Stop dropped it
  stopped,  \* history: the turns in flight at a Stop
  ahead,    \* history: <<q, p>>: q waited in the queue when p joined it
  failing,  \* history: the last turn ended in an error, nothing was queued since
  overlap,  \* history: a turn was started while another was in flight
  edits, stops

queueVars == <<queue, drainDue>>
historyVars == <<given, read, doomed, stopped, ahead, failing, overlap, edits,
                 stops>>
vars == <<session, queue, turn, agent, halted, aborting, draining, drainDue,
          given, read, doomed, stopped, ahead, failing, overlap, edits, stops>>

(***************************************************************************)
(* A turn is "preparing" (executeTurn before the agent's run), "running",  *)
(* then "completed", "aborted" or "error" while its result is persisted    *)
(* and the session marked idle, and "over".  One that throws is "failing"  *)
(* until a run still in flight is cut off, and "closing" until the host    *)
(* forgets the session.                                                    *)
(***************************************************************************)
Settling == {"completed", "aborted", "error"}
TearingDown == {"failing", "closing"}
InFlight == {x \in Items : turn[x] \in {"preparing", "running"} \cup Settling}
Waiting == {queue[i].id : i \in DOMAIN queue}
CanStartRun == agent = None

TypeOK ==
  /\ session \in {"up", "failing", "gone"}
  /\ queue \in Seq(Entries)
  /\ \A i, j \in DOMAIN queue : queue[i].id = queue[j].id => i = j
  /\ turn \in [Items -> {"none", "preparing", "running", "over"} \cup Settling \cup TearingDown]
  /\ agent \in Items \cup {None}
  /\ {halted, aborting, drainDue, failing, overlap} \subseteq BOOLEAN
  /\ draining \in Entries \cup {None}
  /\ {given, read, doomed, stopped} \subseteq SUBSET Items
  /\ ahead \in SUBSET (Prompts \X Prompts)
  /\ edits \in 0 .. MaxEdits
  /\ stops \in 0 .. MaxStops

Init ==
  /\ session = "up"
  /\ queue = << >>
  /\ turn = [x \in Items |-> "none"]
  /\ agent = None /\ draining = None
  /\ halted = FALSE /\ aborting = FALSE /\ drainDue = FALSE
  /\ given = {} /\ read = {} /\ doomed = {} /\ stopped = {}
  /\ ahead = {}
  /\ failing = FALSE /\ overlap = FALSE
  /\ edits = 0 /\ stops = 0

-----------------------------------------------------------------------------
(* The queue.                                                              *)

\* The entries whose id is not in S, in their order (SelectSeq, spelled out): the k-th of
\* them is the one that has k of them up to it.
Without(q, S) ==
  LET kept == {i \in DOMAIN q : q[i].id \notin S}
  IN  [k \in 1 .. Cardinality(kept) |->
         q[CHOOSE i \in kept : Cardinality({j \in kept : j <= i}) = k]]
Steer(e) == [e EXCEPT !.delivery = "steer"]
Queued(e) == [e EXCEPT !.delivery = "queue"]

\* Bug: a steer keeps the place it had.
BugPlaced(q, i, d) ==
  IF q[i].delivery = "steer" /\ d = "queue" THEN Append(Without(q, {q[i].id}), Queued(q[i]))
  ELSE [q EXCEPT ![i].delivery = d]

\* insertUpdatedPrompt: a steer goes to the front, one that no longer is to the end.
Placed(q, i, d) ==
  IF d = "steer" THEN <<Steer(q[i])>> \o Without(q, {q[i].id})
  ELSE IF q[i].delivery = "steer" THEN Append(Without(q, {q[i].id}), Queued(q[i]))
  ELSE q

Merges(e, new) == e.kind \in Kinds \ {"none"} /\ e.kind = new.kind

\* Bug: a text that waits already is queued once more.
BugEnqueued(q, e) == IF e.delivery = "steer" THEN <<e>> \o q ELSE Append(q, e)

\* service.enqueue: a note takes the place of the one of its kind that waits; a text that
\* waits already moves to the front if either is a steer, else to the end.
Enqueued(q, e) ==
  IF \E i \in DOMAIN q : Merges(q[i], e)
  THEN [i \in DOMAIN q |-> IF Merges(q[i], e) THEN [q[i] EXCEPT !.id = e.id] ELSE q[i]]
  ELSE IF e.delivery = "steer" \/ \E i \in DOMAIN q : q[i].id = e.id /\ q[i].delivery = "steer"
  THEN <<Steer(e)>> \o Without(q, {e.id})
  ELSE Append(Without(q, {e.id}), e)

\* The prompts that wait are ahead of one that joins the queue.
Joins(p) == {r \in ahead : p \notin {r[1], r[2]}}
            \cup {<<q, p>> : q \in (Waiting \cap Prompts) \ {p}}

\* Bug: a drain is scheduled only if the queue was empty.
BugScheduleDrain(q) ==
  drainDue' = (drainDue \/ (Len(q) = 1 /\ ~aborting /\ draining = None /\ CanStartRun))

ScheduleDrain(q) ==
  drainDue' = (drainDue \/ (q # << >> /\ ~aborting /\ draining = None /\ CanStartRun))

\* controller.enqueue
Enqueue(e) ==
  /\ queue' = Enqueued(queue, e)
  /\ ScheduleDrain(queue')
  /\ given' = given \cup {e.id}
  /\ ahead' = IF e.id \in Prompts THEN Joins(e.id) ELSE ahead
  /\ failing' = FALSE

Prompt(p, d) == [id |-> p, kind |-> "prompt", delivery |-> d]

\* executeTurn up to its first await: the stop of an earlier turn is forgotten.
StartTurn(x) ==
  /\ turn' = [turn EXCEPT ![x] = "preparing"]
  /\ aborting' = FALSE
  /\ failing' = FALSE
  /\ overlap' = (overlap \/ InFlight # {})

Fresh(x, S) == x \in S \ given /\ \A y \in S \ given : x <= y

\* runTurn with a new prompt: at once, or with the queue's or a steer's delivery.
Submit(p) ==
  /\ session # "gone"
  /\ Fresh(p, Prompts)
  /\ IF CanStartRun
     THEN StartTurn(p) /\ given' = given \cup {p} /\ UNCHANGED <<queueVars, ahead>>
     ELSE Enqueue(Prompt(p, "queue")) /\ UNCHANGED <<turn, aborting, overlap>>
  /\ UNCHANGED <<session, agent, halted, draining, read, doomed, stopped, edits, stops>>

SubmitAs(p, d) ==
  /\ session # "gone"
  /\ \/ Fresh(p, Prompts) /\ UNCHANGED edits
     \/ p \in Waiting /\ edits < MaxEdits /\ edits' = edits + 1
  /\ Enqueue(Prompt(p, d))
  /\ UNCHANGED <<session, turn, agent, halted, aborting, draining, read, doomed, stopped,
                 overlap, stops>>

\* A steer while the lead waits inside a delegation is answered by a side turn, whose
\* recap is one of the notes.
SteerInSideTurn(p) ==
  /\ session # "gone"
  /\ Fresh(p, Prompts)
  /\ agent # None
  /\ given' = given \cup {p}
  /\ read' = read \cup {p}
  /\ UNCHANGED <<session, queueVars, turn, agent, halted, aborting, draining, doomed, stopped,
                 ahead, failing, overlap, edits, stops>>

\* pendingPrompts.update of the delivery, steerFirst, and edits of the text.
Update(i, d) ==
  /\ session # "gone"
  /\ i \in DOMAIN queue
  /\ edits < MaxEdits /\ edits' = edits + 1
  /\ LET e == queue[i]
     IN  /\ queue' = Placed(queue, i, d)
         /\ ahead' = IF e.id \in Prompts /\ d = "queue" /\ e.delivery = "steer"
                     THEN Joins(e.id) ELSE ahead
  /\ ScheduleDrain(queue')
  /\ failing' = FALSE
  /\ UNCHANGED <<session, turn, agent, halted, aborting, draining, given, read, doomed,
                 stopped, overlap, stops>>

Delete(i) ==
  /\ session # "gone"
  /\ i \in DOMAIN queue
  /\ edits < MaxEdits /\ edits' = edits + 1
  /\ queue' = Without(queue, {queue[i].id})
  /\ doomed' = doomed \cup {queue[i].id}
  /\ ScheduleDrain(queue')
  /\ failing' = FALSE
  /\ UNCHANGED <<session, turn, agent, halted, aborting, draining, given, read, stopped,
                 ahead, overlap, stops>>

\* nudgeLead, the recap of a side turn, deliverRound, deliverBackgroundDelegation: the
\* last two go straight into the conversation of an idle agent.
Note(n, kind) ==
  /\ session # "gone"
  /\ Fresh(n, Notes)
  /\ IF kind = "none" /\ CanStartRun
     THEN /\ given' = given \cup {n} /\ read' = read \cup {n}
          /\ UNCHANGED <<queueVars, ahead, failing>>
     ELSE Enqueue([id |-> n, kind |-> kind, delivery |-> "steer"]) /\ UNCHANGED read
  /\ UNCHANGED <<session, turn, agent, halted, aborting, draining, doomed, stopped,
                 overlap, edits, stops>>

\* Bug: the newest entry is taken.
BugNextEntry(i) == i = Len(queue)

\* Notes in front of the entry that no longer apply are dropped on the way to it.
NextEntry(i) == \A j \in 1 .. (i - 1) : queue[j].id \in Notes

\* drain: the next entry is taken off the queue and sent, which starts its turn.
Drain ==
  /\ drainDue
  /\ drainDue' = FALSE
  /\ IF aborting \/ draining # None \/ ~CanStartRun
     THEN UNCHANGED <<queue, draining, turn, aborting, failing, overlap>>
     ELSE \/ /\ \A i \in DOMAIN queue : queue[i].id \in Notes
             /\ queue' = << >>
             /\ UNCHANGED <<draining, turn, aborting, failing, overlap>>
          \/ \E i \in DOMAIN queue :
               /\ NextEntry(i)
               /\ queue' = SubSeq(queue, i + 1, Len(queue))
               /\ draining' = queue[i]
               /\ StartTurn(queue[i].id)
  /\ session # "gone"
  /\ UNCHANGED <<session, agent, halted, given, read, doomed, stopped, ahead, edits, stops>>

-----------------------------------------------------------------------------
(* The turns.                                                              *)

Sent(x) == draining # None /\ draining.id = x

\* What drain does once the turn it sent has settled, and runTurn's own call of it.
AfterTurn(x, result) ==
  /\ draining' = IF Sent(x) THEN None ELSE draining
  /\ drainDue' = (drainDue \/ result # "error")

\* completeInteractiveTurn, at its end
Settled(x, result) ==
  /\ turn' = [turn EXCEPT ![x] = "over"]
  /\ aborting' = FALSE
  /\ AfterTurn(x, result)
  /\ failing' = (result = "error")
  /\ UNCHANGED <<session, queue>>

\* failSession, called by the catch of runTurn: the session has failed, and while it is torn
\* down everybody still finds it.
Fail(x) ==
  /\ session' = "failing"
  /\ turn' = [turn EXCEPT ![x] = "failing"]
  /\ UNCHANGED <<queueVars, aborting, draining, failing>>

\* The catch of runTurn.
Throws(x) == IF aborting THEN Settled(x, "aborted") ELSE Fail(x)

\* A step of the preparation, or the write of the result, fails.
StepThrows(x) ==
  /\ session # "gone"
  /\ turn[x] = "preparing" \/ turn[x] \in Settling
  /\ Throws(x)
  /\ UNCHANGED <<agent, halted, given, read, doomed, stopped, ahead, overlap, edits,
                 stops>>

\* shutdownSession: a run that is in flight is aborted ...
CutOff(x) ==
  /\ session # "gone"
  /\ turn[x] = "failing"
  /\ turn' = [turn EXCEPT ![x] = "closing"]
  /\ IF ~aborting /\ ~CanStartRun
     THEN aborting' = TRUE /\ halted' = TRUE
     ELSE UNCHANGED <<aborting, halted>>
  /\ UNCHANGED <<session, queueVars, agent, draining, historyVars>>

\* ... and awaited.  The agent is then shut down, so that no turn gets to a run, and at the end
\* the host forgets the session.  Only then does runTurn throw: drain puts the entry it had
\* sent back into a queue that nobody can reach any more, no more than what waits there.
Remove(x) ==
  /\ session # "gone"
  /\ turn[x] = "closing"
  /\ halted => agent = None
  /\ session' = "gone"
  /\ turn' = [turn EXCEPT ![x] = "over"]
  /\ queue' = << >> /\ draining' = None /\ drainDue' = FALSE
  /\ UNCHANGED <<agent, halted, aborting, historyVars>>

\* Bug: the abort is not issued again.
BugHaltedAtOnce == FALSE

\* executeAgentTurn re-issues the abort that came before there was a run.
HaltedAtOnce == aborting

\* The agent's run begins; it refuses a second one.
BeginRun(x) ==
  /\ session # "gone"
  /\ turn[x] = "preparing"
  /\ IF CanStartRun
     THEN /\ turn' = [turn EXCEPT ![x] = "running"]
          /\ agent' = x
          /\ halted' = HaltedAtOnce
          /\ read' = read \cup {x}
          /\ UNCHANGED <<session, queueVars, aborting, draining, failing>>
     ELSE /\ halted' = (halted \/ aborting)
          /\ Throws(x)
          /\ UNCHANGED <<agent, read>>
  /\ UNCHANGED <<given, doomed, stopped, ahead, overlap, edits,
                 stops>>

\* Bug: the prompt that is read stays in the queue until its turn has ended.
BugSteersBefore(i) == {queue[j].id : j \in {j \in 1 .. (i - 1) : queue[j].delivery = "steer"}}

\* What leaves the queue when its entry i is read as a steer.
SteersBefore(i) == {queue[j].id : j \in {j \in 1 .. i : queue[j].delivery = "steer"}}

\* consumePendingUserMessage, before a request to the model (also once Stop was pressed:
\* nothing is checked between the top of the loop and here), and takeSteering.
ConsumeSteer ==
  /\ session # "gone"
  /\ agent # None
  /\ \E i \in DOMAIN queue :
       /\ queue[i].delivery = "steer"
       /\ \A j \in 1 .. (i - 1) : queue[j].delivery = "steer" => queue[j].id \in Notes
       /\ read' = read \cup {queue[i].id}
       /\ queue' = Without(queue, SteersBefore(i))
  /\ UNCHANGED <<session, drainDue, turn, agent, halted, aborting, draining, given, doomed,
                 stopped, ahead, failing, overlap, edits, stops>>

\* An aborted run may still have completed; a run may abort itself (loops, mistakes).
AgentEnds(x) ==
  /\ session # "gone"
  /\ agent = x
  /\ \E finish \in IF halted THEN {"completed", "aborted"} ELSE Settling :
       turn' = [turn EXCEPT ![x] = finish]
  /\ agent' = None
  /\ halted' = FALSE
  /\ UNCHANGED <<session, queueVars, aborting, draining, historyVars>>

Settle(x) ==
  /\ session # "gone"
  /\ turn[x] \in Settling
  /\ Settled(x, turn[x])
  /\ UNCHANGED <<agent, halted, given, read, doomed, stopped, ahead, overlap, edits,
                 stops>>

\* Bug: the queue survives the Stop of a turn that came from it.
BugDropped == {x \in Waiting : x \in Notes}

\* Bug: every Stop drops all that waits.
BugDroppedAlways == Waiting

\* What a Stop drops: the notes, and everything if the turn came from the queue.
Dropped == IF draining # None THEN Waiting ELSE {x \in Waiting : x \in Notes}

\* abort
Stop ==
  /\ session # "gone"
  /\ stops < MaxStops /\ stops' = stops + 1
  /\ aborting' = TRUE
  /\ halted' = (agent # None)
  /\ queue' = Without(queue, Dropped)
  /\ doomed' = doomed \cup {x \in Waiting : x \in Notes \/ draining # None}
  /\ stopped' = stopped \cup InFlight
  /\ UNCHANGED <<session, drainDue, turn, agent, draining, given, read, ahead, failing,
                 overlap, edits>>

-----------------------------------------------------------------------------
UserStep ==
  \/ \E p \in Prompts : \/ Submit(p) \/ SteerInSideTurn(p)
                       \/ SubmitAs(p, "queue") \/ SubmitAs(p, "steer")
  \/ \E i \in DOMAIN queue : Update(i, "queue") \/ Update(i, "steer") \/ Delete(i)
  \/ Stop

TurnStep ==
  \E x \in Items : \/ BeginRun(x) \/ StepThrows(x) \/ AgentEnds(x) \/ Settle(x)
                  \/ CutOff(x) \/ Remove(x)

Next ==
  \/ UserStep \/ Drain \/ TurnStep \/ ConsumeSteer
  \/ \E n \in Notes, kind \in Kinds : Note(n, kind)

Spec == Init /\ [][Next]_vars

\* The next step of a turn, when nothing goes wrong but the turn itself.
Proceeds(x) == BeginRun(x) \/ AgentEnds(x) \/ Settle(x) \/ CutOff(x) \/ Remove(x)

\* Microtasks run, and every turn ends: the awaits of its preparation, the run of the
\* agent, the writes after it and those of a teardown return or fail.
FairSpec == Spec /\ WF_vars(Drain) /\ \A x \in Items : WF_vars(Proceeds(x))

-----------------------------------------------------------------------------
(* Properties.                                                             *)

\* No prompt of a user gets lost, whatever is edited, merged, steered or stopped while it waits:
\* it waits, or its turn is being prepared, or the model has it, or the user removed it or
\* stopped its turn.  A turn that fails takes the session with it, and with the session all
\* that waits and its own prompt, although drain puts that back: no promise is made then.
NothingLost ==
  session = "up" =>
    \A p \in given \cap Prompts :
      p \in Waiting \cup read \cup doomed \cup stopped \/ turn[p] = "preparing"

\* No prompt is with the model and in the queue at once, or sent while it waits.
NothingTwice == \A x \in Waiting : turn[x] = "none" /\ x \notin read

\* What was deleted, or dropped by a Stop, is never run and never read.
RemovedStaysRemoved == \A x \in doomed : x \notin Waiting /\ turn[x] \notin {"preparing", "running"}

\* A steer is never behind a queued prompt, so the next boundary or turn takes it.
SteersFirst ==
  \A i, j \in DOMAIN queue : queue[i].delivery = "queue" /\ queue[j].delivery = "steer" => j < i

\* What waits has not been sent and was not deleted, and steers wait in front.
QueueInv == TypeOK /\ NothingTwice /\ RemovedStaysRemoved /\ SteersFirst

\* Queued prompts start their turns in the order in which they joined the queue.
InTurn ==
  [][/\ draining' \notin {draining, None}
     /\ draining'.kind = "prompt" /\ draining'.delivery = "queue"
     => \A i \in DOMAIN queue : queue[i].kind = "prompt" /\ queue[i].delivery = "queue"
          => <<queue[i].id, draining'.id>> \notin ahead]_vars

\* A queued prompt does not wait for ever, unless a turn ended in an error and nothing
\* was queued or edited since, or Stop was pressed between two turns, or a turn has failed the
\* session.
QueueDrains ==
  \A p \in Prompts :
    []<>(p \notin Waiting \/ session # "up" \/ failing \/ (aborting /\ InFlight = {}))

\* A turn that was in flight when Stop was pressed does not run on, also if its run had
\* not begun yet; unless turns of the session overlap, or the Stop comes while a run that an
\* expired login has broken off is being retried (left out here): the retry forgets it.
StoppedTurnIsHalted == overlap \/ \A x \in stopped : turn[x] = "running" => halted
=============================================================================
