------------------------------- MODULE HubRuns -------------------------------
(***************************************************************************)
(* Runs and turns of a hub daemon: the durable queue of accepted runs      *)
(* (hub/server/hub-run-queue.ts), the executor that drains it per session  *)
(* and the handler of session input (hub/server/handlers), start, drain    *)
(* and stop of the server transport, and as much of the session host       *)
(* (runtime/host/local-runtime-host.ts) as decides whether a prompt starts *)
(* a turn, waits in the session's in-memory queue, or fails.  Sessions are *)
(* interactive.  Deadlines of single turns are chosen nondeterministically.*)
(* A refused command (hub.drain, full queue) leaves the state as it is, so *)
(* a hub that drains is one whose clients happen to send nothing.          *)
(*                                                                         *)
(* Granularity: one action is a synchronous stretch between two awaits, or *)
(* one statement on the queue's database: the process may die in between.  *)
(***************************************************************************)
EXTENDS Integers, FiniteSets, Sequences

CONSTANTS
  Sessions,
  Clients,  \* the prompts that clients send with run.start or session.send_input
  Limit,    \* maxPendingPerSession
  MaxRuns   \* bound: runs ever accepted

ASSUME ConstantsAssumption ==
  /\ Limit \in Nat
  /\ MaxRuns \in Nat
  /\ Clients \cap (0 .. MaxRuns) = {}
  /\ Sessions \cap {0} = {}

RunIds == 1 .. MaxRuns  \* accepted_seq
Turns == RunIds \cup Clients
None == 0               \* no session, no turn

VARIABLES
  session,  \* turn -> its session
  state,    \* hub_runs.state of each run
  phase,    \* turn -> where its prompt is
  rpc,      \* the turns counted in activeRpcTurnCountBySession
  drained,  \* the turns sent by the drain of the in-memory queue
  agent,    \* session -> the turn its agent executes
  aborting, \* session -> an abort has not settled yet
  live,     \* session -> the session host's entry for it
  pump,     \* session -> the executor's drainSession loop
  mode      \* the daemon

vars == <<session, state, phase, rpc, drained, agent, aborting, live, pump, mode>>

Terminal == {"completed", "failed", "aborted", "interrupted"}
FinishReasons == {"completed", "max_iterations", "mistake_limit", "error", "aborted"}

(***************************************************************************)
(* phase: "lookup" (handleSessionInput awaits getSession), "preparing"     *)
(* (executeTurn before agent.run), "turn" (the agent runs it), "ending"    *)
(* (the agent is done, runTurn not yet), "failing" (runTurn awaits the     *)
(* shutdown of the failed session), "waiting" (in pendingPrompts), "over". *)
(* live: "closing" while shutdownSession runs; the entry goes at its end.  *)
(* pump: "busy" (execute awaits the reply), "next" (about to look for the  *)
(* next run), "leaving" (found none, finally not yet reached).             *)
(* mode: "pumping" is the synchronous stretch of an admission, or of the   *)
(* start, that still has to call pump.                                     *)
(***************************************************************************)
TypeOK ==
  /\ session \in [Turns -> Sessions \cup {None}]
  /\ state \in [RunIds -> {"absent", "queued", "running"} \cup Terminal]
  /\ phase \in [Turns -> {"none", "lookup", "preparing", "turn", "ending", "failing",
                       "waiting", "over"}]
  /\ rpc \subseteq Turns
  /\ drained \subseteq Turns
  /\ agent \in [Sessions -> Turns \cup {None}]
  /\ aborting \in [Sessions -> BOOLEAN]
  /\ live \in [Sessions -> {"gone", "open", "closing"}]
  /\ pump \in [Sessions -> {"off", "busy", "next", "leaving"}]
  /\ mode \in {"down", "pumping", "up", "disposing", "closed"}

Init ==
  /\ session = [t \in Turns |-> None]
  /\ state = [r \in RunIds |-> "absent"]
  /\ phase = [t \in Turns |-> "none"]
  /\ rpc = {}
  /\ drained = {}
  /\ agent = [s \in Sessions |-> None]
  /\ aborting = [s \in Sessions |-> FALSE]
  /\ live = [s \in Sessions |-> "gone"]
  /\ pump = [s \in Sessions |-> "off"]
  /\ mode = "up"

EventLoop == mode \in {"up", "disposing", "closed"}

-----------------------------------------------------------------------------
(* The durable queue.                                                      *)

RunsIn(s, states) == {r \in RunIds : session[r] = s /\ state[r] \in states}

Pending(s) == RunsIn(s, {"queued", "running"})

\* run.enqueue; a full queue refuses.  The pump is called next.
Admit(r, s) ==
  /\ mode = "up"
  /\ state[r] = "absent" /\ \A q \in RunIds : q < r => state[q] # "absent"
  /\ Cardinality(Pending(s)) < Limit
  /\ state' = [state EXCEPT ![r] = "queued"]
  /\ session' = [session EXCEPT ![r] = s]
  /\ mode' = "pumping"
  /\ UNCHANGED <<phase, rpc, drained, agent, aborting, live, pump>>

\* Bug: the newest run first.
BugNewestQueued(s) ==
  CHOOSE r \in RunsIn(s, {"queued"}) : \A q \in RunsIn(s, {"queued"}) : q <= r

NextQueued(s) == CHOOSE r \in RunsIn(s, {"queued"}) : \A q \in RunsIn(s, {"queued"}) : r <= q

\* One round of drainSession: markRunning, and execute calls handleSessionInput.
Take(s) ==
  /\ state' = [state EXCEPT ![NextQueued(s)] = "running"]
  /\ phase' = [phase EXCEPT ![NextQueued(s)] = "lookup"]
  /\ pump' = [pump EXCEPT ![s] = "busy"]

\* activeSessions does not hold the session.
MayPump(s) == pump[s] = "off" /\ RunsIn(s, {"queued"}) # {}

PumpStarts(s) ==
  /\ mode = "pumping"
  /\ MayPump(s)
  /\ Take(s)
  /\ UNCHANGED <<session, rpc, drained, agent, aborting, live, mode>>

Pumped ==
  /\ mode = "pumping"
  /\ \A s \in Sessions : ~MayPump(s)
  /\ mode' = "up"
  /\ UNCHANGED <<session, state, phase, rpc, drained, agent, aborting, live, pump>>

\* drainSession goes on; on a closed database it throws.
PumpNext(s) ==
  /\ EventLoop
  /\ pump[s] = "next"
  /\ IF mode # "closed" /\ RunsIn(s, {"queued"}) # {}
     THEN Take(s)
     ELSE /\ pump' = [pump EXCEPT ![s] = "leaving"]
          /\ UNCHANGED <<state, phase>>
  /\ UNCHANGED <<session, rpc, drained, agent, aborting, live, mode>>

\* Bug: work admitted since the last look is not noticed.
BugPumpLeavesBlindly(s) ==
  /\ EventLoop
  /\ pump[s] = "leaving"
  /\ pump' = [pump EXCEPT ![s] = "off"]
  /\ UNCHANGED <<session, state, phase, rpc, drained, agent, aborting, live, mode>>

\* The finally of pump: look once more.
PumpLeaves(s) ==
  /\ EventLoop
  /\ pump[s] = "leaving"
  /\ IF mode # "closed" /\ RunsIn(s, {"queued"}) # {}
     THEN Take(s)
     ELSE /\ pump' = [pump EXCEPT ![s] = "off"]
          /\ UNCHANGED <<state, phase>>
  /\ UNCHANGED <<session, rpc, drained, agent, aborting, live, mode>>

\* Bug: a run of an earlier daemon is left as it is.
BugRecoverKeepsRunning ==
  /\ mode = "down"
  /\ mode' = "pumping"
  /\ UNCHANGED <<session, state, phase, rpc, drained, agent, aborting, live, pump>>

\* startRunQueue: recoverOnStartup, then pump every session with queued runs.
Recover ==
  /\ mode = "down"
  /\ mode' = "pumping"
  /\ state' = [r \in RunIds |-> IF state[r] = "running" THEN "interrupted" ELSE state[r]]
  /\ UNCHANGED <<session, phase, rpc, drained, agent, aborting, live, pump>>

-----------------------------------------------------------------------------
(* Turns.                                                                  *)

\* Bug: the finish reason is taken for a state.
BugRecordedAsIs(finishReason) == finishReason

\* How execute records the finish reason of a turn.
Recorded(finishReason) ==
  CASE finishReason = "aborted" -> "aborted"
    [] finishReason = "error" -> "failed"
    [] OTHER -> "completed"

\* handleSessionInput returns or throws for the turns T.  For a run, execute
\* records the outcome and the loop goes on; on a closed database markTerminal
\* throws.  The snapshot that is read for the reply, with the count already
\* released, belongs to this step.
Reply(T, outcome) ==
  /\ rpc' = rpc \ T
  /\ state' = [r \in RunIds |-> IF r \in T /\ mode # "closed" THEN outcome ELSE state[r]]
  /\ pump' = [s \in Sessions |->
                IF \A r \in T \cap RunIds : session[r] # s THEN pump[s]
                ELSE IF mode = "closed" THEN "leaving" ELSE "next"]

\* Replies only where the handler still waits for the turn.
ReplyIfAwaited(T, outcome) == Reply(T \cap rpc, outcome)

\* A client's prompt arrives.
ClientInput(c, s) ==
  /\ mode = "up"
  /\ phase[c] = "none"
  /\ phase' = [phase EXCEPT ![c] = "lookup"]
  /\ session' = [session EXCEPT ![c] = s]
  /\ UNCHANGED <<state, rpc, drained, agent, aborting, live, pump, mode>>

\* getSession has answered; runTurn decides.  A prompt waits if it says so
\* (delivery) or if the agent cannot start a run, and the reply is then "ok"
\* without a result, which execute records as completed.
Input(t) ==
  LET s == session[t]
  IN  /\ EventLoop
      /\ phase[t] = "lookup"
      /\ \/ /\ live[s] = "gone"
            /\ phase' = [phase EXCEPT ![t] = "over"]
            /\ Reply({t}, "failed")
            /\ UNCHANGED aborting
         \/ /\ live[s] # "gone"
            /\ phase' = [phase EXCEPT ![t] = "waiting"]
            /\ Reply({t}, "completed")
            /\ UNCHANGED aborting
         \/ /\ live[s] # "gone" /\ agent[s] = None
            /\ phase' = [phase EXCEPT ![t] = "preparing"]
            /\ rpc' = rpc \cup {t}
            /\ aborting' = [aborting EXCEPT ![s] = FALSE]
            /\ UNCHANGED <<state, pump>>
      /\ UNCHANGED <<session, drained, agent, live, mode>>

\* Turn t throws.  If an abort is settling, runTurn returns an aborted result;
\* otherwise it fails the session, and waits for that before it throws.
Throws(t) ==
  LET s == session[t]
      fails == ~aborting[s] /\ live[s] # "gone"
  IN  /\ phase' = [phase EXCEPT ![t] = IF fails THEN "failing" ELSE "over"]
      /\ live' = [live EXCEPT ![s] = IF fails THEN "closing" ELSE @]
      /\ drained' = IF fails THEN drained ELSE drained \ {t}
      /\ ReplyIfAwaited(IF fails THEN {} ELSE {t}, IF aborting[s] THEN "aborted" ELSE "failed")
      /\ aborting' = [aborting EXCEPT ![s] = FALSE]
      /\ agent' = [agent EXCEPT ![s] = IF @ = t THEN None ELSE @]
      /\ UNCHANGED <<session, mode>>

\* executeTurn reaches agent.run, which refuses a second run, and any run
\* after the agent's shutdown.
AgentRun(t) ==
  LET s == session[t]
  IN  /\ EventLoop
      /\ phase[t] = "preparing"
      /\ \/ /\ live[s] # "gone" /\ agent[s] = None
            /\ agent' = [agent EXCEPT ![s] = t]
            /\ phase' = [phase EXCEPT ![t] = "turn"]
            /\ UNCHANGED <<session, state, rpc, drained, aborting, live, pump, mode>>
         \/ /\ live[s] # "open" \/ agent[s] # None
            /\ Throws(t)

\* The preparation, the agent's run or its completion throws.
TurnThrows(t) ==
  /\ EventLoop
  /\ phase[t] \in {"preparing", "turn", "ending"}
  /\ Throws(t)

\* The agent's run resolves: the agent is free before runTurn has returned.
AgentEnds(t) ==
  /\ EventLoop
  /\ phase[t] = "turn"
  /\ agent' = [agent EXCEPT ![session[t]] = None]
  /\ phase' = [phase EXCEPT ![t] = "ending"]
  /\ UNCHANGED <<session, state, rpc, drained, aborting, live, pump, mode>>

\* completeInteractiveTurn is done; runTurn returns.
TurnEnds(t, finishReason) ==
  /\ EventLoop
  /\ phase[t] = "ending"
  /\ phase' = [phase EXCEPT ![t] = "over"]
  /\ drained' = drained \ {t}
  /\ aborting' = [aborting EXCEPT ![session[t]] = FALSE]
  /\ ReplyIfAwaited({t}, Recorded(finishReason))
  /\ UNCHANGED <<session, agent, live, mode>>

\* abort of the session host: aborting a turn that the drain of the in-memory
\* queue has sent drops the rest of that queue.
HostAborts(s) ==
  /\ aborting' = [aborting EXCEPT ![s] = live[s] # "gone"]
  /\ phase' = [t \in Turns |->
                 IF /\ phase[t] = "waiting" /\ session[t] = s
                    /\ \E u \in drained : session[u] = s
                 THEN "over" ELSE phase[t]]

\* The handler gives up waiting and aborts; the host still works on the turn.
TimeOut(t) ==
  /\ EventLoop
  /\ t \in rpc
  /\ Reply({t}, "failed")
  /\ HostAborts(session[t])
  /\ UNCHANGED <<session, drained, agent, live, mode>>

\* run.abort
Abort(s) ==
  /\ mode = "up"
  /\ HostAborts(s)
  /\ UNCHANGED <<session, state, rpc, drained, agent, live, pump, mode>>

\* The drain of pendingPrompts sends a waiting prompt.
DrainPrompt(t) ==
  LET s == session[t]
  IN  /\ EventLoop
      /\ phase[t] = "waiting"
      /\ live[s] # "gone" /\ agent[s] = None /\ ~aborting[s]
      /\ \A u \in drained : session[u] # s
      /\ phase' = [phase EXCEPT ![t] = "preparing"]
      /\ drained' = drained \cup {t}
      /\ UNCHANGED <<session, state, rpc, agent, aborting, live, pump, mode>>

\* A waiting prompt is read by the turn that runs (steer), or a client deletes it.
Unqueue(t) ==
  /\ EventLoop
  /\ phase[t] = "waiting"
  /\ mode = "up" \/ agent[session[t]] # None
  /\ phase' = [phase EXCEPT ![t] = "over"]
  /\ UNCHANGED <<session, state, rpc, drained, agent, aborting, live, pump, mode>>

-----------------------------------------------------------------------------
(* Sessions and the daemon.                                                *)

\* session.create, session.restore
Restore(s) ==
  /\ mode = "up"
  /\ live[s] = "gone" /\ agent[s] = None
  /\ live' = [live EXCEPT ![s] = "open"]
  /\ aborting' = [aborting EXCEPT ![s] = FALSE]
  /\ UNCHANGED <<session, state, phase, rpc, drained, agent, pump, mode>>

\* stopSession: a turn that runs is aborted, and shutdownSession begins.
StopSession(s) ==
  /\ mode = "up"
  /\ live[s] = "open"
  /\ live' = [live EXCEPT ![s] = "closing"]
  /\ aborting' = [aborting EXCEPT ![s] = @ \/ agent[s] # None]
  /\ UNCHANGED <<session, state, phase, rpc, drained, agent, pump, mode>>

\* shutdownSession aborts the turn of another prompt ...
ShutdownAborts(s) ==
  /\ EventLoop
  /\ live[s] = "closing" /\ agent[s] # None /\ ~aborting[s]
  /\ aborting' = [aborting EXCEPT ![s] = TRUE]
  /\ UNCHANGED <<session, state, phase, rpc, drained, agent, live, pump, mode>>

\* ... waits for an aborted turn, not for one that began since, and drops the
\* entry: waiting prompts are gone, and failed turns throw.
SessionGone(s) ==
  LET failing == {t \in Turns : session[t] = s /\ phase[t] = "failing"}
  IN  /\ EventLoop
      /\ live[s] = "closing"
      /\ agent[s] = None \/ ~aborting[s]
      /\ live' = [live EXCEPT ![s] = "gone"]
      /\ phase' = [t \in Turns |->
                     IF session[t] = s /\ phase[t] \in {"waiting", "failing"} THEN "over"
                     ELSE phase[t]]
      /\ drained' = drained \ failing
      /\ ReplyIfAwaited(failing, "failed")
      /\ UNCHANGED <<session, agent, aborting, mode>>

\* stop(): the sockets are gone, services are disposed one after the other,
\* the session host with all its sessions among them ...
Stop ==
  /\ mode = "up"
  /\ mode' = "disposing"
  /\ live' = [s \in Sessions |-> IF live[s] = "open" THEN "closing" ELSE live[s]]
  /\ UNCHANGED <<session, state, phase, rpc, drained, agent, aborting, pump>>

\* ... and the database of the queue is closed last.
Close ==
  /\ mode = "disposing"
  /\ \A s \in Sessions : live[s] = "gone"
  /\ mode' = "closed"
  /\ UNCHANGED <<session, state, phase, rpc, drained, agent, aborting, live, pump>>

\* The process ends, in an orderly way or not.
Exit ==
  /\ mode # "down"
  /\ mode' = "down"
  /\ phase' = [t \in Turns |-> IF phase[t] = "none" THEN "none" ELSE "over"]
  /\ rpc' = {} /\ drained' = {}
  /\ agent' = [s \in Sessions |-> None]
  /\ aborting' = [s \in Sessions |-> FALSE]
  /\ live' = [s \in Sessions |-> "gone"]
  /\ pump' = [s \in Sessions |-> "off"]
  /\ UNCHANGED <<session, state>>

-----------------------------------------------------------------------------
Next ==
  \/ \E s \in Sessions :
       \/ \E r \in RunIds : Admit(r, s)
       \/ \E c \in Clients : ClientInput(c, s)
       \/ PumpStarts(s) \/ PumpNext(s) \/ PumpLeaves(s)
       \/ Abort(s) \/ Restore(s) \/ StopSession(s) \/ ShutdownAborts(s) \/ SessionGone(s)
  \/ \E t \in Turns :
       \/ Input(t) \/ AgentRun(t) \/ TurnThrows(t) \/ AgentEnds(t) \/ TimeOut(t)
       \/ DrainPrompt(t) \/ Unqueue(t)
       \/ \E f \in FinishReasons : TurnEnds(t, f)
  \/ Pumped \/ Recover \/ Stop \/ Close \/ Exit

Spec == Init /\ [][Next]_vars

(***************************************************************************)
(* Fairness: the event loop of a daemon goes on as long as something is    *)
(* ready, with turns of the agent that end; the shutdown of a session is   *)
(* not starved by the rest.  A daemon that went down need not come back.   *)
(***************************************************************************)
GoesOn ==
  \/ Pumped
  \/ \E s \in Sessions : PumpStarts(s) \/ PumpNext(s) \/ PumpLeaves(s)
  \/ \E t \in Turns :
       Input(t) \/ AgentRun(t) \/ AgentEnds(t) \/ \E f \in FinishReasons : TurnEnds(t, f)

FairSpec == Spec /\ WF_vars(GoesOn) /\ \A s \in Sessions : WF_vars(SessionGone(s))

-----------------------------------------------------------------------------
(* Properties.                                                             *)

\* The rows that claim to run are the runs the executor waits for: one per
\* session that is being pumped, each with its handler in flight, and none
\* left over from an earlier daemon (markRunning, markTerminal, recovery).
RunningIsWorkedOn ==
  mode \notin {"down", "closed"} =>
    \A s \in Sessions :
      /\ Cardinality(RunsIn(s, {"running"})) = IF pump[s] = "busy" THEN 1 ELSE 0
      /\ \A r \in RunsIn(s, {"running"}) : phase[r] = "lookup" \/ r \in rpc

\* The rows are well formed and speak the truth about what the executor does.
RunsInv == TypeOK /\ RunningIsWorkedOn

\* The queue is a FIFO per session: one run at a time, in the order of
\* admission, each at most once, through crashes, restarts and shutdown.
CurrentRun(s) ==
  IF RunsIn(s, {"running"}) = {} THEN None ELSE CHOOSE r \in RunsIn(s, {"running"}) : TRUE

\* A set of runs as a queue, oldest first.
Oldest(Q) == [k \in 1 .. Cardinality(Q) |-> CHOOSE r \in Q : Cardinality({q \in Q : q <= r}) = k]

Fifo == INSTANCE RunFifo WITH
  NoRun <- None,
  waiting <- [s \in Sessions |-> Oldest(RunsIn(s, {"queued"}))],
  current <- [s \in Sessions |-> CurrentRun(s)],
  accepted <- {r \in RunIds : state[r] # "absent"}
ImplementsFifo == Fifo!Spec

\* A hub that is not stopped empties its queue when admissions cease (they do:
\* MaxRuns); a run that was admitted while the pump was about to leave is not
\* left behind.
QueuedRunsServed ==
  (\E r \in RunIds : state[r] = "queued") ~>
    (\A r \in RunIds : state[r] # "queued") \/ mode \notin {"up", "pumping"}

=============================================================================
