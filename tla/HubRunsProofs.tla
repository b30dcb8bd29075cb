---------------------------- MODULE HubRunsProofs ----------------------------
(***************************************************************************)
(* Proofs about HubRuns, for every number of sessions, clients and runs:   *)
(* the rows of hub_runs speak the truth about what the executor does, and  *)
(* each session's runs are taken as from the queue of RunFifo.             *)
(***************************************************************************)
EXTENDS HubRuns, FiniteSetTheorems, WellFoundedInduction, TLAPS

\* The executor's request for the run is in flight: it looks its session up, or the turn it
\* became is counted.
Awaited(r) == phase[r] = "lookup" \/ r \in rpc

\* A run that was ever accepted has a session.
HaveSessions == \A r \in RunIds : state[r] # "absent" => session[r] \in Sessions

\* What is awaited is recorded as running.
AwaitedRun ==
  \A r \in RunIds : /\ Awaited(r) => state[r] = "running"
                    /\ r \in rpc => phase[r] # "lookup"

\* What is recorded as running, while the daemon lives, is awaited by its session's loop, alone.
RunningAwaited ==
  mode \notin {"down", "closed"} =>
    \A s \in Sessions :
      /\ \A r \in RunsIn(s, {"running"}) : Awaited(r) /\ pump[s] = "busy"
      /\ \A q, r \in RunsIn(s, {"running"}) : q = r
      /\ pump[s] = "busy" => RunsIn(s, {"running"}) # {}

\* A daemon that is down does nothing.
DownRests ==
  mode = "down" =>
    /\ rpc = {} /\ \A t \in Turns : phase[t] # "lookup"
    /\ \A s \in Sessions : pump[s] = "off"

Truthful == HaveSessions /\ AwaitedRun /\ RunningAwaited /\ DownRests
HubInv == TypeOK /\ Truthful

\* Runs are turns, and no client's prompt is a run.
LEMMA RunsAreTurns == RunIds \subseteq Turns /\ RunIds \cap Clients = {} /\ RunIds \subseteq Nat
BY ConstantsAssumption DEF RunIds, Turns

\* A queue with runs has an oldest one: of the sets of runs before each, one is smallest.
LEMMA OldestIsFirst ==
  ASSUME NEW s, RunsIn(s, {"queued"}) # {}
  PROVE  /\ NextQueued(s) \in RunsIn(s, {"queued"})
         /\ \A q \in RunsIn(s, {"queued"}) : NextQueued(s) <= q
<1> DEFINE Q == RunsIn(s, {"queued"})
           Before(r) == {q \in Q : q < r}
           Befores == {Before(r) : r \in Q}
           R == StrictSubsetOrdering(RunIds)
<1>1. Q \subseteq RunIds /\ RunIds \subseteq Nat /\ Q # {}
  BY RunsAreTurns DEF RunsIn
<1>2. IsWellFoundedOn(R, SUBSET RunIds)
  <2>1. IsFiniteSet(RunIds)
    BY FS_Interval, ConstantsAssumption DEF RunIds
  <2> QED BY <2>1, FS_StrictSubsetOrderingWellFounded, FS_FiniteSubsetsOfFinite
<1> HIDE DEF Q
<1>3. Befores \subseteq SUBSET RunIds /\ Befores # {}
  <2>1. \A r \in Q : Before(r) \in Befores /\ Before(r) \subseteq RunIds
    BY <1>1
  <2>2. PICK r \in Q : TRUE
    BY <1>1
  <2> HIDE DEF Before
  <2> QED BY <2>1, <2>2
<1>4. PICK A \in Befores : \A B \in Befores : ~(<<B, A>> \in R)
  <2> HIDE DEF Befores, R
  <2> QED BY <1>2, <1>3, WFMin
<1>5. PICK r \in Q : A = Before(r)
  BY <1>4
<1>6. ASSUME NEW q \in Q, q < r PROVE FALSE
  <2>1. Before(q) \subseteq Before(r) /\ q \in Before(r) /\ q \notin Before(q)
    <3>1. Q \subseteq Nat
      BY <1>1
    <3>2. \A x \in Q : x < q => x < r
      BY <1>6, <3>1
    <3>3. ~(q < q)
      BY <3>1
    <3>4. q \in Before(r)
      BY <1>6
    <3> QED BY <3>2, <3>3, <3>4
  <2>2. Before(q) \subseteq RunIds /\ Before(r) \subseteq RunIds
    BY <1>1
  <2>3. <<Before(q), Before(r)>> \in R
    BY <2>1, <2>2 DEF StrictSubsetOrdering
  <2>4. Before(q) \in Befores
    OBVIOUS
  <2> QED BY <1>4, <1>5, <2>3, <2>4
<1>7. \A q \in Q : r <= q
  BY <1>1, <1>6
<1> QED BY <1>7 DEF NextQueued, Q

LEMMA OldestIsQueued ==
  ASSUME NEW s, RunsIn(s, {"queued"}) # {}
  PROVE  NextQueued(s) \in RunsIn(s, {"queued"})
BY OldestIsFirst

-----------------------------------------------------------------------------
(* Types.                                                                  *)

\* What Take writes has its types.
LEMMA TakeTypes ==
  ASSUME TypeOK, NEW s \in Sessions, RunsIn(s, {"queued"}) # {}, Take(s)
  PROVE  /\ state' \in [RunIds -> {"absent", "queued", "running"} \cup Terminal]
         /\ phase' \in [Turns -> {"none", "lookup", "preparing", "turn", "ending", "failing",
                                  "waiting", "over"}]
         /\ pump' \in [Sessions -> {"off", "busy", "next", "leaving"}]
<1>1. NextQueued(s) \in RunIds /\ NextQueued(s) \in Turns
  BY OldestIsQueued, RunsAreTurns DEF RunsIn
<1> QED BY <1>1 DEF Take, TypeOK

\* What Reply writes has its types.
LEMMA ReplyTypes ==
  ASSUME TypeOK, NEW T, NEW outcome \in Terminal, Reply(T, outcome)
  PROVE  /\ rpc' \subseteq Turns
         /\ state' \in [RunIds -> {"absent", "queued", "running"} \cup Terminal]
         /\ pump' \in [Sessions -> {"off", "busy", "next", "leaving"}]
<1>1. rpc' \subseteq Turns
  BY DEF Reply, TypeOK
<1>2. state' \in [RunIds -> {"absent", "queued", "running"} \cup Terminal]
  BY DEF Reply, TypeOK
<1>3. pump' \in [Sessions -> {"off", "busy", "next", "leaving"}]
  BY DEF Reply, TypeOK
<1> QED BY <1>1, <1>2, <1>3

\* One step per action.
LEMMA SessionTypes ==
  ASSUME TypeOK, NEW s \in Sessions,
         \/ \E r \in RunIds : Admit(r, s)
         \/ \E c \in Clients : ClientInput(c, s)
         \/ PumpStarts(s) \/ PumpNext(s) \/ PumpLeaves(s)
         \/ Abort(s) \/ Restore(s) \/ StopSession(s) \/ ShutdownAborts(s) \/ SessionGone(s)
  PROVE  TypeOK'
<1>1. CASE \E r \in RunIds : Admit(r, s)
  BY <1>1, RunsAreTurns DEF Admit, TypeOK
<1>2. CASE \E c \in Clients : ClientInput(c, s)
  BY <1>2 DEF ClientInput, TypeOK, Turns
<1>3. CASE PumpStarts(s)
  BY <1>3, TakeTypes DEF PumpStarts, MayPump, TypeOK
<1>4. CASE PumpNext(s)
  <2>1. CASE mode # "closed" /\ RunsIn(s, {"queued"}) # {}
    BY <1>4, <2>1, TakeTypes DEF PumpNext, TypeOK
  <2>2. CASE ~(mode # "closed" /\ RunsIn(s, {"queued"}) # {})
    BY <1>4, <2>2 DEF PumpNext, TypeOK
  <2> QED BY <2>1, <2>2
<1>5. CASE PumpLeaves(s)
  <2>1. CASE mode # "closed" /\ RunsIn(s, {"queued"}) # {}
    BY <1>5, <2>1, TakeTypes DEF PumpLeaves, TypeOK
  <2>2. CASE ~(mode # "closed" /\ RunsIn(s, {"queued"}) # {})
    BY <1>5, <2>2 DEF PumpLeaves, TypeOK
  <2> QED BY <2>1, <2>2
<1>6. CASE Abort(s)
  BY <1>6 DEF Abort, HostAborts, TypeOK
<1>7. CASE Restore(s)
  BY <1>7 DEF Restore, TypeOK
<1>8. CASE StopSession(s)
  BY <1>8 DEF StopSession, TypeOK
<1>9. CASE ShutdownAborts(s)
  BY <1>9 DEF ShutdownAborts, TypeOK
<1>10. CASE SessionGone(s)
  BY <1>10, ReplyTypes DEF SessionGone, ReplyIfAwaited, TypeOK, Terminal
<1> QED BY <1>1, <1>2, <1>3, <1>4, <1>5, <1>6, <1>7, <1>8, <1>9, <1>10

\* One step per action.
LEMMA TurnTypes ==
  ASSUME TypeOK, NEW t \in Turns,
         \/ Input(t) \/ AgentRun(t) \/ TurnThrows(t) \/ AgentEnds(t) \/ TimeOut(t)
         \/ DrainPrompt(t) \/ Unqueue(t)
         \/ \E f \in FinishReasons : TurnEnds(t, f)
  PROVE  TypeOK'
<1>1. ASSUME Throws(t) PROVE TypeOK'
  BY <1>1, ReplyTypes DEF Throws, ReplyIfAwaited, TypeOK, Terminal
<1>2. CASE Input(t)
  <2>1. CASE UNCHANGED <<state, pump>>
    BY <1>2, <2>1 DEF Input, Reply, TypeOK
  <2>2. CASE \E o \in {"failed", "completed"} : Reply({t}, o)
    BY <1>2, <2>2, ReplyTypes DEF Input, TypeOK, Terminal
  <2> QED BY <1>2, <2>1, <2>2 DEF Input
<1>3. CASE AgentRun(t)
  <2>1. CASE Throws(t)
    BY <1>1, <2>1
  <2>2. CASE ~Throws(t)
    BY <1>3, <2>2 DEF AgentRun, TypeOK
  <2> QED BY <2>1, <2>2
<1>4. CASE TurnThrows(t)
  BY <1>1, <1>4 DEF TurnThrows
<1>5. CASE AgentEnds(t)
  BY <1>5 DEF AgentEnds, TypeOK
<1>6. CASE TimeOut(t)
  BY <1>6, ReplyTypes DEF TimeOut, HostAborts, TypeOK, Terminal
<1>7. CASE DrainPrompt(t)
  BY <1>7 DEF DrainPrompt, TypeOK
<1>8. CASE Unqueue(t)
  BY <1>8 DEF Unqueue, TypeOK
<1>9. CASE \E f \in FinishReasons : TurnEnds(t, f)
  <2>1. PICK f \in FinishReasons : TurnEnds(t, f)
    BY <1>9
  <2>2. Recorded(f) \in Terminal
    BY DEF Recorded, FinishReasons, Terminal
  <2> QED BY <2>1, <2>2, ReplyTypes DEF TurnEnds, ReplyIfAwaited, TypeOK
<1> QED BY <1>2, <1>3, <1>4, <1>5, <1>6, <1>7, <1>8, <1>9

\* The daemon's own steps.
LEMMA DaemonTypes ==
  ASSUME TypeOK, Pumped \/ Recover \/ Stop \/ Close \/ Exit
  PROVE  TypeOK'
<1>1. CASE Pumped
  BY <1>1 DEF Pumped, TypeOK
<1>2. CASE Recover
  BY <1>2 DEF Recover, TypeOK, Terminal
<1>3. CASE Stop
  BY <1>3 DEF Stop, TypeOK
<1>4. CASE Close
  BY <1>4 DEF Close, TypeOK
<1>5. CASE Exit
  BY <1>5 DEF Exit, TypeOK
<1> QED BY <1>1, <1>2, <1>3, <1>4, <1>5

-----------------------------------------------------------------------------
(* Three kinds of steps.                                                   *)

\* No row and no loop is written, and what is awaited stays awaited.
Quiet ==
  /\ UNCHANGED <<session, state, pump>>
  /\ \A r \in RunIds : /\ phase'[r] = "lookup" \/ r \in rpc' <=> Awaited(r)
                       /\ r \in rpc' => phase'[r] # "lookup"
  /\ mode' # "down" /\ (mode' # "closed" => mode \notin {"down", "closed"})

\* Such a step keeps the invariant.
LEMMA QuietKeeps ==
  ASSUME HubInv, Quiet
  PROVE  Truthful'
<1>1. \A s : \A S : RunsIn(s, S)' = RunsIn(s, S)
  BY DEF Quiet, RunsIn
<1>2. \A r \in RunIds : Awaited(r)' <=> Awaited(r)
  BY DEF Quiet, Awaited
<1>3. HaveSessions' /\ AwaitedRun' /\ DownRests'
  BY <1>2 DEF HubInv, Truthful, Quiet, HaveSessions, AwaitedRun, DownRests
<1>4. RunningAwaited'
  <2>1. CASE mode' \in {"down", "closed"}
    BY <2>1 DEF RunningAwaited
  <2>2. CASE mode' \notin {"down", "closed"}
    <3> SUFFICES ASSUME NEW s \in Sessions
                 PROVE  /\ \A r \in RunsIn(s, {"running"})' : Awaited(r)' /\ pump'[s] = "busy"
                        /\ \A q, r \in RunsIn(s, {"running"})' : q = r
                        /\ pump'[s] = "busy" => RunsIn(s, {"running"})' # {}
      BY DEF RunningAwaited
    <3>1. /\ \A r \in RunsIn(s, {"running"}) : Awaited(r) /\ pump[s] = "busy"
          /\ \A q, r \in RunsIn(s, {"running"}) : q = r
          /\ pump[s] = "busy" => RunsIn(s, {"running"}) # {}
      BY <2>2 DEF HubInv, Truthful, Quiet, RunningAwaited
    <3>2. \A r \in RunsIn(s, {"running"}) : r \in RunIds
      BY DEF RunsIn
    <3> QED BY <1>1, <1>2, <3>1, <3>2 DEF Quiet
  <2> QED BY <2>1, <2>2
<1> QED BY <1>3, <1>4 DEF Truthful

\* The oldest run of a session is taken.
LEMMA TakeKeeps ==
  ASSUME HubInv, NEW s \in Sessions, RunsIn(s, {"queued"}) # {}, Take(s), pump[s] # "busy",
         mode \notin {"down", "closed"}, UNCHANGED <<session, rpc, mode>>
  PROVE  Truthful'
<1> DEFINE n == NextQueued(s)
<1>1. n \in RunIds /\ n \in Turns /\ session[n] = s /\ state[n] = "queued"
  BY OldestIsQueued, RunsAreTurns DEF RunsIn
<1> HIDE DEF n
<1>2. /\ state' = [state EXCEPT ![n] = "running"] /\ phase' = [phase EXCEPT ![n] = "lookup"]
      /\ pump' = [pump EXCEPT ![s] = "busy"]
  BY DEF Take, n
<1>3. /\ state'[n] = "running" /\ phase'[n] = "lookup" /\ pump'[s] = "busy"
      /\ \A r \in RunIds \ {n} : state'[r] = state[r] /\ phase'[r] = phase[r]
      /\ \A b \in Sessions \ {s} : pump'[b] = pump[b]
  BY <1>1, <1>2, RunsAreTurns DEF HubInv, TypeOK
<1>4. n \notin rpc
  BY <1>1 DEF HubInv, Truthful, AwaitedRun, Awaited
<1>5. HaveSessions' /\ AwaitedRun'
  BY <1>1, <1>3, <1>4 DEF HubInv, Truthful, HaveSessions, AwaitedRun, Awaited
<1>6. DownRests'
  BY DEF DownRests
<1>7. RunningAwaited'
  <2> SUFFICES ASSUME NEW b \in Sessions
               PROVE  /\ \A r \in RunsIn(b, {"running"})' : Awaited(r)' /\ pump'[b] = "busy"
                      /\ \A q, r \in RunsIn(b, {"running"})' : q = r
                      /\ pump'[b] = "busy" => RunsIn(b, {"running"})' # {}
    BY DEF RunningAwaited
  <2>1. /\ \A r \in RunsIn(b, {"running"}) : Awaited(r) /\ pump[b] = "busy"
        /\ \A q, r \in RunsIn(b, {"running"}) : q = r
        /\ pump[b] = "busy" => RunsIn(b, {"running"}) # {}
    BY DEF HubInv, Truthful, RunningAwaited
  <2>2. CASE b = s
    <3>1. RunsIn(s, {"running"})' = {n}
      BY <1>1, <1>3, <2>1, <2>2 DEF RunsIn
    <3> QED BY <1>3, <2>2, <3>1 DEF Awaited
  <2>3. CASE b # s
    <3>1. RunsIn(b, {"running"})' = RunsIn(b, {"running"})
      BY <1>1, <1>3, <2>3 DEF RunsIn
    <3>2. \A r \in RunsIn(b, {"running"}) : r \in RunIds \ {n}
      BY <1>1 DEF RunsIn
    <3> QED BY <1>3, <2>1, <2>3, <3>1, <3>2 DEF Awaited
  <2> QED BY <2>2, <2>3
<1> QED BY <1>5, <1>6, <1>7 DEF Truthful

\* Requests in flight are answered.
LEMMA ReplyKeeps ==
  ASSUME HubInv, NEW T, NEW outcome \in Terminal, Reply(T, outcome), EventLoop,
         \A r \in RunIds \cap T : Awaited(r) /\ phase'[r] # "lookup",
         \A r \in RunIds \ T : phase'[r] = "lookup" <=> phase[r] = "lookup",
         UNCHANGED <<session, mode>>
  PROVE  Truthful'
<1>1. /\ rpc' = rpc \ T
      /\ \A r \in RunIds : state'[r] = IF r \in T /\ mode # "closed" THEN outcome ELSE state[r]
      /\ \A s \in Sessions : pump'[s] = IF \A r \in T \cap RunIds : session[r] # s THEN pump[s]
                                        ELSE IF mode = "closed" THEN "leaving" ELSE "next"
  BY DEF Reply
<1>2. outcome # "absent" /\ outcome # "running"
  BY DEF Terminal
<1>3. \A r \in RunIds : Awaited(r)' <=> Awaited(r) /\ r \notin T
  BY <1>1 DEF Awaited
<1>4. HaveSessions'
  <2>1. ASSUME NEW r \in RunIds, r \in T PROVE session[r] \in Sessions
    BY <2>1 DEF HubInv, Truthful, AwaitedRun, HaveSessions
  <2> QED BY <1>1, <2>1 DEF HubInv, Truthful, HaveSessions
<1>5. AwaitedRun'
  BY <1>1, <1>3 DEF HubInv, Truthful, AwaitedRun
<1>6. DownRests'
  BY DEF EventLoop, DownRests
<1>7. RunningAwaited'
  <2>1. CASE mode = "closed"
    BY <2>1 DEF RunningAwaited
  <2>2. CASE mode # "closed"
    <3> SUFFICES ASSUME NEW s \in Sessions
                 PROVE  /\ \A r \in RunsIn(s, {"running"})' : Awaited(r)' /\ pump'[s] = "busy"
                        /\ \A q, r \in RunsIn(s, {"running"})' : q = r
                        /\ pump'[s] = "busy" => RunsIn(s, {"running"})' # {}
      BY DEF RunningAwaited
    <3>1. /\ \A r \in RunsIn(s, {"running"}) : Awaited(r) /\ pump[s] = "busy"
          /\ \A q, r \in RunsIn(s, {"running"}) : q = r
          /\ pump[s] = "busy" => RunsIn(s, {"running"}) # {}
      BY <2>2 DEF HubInv, Truthful, RunningAwaited, EventLoop
    <3>2. RunsIn(s, {"running"})' = RunsIn(s, {"running"}) \ T
      BY <1>1, <1>2, <2>2 DEF RunsIn
    <3>3. \A r \in RunsIn(s, {"running"}) : r \in RunIds /\ session[r] = s
      BY DEF RunsIn
    <3>4. CASE \A r \in T \cap RunIds : session[r] # s
      <4>1. RunsIn(s, {"running"})' = RunsIn(s, {"running"})
        BY <3>2, <3>3, <3>4
      <4>2. pump'[s] = pump[s]
        BY <1>1, <3>4
      <4> QED BY <1>3, <3>1, <3>3, <3>4, <4>1, <4>2
    <3>5. CASE \E r \in T \cap RunIds : session[r] = s
      <4>1. PICK r \in T \cap RunIds : session[r] = s
        BY <3>5
      <4>2. r \in RunsIn(s, {"running"})
        BY <4>1 DEF HubInv, Truthful, AwaitedRun, RunsIn
      <4>3. RunsIn(s, {"running"})' = {}
        BY <3>1, <3>2, <4>1, <4>2
      <4>4. pump'[s] = "next"
        BY <1>1, <2>2, <4>1
      <4> QED BY <4>3, <4>4
    <3> QED BY <3>4, <3>5
  <2> QED BY <2>1, <2>2
<1> QED BY <1>4, <1>5, <1>6, <1>7 DEF Truthful

-----------------------------------------------------------------------------
(* The actions.                                                            *)

\* Admission of a run.
LEMMA AdmitKeeps ==
  ASSUME HubInv, NEW n \in RunIds, NEW s \in Sessions, Admit(n, s)
  PROVE  Truthful'
<1>1. /\ mode = "up" /\ mode' = "pumping" /\ state[n] = "absent"
      /\ UNCHANGED <<phase, rpc, pump>>
      /\ state'[n] = "queued" /\ session'[n] = s
      /\ \A r \in RunIds \ {n} : state'[r] = state[r] /\ session'[r] = session[r]
  BY RunsAreTurns DEF Admit, HubInv, TypeOK
<1>2. ~Awaited(n)
  BY <1>1 DEF HubInv, Truthful, AwaitedRun
<1>3. HaveSessions' /\ AwaitedRun' /\ DownRests'
  BY <1>1, <1>2 DEF HubInv, Truthful, HaveSessions, AwaitedRun, Awaited, DownRests
<1>4. \A b : RunsIn(b, {"running"})' = RunsIn(b, {"running"})
  BY <1>1 DEF RunsIn
<1>5. RunningAwaited'
  BY <1>1, <1>4 DEF HubInv, Truthful, RunningAwaited, Awaited
<1> QED BY <1>3, <1>5 DEF Truthful

\* The loop's steps that take no run.
LEMMA PumpRestsKeeps ==
  ASSUME HubInv, NEW s \in Sessions, pump[s] \in {"next", "leaving"}, EventLoop,
         NEW p \in {"leaving", "off"}, pump' = [pump EXCEPT ![s] = p],
         UNCHANGED <<session, state, phase, rpc, mode>>
  PROVE  Truthful'
<1>1. \A b \in Sessions : pump'[b] = "busy" <=> pump[b] = "busy"
  BY DEF HubInv, TypeOK
<1>2. HaveSessions' /\ AwaitedRun' /\ DownRests'
  BY DEF HubInv, Truthful, HaveSessions, AwaitedRun, Awaited, DownRests, EventLoop
<1>3. RunningAwaited'
  BY <1>1 DEF HubInv, Truthful, RunningAwaited, Awaited, RunsIn
<1> QED BY <1>2, <1>3 DEF Truthful

\* One step per action.
LEMMA SessionKeeps ==
  ASSUME HubInv, NEW s \in Sessions,
         \/ \E r \in RunIds : Admit(r, s)
         \/ \E c \in Clients : ClientInput(c, s)
         \/ PumpStarts(s) \/ PumpNext(s) \/ PumpLeaves(s)
         \/ Abort(s) \/ Restore(s) \/ StopSession(s) \/ ShutdownAborts(s) \/ SessionGone(s)
  PROVE  Truthful'
<1>1. CASE \E r \in RunIds : Admit(r, s)
  BY <1>1, AdmitKeeps
<1>2. CASE \E c \in Clients : ClientInput(c, s)
  <2>1. PICK c \in Clients : ClientInput(c, s)
    BY <1>2
  <2>2. /\ \A r \in RunIds : phase'[r] = phase[r] /\ session'[r] = session[r]
        /\ UNCHANGED <<state, rpc, pump, mode>>
        /\ mode = "up"
    BY <2>1, RunsAreTurns DEF ClientInput, HubInv, TypeOK
  <2>3. \A b : RunsIn(b, {"running"})' = RunsIn(b, {"running"})
    BY <2>2 DEF RunsIn
  <2>4. HaveSessions' /\ AwaitedRun' /\ DownRests'
    BY <2>2 DEF HubInv, Truthful, HaveSessions, AwaitedRun, Awaited, DownRests
  <2>5. \A b \in Sessions : \A r \in RunsIn(b, {"running"}) : Awaited(r) => Awaited(r)'
    BY <2>2 DEF RunsIn, Awaited
  <2>6. RunningAwaited'
    BY <2>2, <2>3, <2>5 DEF HubInv, Truthful, RunningAwaited
  <2> QED BY <2>4, <2>6 DEF Truthful
<1>3. CASE PumpStarts(s)
  BY <1>3, TakeKeeps DEF PumpStarts, MayPump
<1>4. CASE PumpNext(s)
  <2>1. CASE mode # "closed" /\ RunsIn(s, {"queued"}) # {}
    BY <1>4, <2>1, TakeKeeps DEF PumpNext, EventLoop
  <2>2. CASE ~(mode # "closed" /\ RunsIn(s, {"queued"}) # {})
    BY <1>4, <2>2, PumpRestsKeeps DEF PumpNext
  <2> QED BY <2>1, <2>2
<1>5. CASE PumpLeaves(s)
  <2>1. CASE mode # "closed" /\ RunsIn(s, {"queued"}) # {}
    BY <1>5, <2>1, TakeKeeps DEF PumpLeaves, EventLoop
  <2>2. CASE ~(mode # "closed" /\ RunsIn(s, {"queued"}) # {})
    BY <1>5, <2>2, PumpRestsKeeps DEF PumpLeaves
  <2> QED BY <2>1, <2>2
<1>6. CASE Abort(s)
  <2>1. Quiet
    BY <1>6, RunsAreTurns DEF Abort, HostAborts, Quiet, Awaited, HubInv, Truthful, AwaitedRun
  <2> QED BY <2>1, QuietKeeps
<1>7. CASE Restore(s) \/ StopSession(s)
  <2>1. Quiet
    BY <1>7 DEF Restore, StopSession, Quiet, Awaited, HubInv, Truthful, AwaitedRun
  <2> QED BY <2>1, QuietKeeps
<1>8. CASE ShutdownAborts(s)
  <2>1. Quiet
    BY <1>8 DEF ShutdownAborts, EventLoop, Quiet, Awaited, HubInv, Truthful, AwaitedRun
  <2> QED BY <2>1, QuietKeeps
<1>9. CASE SessionGone(s)
  <2> DEFINE failing == {t \in Turns : session[t] = s /\ phase[t] = "failing"}
  <2>1. /\ Reply(failing \cap rpc, "failed") /\ EventLoop /\ UNCHANGED <<session, mode>>
        /\ phase' = [t \in Turns |->
                       IF session[t] = s /\ phase[t] \in {"waiting", "failing"} THEN "over"
                       ELSE phase[t]]
    BY <1>9 DEF SessionGone, ReplyIfAwaited
  <2>2. \A r \in RunIds : phase'[r] = "lookup" <=> phase[r] = "lookup"
    BY <2>1, RunsAreTurns
  <2>3. \A r \in RunIds \cap (failing \cap rpc) : Awaited(r) /\ phase'[r] # "lookup"
    BY <2>2 DEF Awaited
  <2> HIDE DEF failing
  <2> QED BY <2>1, <2>2, <2>3, ReplyKeeps DEF Terminal
<1> QED BY <1>1, <1>2, <1>3, <1>4, <1>5, <1>6, <1>7, <1>8, <1>9

\* A turn that throws.
LEMMA ThrowsKeeps ==
  ASSUME HubInv, NEW t \in Turns, phase[t] \in {"preparing", "turn", "ending"}, EventLoop, Throws(t)
  PROVE  Truthful'
<1>1. PICK T \in {{}, {t}}, outcome \in {"aborted", "failed"} : Reply(T \cap rpc, outcome)
  BY DEF Throws, ReplyIfAwaited
<1>2. UNCHANGED <<session, mode>> /\ \A r \in Turns : phase'[r] = "lookup" <=> phase[r] = "lookup"
  BY DEF Throws, HubInv, TypeOK
<1>3. \A r \in RunIds \cap (T \cap rpc) : Awaited(r) /\ phase'[r] # "lookup"
  BY <1>1, <1>2, RunsAreTurns DEF Awaited
<1>4. \A r \in RunIds : phase'[r] = "lookup" <=> phase[r] = "lookup"
  BY <1>2, RunsAreTurns
<1> QED BY <1>1, <1>2, <1>3, <1>4, ReplyKeeps DEF Terminal

\* One step per action.
LEMMA TurnKeeps ==
  ASSUME HubInv, NEW t \in Turns,
         \/ Input(t) \/ AgentRun(t) \/ TurnThrows(t) \/ AgentEnds(t) \/ TimeOut(t)
         \/ DrainPrompt(t) \/ Unqueue(t)
         \/ \E f \in FinishReasons : TurnEnds(t, f)
  PROVE  Truthful'
<1>1. CASE Input(t)
  <2>1. /\ EventLoop /\ phase[t] = "lookup" /\ UNCHANGED <<session, mode>>
        /\ phase'[t] # "lookup" /\ \A r \in Turns \ {t} : phase'[r] = phase[r]
    BY <1>1 DEF Input, HubInv, TypeOK
  <2>2. CASE \E o \in {"failed", "completed"} : Reply({t}, o)
    <3>1. \A r \in RunIds \cap {t} : Awaited(r) /\ phase'[r] # "lookup"
      BY <2>1 DEF Awaited
    <3>2. \A r \in RunIds \ {t} : phase'[r] = "lookup" <=> phase[r] = "lookup"
      BY <2>1, RunsAreTurns
    <3> QED BY <2>1, <2>2, <3>1, <3>2, ReplyKeeps DEF Terminal
  <2>3. CASE rpc' = rpc \cup {t} /\ UNCHANGED <<state, pump>>
    <3>1. Quiet
      BY <2>1, <2>3, RunsAreTurns DEF EventLoop, Quiet, Awaited, HubInv, Truthful, AwaitedRun
    <3> QED BY <3>1, QuietKeeps
  <2> QED BY <1>1, <2>2, <2>3 DEF Input
<1>2. CASE AgentRun(t)
  <2>1. CASE Throws(t)
    BY <1>2, <2>1, ThrowsKeeps DEF AgentRun
  <2>2. CASE ~Throws(t)
    <3>1. Quiet
      BY <1>2, <2>2, RunsAreTurns
         DEF AgentRun, EventLoop, Quiet, Awaited, HubInv, TypeOK, Truthful, AwaitedRun
    <3> QED BY <3>1, QuietKeeps
  <2> QED BY <2>1, <2>2
<1>3. CASE TurnThrows(t)
  BY <1>3, ThrowsKeeps DEF TurnThrows
<1>4. CASE AgentEnds(t) \/ DrainPrompt(t) \/ Unqueue(t)
  <2>1. Quiet
    BY <1>4, RunsAreTurns
       DEF AgentEnds, DrainPrompt, Unqueue, EventLoop, Quiet, Awaited, HubInv, TypeOK,
           Truthful, AwaitedRun
  <2> QED BY <2>1, QuietKeeps
<1>5. CASE TimeOut(t)
  <2>1. /\ EventLoop /\ t \in rpc /\ Reply({t}, "failed") /\ UNCHANGED <<session, mode>>
        /\ \A r \in Turns : phase'[r] = "lookup" <=> phase[r] = "lookup"
    BY <1>5 DEF TimeOut, HostAborts
  <2>2. \A r \in RunIds \cap {t} : Awaited(r) /\ phase'[r] # "lookup"
    BY <2>1, RunsAreTurns DEF Awaited, HubInv, Truthful, AwaitedRun
  <2>3. \A r \in RunIds : phase'[r] = "lookup" <=> phase[r] = "lookup"
    BY <2>1, RunsAreTurns
  <2> QED BY <2>1, <2>2, <2>3, ReplyKeeps DEF Terminal
<1>6. CASE \E f \in FinishReasons : TurnEnds(t, f)
  <2>1. PICK f \in FinishReasons : TurnEnds(t, f)
    BY <1>6
  <2>2. Recorded(f) \in Terminal
    BY DEF Recorded, FinishReasons, Terminal
  <2>3. /\ EventLoop /\ Reply({t} \cap rpc, Recorded(f)) /\ UNCHANGED <<session, mode>>
        /\ \A r \in Turns : phase'[r] = "lookup" <=> phase[r] = "lookup"
    BY <2>1 DEF TurnEnds, ReplyIfAwaited, HubInv, TypeOK
  <2>4. \A r \in RunIds \cap ({t} \cap rpc) : Awaited(r) /\ phase'[r] # "lookup"
    BY <2>3, RunsAreTurns DEF Awaited, HubInv, Truthful, AwaitedRun
  <2>5. \A r \in RunIds : phase'[r] = "lookup" <=> phase[r] = "lookup"
    BY <2>3, RunsAreTurns
  <2> QED BY <2>2, <2>3, <2>4, <2>5, ReplyKeeps
<1> QED BY <1>1, <1>2, <1>3, <1>4, <1>5, <1>6

\* The daemon's own steps.
LEMMA DaemonKeeps ==
  ASSUME HubInv, Pumped \/ Recover \/ Stop \/ Close \/ Exit
  PROVE  Truthful'
<1>1. CASE Pumped \/ Stop \/ Close
  <2>1. Quiet
    BY <1>1 DEF Pumped, Stop, Close, Quiet, Awaited, HubInv, Truthful, AwaitedRun
  <2> QED BY <2>1, QuietKeeps
<1>2. CASE Recover
  <2>1. /\ mode = "down" /\ mode' = "pumping" /\ UNCHANGED <<session, phase, rpc, pump>>
        /\ \A r \in RunIds : state'[r] = IF state[r] = "running" THEN "interrupted" ELSE state[r]
    BY <1>2 DEF Recover
  <2>2. \A r \in RunIds : ~Awaited(r)
    BY <2>1, RunsAreTurns DEF Awaited, HubInv, Truthful, DownRests
  <2>3. \A s \in Sessions : RunsIn(s, {"running"})' = {} /\ pump'[s] # "busy"
    BY <2>1 DEF RunsIn, HubInv, Truthful, DownRests
  <2>4. HaveSessions' /\ AwaitedRun' /\ DownRests'
    BY <2>1, <2>2 DEF HubInv, Truthful, HaveSessions, AwaitedRun, Awaited, DownRests
  <2>5. RunningAwaited'
    BY <2>3 DEF RunningAwaited
  <2> QED BY <2>4, <2>5 DEF Truthful
<1>3. CASE Exit
  <2>1. /\ mode' = "down" /\ rpc' = {} /\ UNCHANGED <<session, state>>
        /\ \A t \in Turns : phase'[t] # "lookup"
        /\ \A s \in Sessions : pump'[s] = "off"
    BY <1>3 DEF Exit
  <2> QED BY <2>1, RunsAreTurns
          DEF HubInv, Truthful, HaveSessions, AwaitedRun, Awaited, DownRests, RunningAwaited
<1> QED BY <1>1, <1>2, <1>3

-----------------------------------------------------------------------------
(* The invariant and the theorem.                                          *)

\* At first nothing was accepted.
LEMMA InitHolds == Init => HubInv
<1> SUFFICES ASSUME Init PROVE HubInv
  OBVIOUS
<1>1. TypeOK
  BY DEF Init, TypeOK
<1>2. /\ \A r \in RunIds : state[r] = "absent" /\ ~Awaited(r)
      /\ \A s \in Sessions : RunsIn(s, {"running"}) = {} /\ pump[s] = "off"
  BY RunsAreTurns DEF Init, Awaited, RunsIn
<1>3. mode = "up" /\ rpc = {}
  BY DEF Init
<1>4. Truthful
  BY <1>2, <1>3 DEF Truthful, HaveSessions, AwaitedRun, RunningAwaited, DownRests
<1> QED BY <1>1, <1>4 DEF HubInv

\* The steps together.
LEMMA StepKeeps == HubInv /\ [Next]_vars => HubInv'
<1> SUFFICES ASSUME HubInv, [Next]_vars PROVE HubInv'
  OBVIOUS
<1>1. CASE UNCHANGED vars
  <2>1. TypeOK'
    BY <1>1 DEF vars, HubInv, TypeOK
  <2>2. Truthful'
    BY <1>1 DEF vars, HubInv, Truthful, HaveSessions, AwaitedRun, RunningAwaited, DownRests,
                Awaited, RunsIn
  <2> QED BY <2>1, <2>2 DEF HubInv
<1>2. CASE Next
  <2>1. TypeOK
    BY DEF HubInv
  <2>2. TypeOK'
    BY <1>2, <2>1, SessionTypes, TurnTypes, DaemonTypes DEF Next
  <2>3. Truthful'
    BY <1>2, SessionKeeps, TurnKeeps, DaemonKeeps DEF Next
  <2> QED BY <2>2, <2>3 DEF HubInv
<1> QED BY <1>1, <1>2

\* The counts of RunningIsWorkedOn follow: one running row, or none.
LEMMA OneOrNone == HubInv => RunsInv
<1> SUFFICES ASSUME HubInv PROVE RunsInv
  OBVIOUS
<1>1. ASSUME mode \notin {"down", "closed"}, NEW s \in Sessions
      PROVE  /\ Cardinality(RunsIn(s, {"running"})) = IF pump[s] = "busy" THEN 1 ELSE 0
             /\ \A r \in RunsIn(s, {"running"}) : phase[r] = "lookup" \/ r \in rpc
  <2>1. /\ \A r \in RunsIn(s, {"running"}) : Awaited(r) /\ pump[s] = "busy"
        /\ \A q, r \in RunsIn(s, {"running"}) : q = r
        /\ pump[s] = "busy" => RunsIn(s, {"running"}) # {}
    BY <1>1 DEF HubInv, Truthful, RunningAwaited
  <2>2. CASE pump[s] = "busy"
    <3>1. PICK r : RunsIn(s, {"running"}) = {r}
      BY <2>1, <2>2
    <3> QED BY <2>1, <2>2, <3>1, FS_Singleton DEF Awaited
  <2>3. CASE pump[s] # "busy"
    <3>1. RunsIn(s, {"running"}) = {}
      BY <2>1, <2>3
    <3> QED BY <2>3, <3>1, FS_EmptySet
  <2> QED BY <2>2, <2>3
<1> QED BY <1>1 DEF RunsInv, RunningIsWorkedOn, HubInv

\* The rows of hub_runs speak the truth: as long as the database is open, a run is recorded as
\* running exactly while the executor waits for its turn, one per session, through timeouts,
\* aborts, failing sessions and crashes, and none is left over from an earlier daemon.
THEOREM RowsTellTheTruth == Spec => []RunsInv
<1>1. Spec => []HubInv
  BY InitHolds, StepKeeps, PTL DEF Spec
<1> QED BY <1>1, OneOrNone, PTL

-----------------------------------------------------------------------------
(* The refinement of RunFifo: lemmas about queues of runs.                 *)

\* How many elements of K there are up to i.
Rank(K, i) == Cardinality({j \in K : j <= i})

LEMMA Ranks ==
  ASSUME NEW n \in Nat, NEW K \in SUBSET (1 .. n)
  PROVE  /\ Cardinality(K) \in Nat
         /\ \A i \in K : Rank(K, i) \in 1 .. Cardinality(K)
         /\ \A i, j \in K : i < j => Rank(K, i) < Rank(K, j)
         /\ \A k \in 1 .. Cardinality(K) : \E i \in K : Rank(K, i) = k
<1>1. IsFiniteSet(K) /\ Cardinality(K) \in Nat
  <2>1. IsFiniteSet(1 .. n)
    BY FS_Interval
  <2> QED BY <2>1, FS_Subset, FS_CardinalityType
<1>0. \A i \in K : i \in Nat
  OBVIOUS
<1>2. ASSUME NEW i \in K
      PROVE  /\ IsFiniteSet({j \in K : j <= i})
             /\ Rank(K, i) \in 1 .. Cardinality(K)
  <2> DEFINE A == {j \in K : j <= i}
  <2>1. A \in SUBSET K /\ i \in A
    BY <1>0
  <2>2. IsFiniteSet(A) /\ Cardinality(A) \in Nat /\ Cardinality(A) <= Cardinality(K)
    BY <1>1, <2>1, FS_Subset, FS_CardinalityType
  <2>3. Cardinality(A) # 0
    BY <2>1, <2>2, FS_EmptySet
  <2> QED BY <1>1, <2>2, <2>3 DEF Rank
<1>3. ASSUME NEW i \in K, NEW j \in K, i < j PROVE Rank(K, i) < Rank(K, j)
  <2> DEFINE A == {x \in K : x <= i}
             B == {x \in K : x <= j}
  <2>0. i \in Nat /\ j \in Nat /\ \A x \in K : x \in Nat
    BY <1>0
  <2>1. A \in SUBSET B /\ j \in B /\ j \notin A
    <3>1. \A x \in K : x <= i => x <= j
      BY <1>3, <2>0
    <3>2. ~(j <= i) /\ j <= j
      BY <1>3, <2>0
    <3> QED BY <3>1, <3>2
  <2>2. IsFiniteSet(B) /\ Rank(K, i) \in Nat /\ Rank(K, j) \in Nat
    <3>1. B \in SUBSET K
      OBVIOUS
    <3>2. IsFiniteSet(B)
      BY <1>1, <3>1, FS_Subset
    <3>3. Rank(K, i) \in 1 .. Cardinality(K) /\ Rank(K, j) \in 1 .. Cardinality(K)
      BY <1>2
    <3> HIDE DEF B
    <3> QED BY <1>1, <3>2, <3>3
  <2>3. Cardinality(A) <= Cardinality(B) /\ Cardinality(A) # Cardinality(B)
    BY <2>1, <2>2, FS_Subset
  <2> QED BY <2>2, <2>3 DEF Rank
<1>4. ASSUME NEW k \in 1 .. Cardinality(K), \A i \in K : Rank(K, i) # k PROVE FALSE
  <2> DEFINE T == (1 .. Cardinality(K)) \ {k}
             f == [i \in K |-> Rank(K, i)]
  <2>1. f \in [K -> T]
    BY <1>2, <1>4
  <2>2. IsFiniteSet(1 .. Cardinality(K)) /\ Cardinality(1 .. Cardinality(K)) = Cardinality(K)
    BY <1>1, FS_Interval
  <2>3. IsFiniteSet(T) /\ Cardinality(T) < Cardinality(K)
    <3>1. PICK c : c = Cardinality(K)
      OBVIOUS
    <3>2. PICK I : I = 1 .. c
      OBVIOUS
    <3>3. c \in Nat /\ k \in I /\ T = I \ {k} /\ IsFiniteSet(I) /\ Cardinality(I) = c
      BY <1>1, <2>2, <3>1, <3>2
    <3> HIDE DEF T
    <3>4. IsFiniteSet(I \ {k}) /\ Cardinality(I \ {k}) = c - 1
      BY <3>3, FS_RemoveElement
    <3> QED BY ONLY <3>1, <3>3, <3>4
  <2> HIDE DEF T, f
  <2>4. PICK x \in K, y \in K : x # y /\ f[x] = f[y]
    BY <1>1, <2>1, <2>3, FS_PigeonHole
  <2>5. Rank(K, x) = Rank(K, y) /\ Rank(K, x) \in Nat /\ x \in Nat /\ y \in Nat
    <3>1. f[x] = Rank(K, x) /\ f[y] = Rank(K, y)
      BY <2>4 DEF f
    <3>2. Rank(K, x) \in 1 .. Cardinality(K)
      BY <1>2, <2>4
    <3>3. x \in Nat /\ y \in Nat
      BY <1>0, <2>4
    <3> HIDE DEF f
    <3>4. Rank(K, x) = Rank(K, y)
      BY <2>4, <3>1
    <3>5. Rank(K, x) \in Nat
      BY <1>1, <3>2
    <3> QED BY <3>3, <3>4, <3>5
  <2>6. x < y \/ y < x
    BY <2>4, <2>5
  <2> QED BY <1>3, <2>5, <2>6
<1> QED BY <1>1, <1>2, <1>3, <1>4

\* The k-th run of a queue is the one with rank k.
LEMMA OldestIs ==
  ASSUME NEW Q \in SUBSET RunIds
  PROVE  /\ Cardinality(Q) \in Nat
         /\ DOMAIN Oldest(Q) = 1 .. Cardinality(Q)
         /\ Oldest(Q) \in Seq(RunIds)
         /\ \A k \in 1 .. Cardinality(Q) : Oldest(Q)[k] \in Q /\ Rank(Q, Oldest(Q)[k]) = k
         /\ \A r \in Q : \A k \in 1 .. Cardinality(Q) : Rank(Q, r) = k => Oldest(Q)[k] = r
<1>1. Q \in SUBSET (1 .. MaxRuns) /\ MaxRuns \in Nat /\ \A r \in Q : r \in Nat
  BY ConstantsAssumption DEF RunIds
<1>2. /\ Cardinality(Q) \in Nat
      /\ \A r \in Q : Rank(Q, r) \in 1 .. Cardinality(Q)
      /\ \A p, q \in Q : p < q => Rank(Q, p) < Rank(Q, q)
      /\ \A k \in 1 .. Cardinality(Q) : \E r \in Q : Rank(Q, r) = k
  BY <1>1, Ranks
<1>3. PICK n \in Nat : n = Cardinality(Q)
  BY <1>2
<1>4. Oldest(Q) = [k \in 1 .. n |-> CHOOSE r \in Q : Rank(Q, r) = k]
  BY <1>3 DEF Oldest, Rank
<1>5. DOMAIN Oldest(Q) = 1 .. n
  BY <1>4
<1>6. ASSUME NEW k \in 1 .. n PROVE Oldest(Q)[k] \in Q /\ Rank(Q, Oldest(Q)[k]) = k
  <2>1. \E r \in Q : Rank(Q, r) = k
    BY <1>2, <1>3
  <2>2. Oldest(Q)[k] = CHOOSE r \in Q : Rank(Q, r) = k
    BY <1>4
  <2> QED BY <2>1, <2>2
<1>7. ASSUME NEW p \in Q, NEW q \in Q, Rank(Q, p) = Rank(Q, q) PROVE p = q
  <2>1. p \in Nat /\ q \in Nat /\ Rank(Q, p) \in Nat /\ Rank(Q, q) \in Nat
    BY <1>1, <1>2, <1>3
  <2>2. ~(p < q) /\ ~(q < p)
    BY <1>2, <1>7, <2>1
  <2> QED BY <2>1, <2>2
<1>8. Oldest(Q) \in Seq(RunIds)
  <2>1. \A k \in 1 .. n : Oldest(Q)[k] \in RunIds
    BY <1>6
  <2>2. PICK f : f = Oldest(Q)
    OBVIOUS
  <2>3. f = [k \in 1 .. n |-> f[k]]
    BY <1>4, <2>2
  <2>4. \A k \in 1 .. n : f[k] \in RunIds
    BY <2>1, <2>2
  <2>5. f \in [1 .. n -> RunIds]
    BY <2>3, <2>4
  <2> QED BY <2>2, <2>5, <1>3
<1>9. ASSUME NEW r \in Q, NEW k \in 1 .. n, Rank(Q, r) = k PROVE Oldest(Q)[k] = r
  BY <1>6, <1>7, <1>9
<1> QED BY <1>3, <1>5, <1>6, <1>8, <1>9

\* Sequences of the same length and with the same entries are the same.
LEMMA SameSequence ==
  ASSUME NEW p \in Seq(RunIds), NEW q \in Seq(RunIds), Len(p) = Len(q),
         \A k \in 1 .. Len(p) : p[k] = q[k]
  PROVE  p = q
<1>1. p = [k \in 1 .. Len(p) |-> p[k]] /\ q = [k \in 1 .. Len(q) |-> q[k]]
  OBVIOUS
<1> QED BY <1>1

\* A run that is admitted goes to the end of the queue.
LEMMA LatestIsLast ==
  ASSUME NEW Q \in SUBSET RunIds, NEW r \in RunIds, \A q \in Q : q < r
  PROVE  Oldest(Q \cup {r}) = Append(Oldest(Q), r)
<1>1. PICK R \in SUBSET RunIds : R = Q \cup {r}
  OBVIOUS
<1>2. PICK n \in Nat : n = Cardinality(Q)
  BY OldestIs
<1>3. r \in Nat /\ \A q \in Q : q \in Nat
  BY RunsAreTurns
<1>4. IsFiniteSet(Q) /\ r \notin Q
  <2>1. IsFiniteSet(RunIds)
    BY FS_Interval, ConstantsAssumption DEF RunIds
  <2>2. ~(r < r)
    BY <1>3
  <2> QED BY <2>1, <2>2, FS_Subset
<1>5. Cardinality(R) = n + 1
  BY <1>1, <1>2, <1>4, FS_AddElement
<1>6. \A q \in Q : Rank(R, q) = Rank(Q, q)
  <2> SUFFICES ASSUME NEW q \in Q PROVE Rank(R, q) = Rank(Q, q)
    OBVIOUS
  <2>1. ~(r <= q)
    BY <1>3
  <2>2. {x \in R : x <= q} = {x \in Q : x <= q}
    BY <1>1, <2>1
  <2> QED BY <2>2 DEF Rank
<1>7. Rank(R, r) = n + 1
  <2>1. \A x \in R : x <= r
    BY <1>1, <1>3
  <2>2. {x \in R : x <= r} = R
    BY <2>1
  <2> QED BY <1>5, <2>2 DEF Rank
<1>8. /\ Oldest(R) \in Seq(RunIds) /\ DOMAIN Oldest(R) = 1 .. n + 1
      /\ \A q \in R : \A k \in 1 .. n + 1 : Rank(R, q) = k => Oldest(R)[k] = q
  BY <1>5, OldestIs
<1>9. /\ Oldest(Q) \in Seq(RunIds) /\ DOMAIN Oldest(Q) = 1 .. n
      /\ \A k \in 1 .. n : Oldest(Q)[k] \in Q /\ Rank(Q, Oldest(Q)[k]) = k
  BY <1>2, OldestIs
<1>10. PICK p \in Seq(RunIds) : p = Oldest(Q)
  BY <1>9
<1>11. PICK o \in Seq(RunIds) : o = Oldest(R)
  BY <1>8
<1>12. Len(p) = n /\ Len(o) = n + 1
  BY <1>8, <1>9, <1>10, <1>11
<1>13. \A k \in 1 .. n : o[k] = p[k]
  <2> SUFFICES ASSUME NEW k \in 1 .. n PROVE o[k] = p[k]
    OBVIOUS
  <2>1. p[k] \in Q /\ Rank(Q, p[k]) = k
    BY <1>9, <1>10
  <2>2. p[k] \in R /\ Rank(R, p[k]) = k
    BY <1>1, <1>6, <2>1
  <2>3. k \in 1 .. n + 1
    OBVIOUS
  <2> QED BY <1>8, <1>11, <2>2, <2>3
<1>14. o[n + 1] = r
  <2>1. r \in R /\ n + 1 \in 1 .. n + 1
    BY <1>1
  <2> QED BY <1>7, <1>8, <1>11, <2>1
<1>15. PICK a \in Seq(RunIds) : a = Append(p, r)
  <2>1. Append(p, r) \in Seq(RunIds)
    BY <1>10
  <2> QED BY <2>1
<1>16. Len(a) = n + 1 /\ a[n + 1] = r /\ \A k \in 1 .. n : a[k] = p[k]
  BY <1>12, <1>15
<1>17. \A k \in 1 .. Len(o) : o[k] = a[k]
  <2> SUFFICES ASSUME NEW k \in 1 .. Len(o) PROVE o[k] = a[k]
    OBVIOUS
  <2>1. k = n + 1 \/ k \in 1 .. n
    BY <1>12
  <2> QED BY <1>13, <1>14, <1>16, <2>1
<1> QED BY <1>1, <1>10, <1>11, <1>12, <1>15, <1>16, <1>17, SameSequence

\* The run that is taken is the head of the queue, and the others stay.
LEMMA FirstIsTaken ==
  ASSUME NEW Q \in SUBSET RunIds, NEW r \in Q, \A q \in Q : r <= q
  PROVE  Oldest(Q) # <<>> /\ Head(Oldest(Q)) = r /\ Tail(Oldest(Q)) = Oldest(Q \ {r})
<1>1. PICK R \in SUBSET RunIds : R = Q \ {r}
  OBVIOUS
<1>2. PICK n \in Nat : n = Cardinality(R)
  BY OldestIs
<1>3. \A q \in Q : q \in Nat
  BY RunsAreTurns
<1>4. IsFiniteSet(R) /\ r \notin R /\ Q = R \cup {r}
  <2>1. IsFiniteSet(RunIds)
    BY FS_Interval, ConstantsAssumption DEF RunIds
  <2> QED BY <1>1, <2>1, FS_Subset
<1>5. Cardinality(Q) = n + 1
  BY <1>2, <1>4, FS_AddElement
<1>6. \A q \in R : Rank(Q, q) = Rank(R, q) + 1
  <2> SUFFICES ASSUME NEW q \in R PROVE Rank(Q, q) = Rank(R, q) + 1
    OBVIOUS
  <2> DEFINE A == {x \in R : x <= q}
  <2>1. {x \in Q : x <= q} = A \cup {r}
    BY <1>1, <1>4
  <2>2. IsFiniteSet(A) /\ r \notin A
    BY <1>4, FS_Subset
  <2> HIDE DEF A
  <2>3. Cardinality(A \cup {r}) = Cardinality(A) + 1
    BY <2>2, FS_AddElement
  <2> QED BY <2>1, <2>3 DEF Rank, A
<1>7. Rank(Q, r) = 1
  <2>1. \A x \in Q : x <= r => x = r
    BY <1>3
  <2>2. r <= r
    BY <1>3
  <2>3. {x \in Q : x <= r} = {r}
    BY <2>1, <2>2
  <2> QED BY <2>3, FS_Singleton DEF Rank
<1>8. /\ Oldest(Q) \in Seq(RunIds) /\ DOMAIN Oldest(Q) = 1 .. n + 1
      /\ \A q \in Q : \A k \in 1 .. n + 1 : Rank(Q, q) = k => Oldest(Q)[k] = q
  BY <1>5, OldestIs
<1>9. /\ Oldest(R) \in Seq(RunIds) /\ DOMAIN Oldest(R) = 1 .. n
      /\ \A k \in 1 .. n : Oldest(R)[k] \in R /\ Rank(R, Oldest(R)[k]) = k
  BY <1>2, OldestIs
<1>10. PICK p \in Seq(RunIds) : p = Oldest(R)
  BY <1>9
<1>11. PICK o \in Seq(RunIds) : o = Oldest(Q)
  BY <1>8
<1>12. Len(p) = n /\ Len(o) = n + 1
  BY <1>8, <1>9, <1>10, <1>11
<1>13. \A k \in 1 .. n : o[k + 1] = p[k]
  <2> SUFFICES ASSUME NEW k \in 1 .. n PROVE o[k + 1] = p[k]
    OBVIOUS
  <2>1. p[k] \in R /\ Rank(R, p[k]) = k
    BY <1>9, <1>10
  <2>2. p[k] \in Q /\ Rank(Q, p[k]) = k + 1 /\ k + 1 \in 1 .. n + 1
    BY <1>1, <1>6, <2>1
  <2> QED BY <1>8, <1>11, <2>2
<1>14. o[1] = r
  BY <1>7, <1>8, <1>11
<1>15. o # <<>> /\ Head(o) = r
  BY <1>12, <1>14
<1>16. PICK a \in Seq(RunIds) : a = Tail(o)
  <2>1. Tail(o) \in Seq(RunIds)
    BY <1>15
  <2> QED BY <2>1
<1>17. Len(a) = n /\ \A k \in 1 .. n : a[k] = o[k + 1]
  BY <1>12, <1>15, <1>16
<1>18. a = p
  BY <1>12, <1>13, <1>17, SameSequence
<1> QED BY <1>1, <1>10, <1>11, <1>15, <1>16, <1>18

-----------------------------------------------------------------------------
(* The refinement of RunFifo: every step is one of its steps, or none.     *)

\* What the variables of RunFifo stand for.
FifoWaiting == [s \in Sessions |-> Oldest(RunsIn(s, {"queued"}))]
FifoCurrent == [s \in Sessions |-> CurrentRun(s)]
FifoAccepted == {r \in RunIds : state[r] # "absent"}
FifoStep == [Fifo!Next]_<<FifoWaiting, FifoCurrent, FifoAccepted>>

\* Rows are added in the order of accepted_seq.
RowsInOrder == \A q, r \in RunIds : q < r /\ state[q] = "absent" => state[r] = "absent"

\* The current run is a function of the running rows.
SomeOf(R) == IF R = {} THEN None ELSE CHOOSE r \in R : TRUE

LEMMA CurrentIs ==
  ASSUME NEW s
  PROVE  /\ CurrentRun(s) = SomeOf(RunsIn(s, {"running"}))
         /\ CurrentRun(s)' = SomeOf(RunsIn(s, {"running"})')
<1>1. CurrentRun(s) = SomeOf(RunsIn(s, {"running"}))
  BY DEF CurrentRun, SomeOf
<1>2. CurrentRun(s)' = SomeOf(RunsIn(s, {"running"})')
  BY DEF CurrentRun, SomeOf
<1> QED BY <1>1, <1>2

\* A step that leaves the rows alone is none of RunFifo.
LEMMA RowsRest ==
  ASSUME \A r \in RunIds : state'[r] = state[r] /\ session'[r] = session[r]
  PROVE  FifoStep /\ (RowsInOrder => RowsInOrder')
<1>1. \A s : RunsIn(s, {"queued"})' = RunsIn(s, {"queued"})
  BY DEF RunsIn
<1>2. \A s : RunsIn(s, {"running"})' = RunsIn(s, {"running"})
  BY DEF RunsIn
<1>3. FifoWaiting' = FifoWaiting
  BY <1>1 DEF FifoWaiting
<1>4. \A s : CurrentRun(s)' = CurrentRun(s)
  BY <1>2, CurrentIs
<1>5. FifoCurrent' = FifoCurrent
  BY <1>4 DEF FifoCurrent
<1>6. FifoAccepted' = FifoAccepted
  BY DEF FifoAccepted
<1>7. RowsInOrder => RowsInOrder'
  BY DEF RowsInOrder
<1> QED BY <1>3, <1>5, <1>6, <1>7 DEF FifoStep

\* Admission is Accept: the new run is younger than every other.
LEMMA AdmitAccepts ==
  ASSUME HubInv, RowsInOrder, NEW n \in RunIds, NEW s \in Sessions, Admit(n, s)
  PROVE  FifoStep /\ RowsInOrder'
<1>1. /\ state[n] = "absent" /\ \A q \in RunIds : q < n => state[q] # "absent"
      /\ state'[n] = "queued" /\ session'[n] = s
      /\ \A r \in RunIds \ {n} : state'[r] = state[r] /\ session'[r] = session[r]
  BY RunsAreTurns DEF Admit, HubInv, TypeOK
<1>2. \A r \in RunIds : r \in Nat
  BY RunsAreTurns
<1>3. \A q \in RunIds : state[q] # "absent" => q < n
  <2> SUFFICES ASSUME NEW q \in RunIds, state[q] # "absent" PROVE q < n
    OBVIOUS
  <2>1. ~(n < q) /\ q # n
    BY <1>1 DEF RowsInOrder
  <2> QED BY <1>2, <2>1
<1>4. RunsIn(s, {"queued"})' = RunsIn(s, {"queued"}) \cup {n}
  BY <1>1 DEF RunsIn
<1>5. \A b : b # s => RunsIn(b, {"queued"})' = RunsIn(b, {"queued"})
  BY <1>1 DEF RunsIn
<1>6. \A b : RunsIn(b, {"running"})' = RunsIn(b, {"running"})
  BY <1>1 DEF RunsIn
<1>7. Oldest(RunsIn(s, {"queued"}) \cup {n}) = Append(Oldest(RunsIn(s, {"queued"})), n)
  <2>1. PICK Q : Q = RunsIn(s, {"queued"})
    OBVIOUS
  <2>2. Q \in SUBSET RunIds /\ \A q \in Q : state[q] = "queued"
    BY <2>1 DEF RunsIn
  <2>3. \A q \in Q : q < n
    BY <1>3, <2>2
  <2>4. Oldest(Q \cup {n}) = Append(Oldest(Q), n)
    BY <2>2, <2>3, LatestIsLast
  <2> QED BY <2>1, <2>4
<1>8. FifoWaiting' = [FifoWaiting EXCEPT ![s] = Append(@, n)]
  <2>1. FifoWaiting' = [b \in Sessions |-> Oldest(RunsIn(b, {"queued"})')]
    BY DEF FifoWaiting, Oldest
  <2>2. \A b \in Sessions : FifoWaiting'[b] = IF b = s THEN Append(FifoWaiting[s], n)
                                              ELSE FifoWaiting[b]
    BY <1>4, <1>5, <1>7, <2>1 DEF FifoWaiting
  <2> QED BY <2>1, <2>2 DEF FifoWaiting
<1>9. FifoCurrent' = FifoCurrent
  <2>1. \A b : CurrentRun(b)' = CurrentRun(b)
    BY <1>6, CurrentIs
  <2> QED BY <2>1 DEF FifoCurrent
<1>10. n \notin FifoAccepted /\ FifoAccepted' = FifoAccepted \cup {n}
  BY <1>1 DEF FifoAccepted
<1>11. Fifo!Accept(s, n)
  BY <1>8, <1>9, <1>10 DEF Fifo!Accept, FifoWaiting, FifoCurrent, FifoAccepted
<1>12. RowsInOrder'
  <2> SUFFICES ASSUME NEW q \in RunIds, NEW r \in RunIds, q < r, state'[q] = "absent"
               PROVE  state'[r] = "absent"
    BY DEF RowsInOrder
  <2>1. state[q] = "absent" /\ q # n
    BY <1>1
  <2>2. state[r] = "absent"
    BY <2>1 DEF RowsInOrder
  <2>3. r # n
    BY <1>1, <2>1
  <2> QED BY <1>1, <2>2, <2>3
<1> QED BY <1>11, <1>12 DEF FifoStep, Fifo!Next

\* markRunning is Begin: no other run of the session is executed, and the oldest is taken.
LEMMA TakeBegins ==
  ASSUME HubInv, RowsInOrder, NEW s \in Sessions, RunsIn(s, {"queued"}) # {}, Take(s),
         pump[s] # "busy", mode \notin {"down", "closed"}, UNCHANGED session
  PROVE  FifoStep /\ RowsInOrder'
<1> DEFINE n == NextQueued(s)
<1>1. n \in RunIds /\ session[n] = s /\ state[n] = "queued" /\ n \in RunsIn(s, {"queued"})
  BY OldestIsQueued DEF RunsIn
<1>2. \A q \in RunsIn(s, {"queued"}) : n <= q
  BY OldestIsFirst
<1>3. state' = [state EXCEPT ![n] = "running"]
  BY DEF Take
<1> HIDE DEF n
<1>4. state'[n] = "running" /\ \A r \in RunIds \ {n} : state'[r] = state[r]
  BY <1>1, <1>3 DEF HubInv, TypeOK
<1>5. RunsIn(s, {"running"}) = {}
  BY DEF HubInv, Truthful, RunningAwaited
<1>6. /\ RunsIn(s, {"queued"})' = RunsIn(s, {"queued"}) \ {n}
      /\ RunsIn(s, {"running"})' = {n}
  <2>1. RunsIn(s, {"queued"})' = RunsIn(s, {"queued"}) \ {n}
    BY <1>1, <1>4 DEF RunsIn
  <2>2. RunsIn(s, {"running"})' = {n}
    BY <1>1, <1>4, <1>5 DEF RunsIn
  <2> QED BY <2>1, <2>2
<1>7. \A b : b # s => RunsIn(b, {"queued"})' = RunsIn(b, {"queued"})
  BY <1>1, <1>4 DEF RunsIn
<1>8. \A b : b # s => RunsIn(b, {"running"})' = RunsIn(b, {"running"})
  BY <1>1, <1>4 DEF RunsIn
<1>9. /\ Oldest(RunsIn(s, {"queued"})) # <<>>
      /\ Head(Oldest(RunsIn(s, {"queued"}))) = n
      /\ Tail(Oldest(RunsIn(s, {"queued"}))) = Oldest(RunsIn(s, {"queued"}) \ {n})
  <2>1. PICK Q : Q = RunsIn(s, {"queued"})
    OBVIOUS
  <2>2. Q \in SUBSET RunIds /\ n \in Q /\ \A q \in Q : n <= q
    BY <1>1, <1>2, <2>1 DEF RunsIn
  <2>3. Oldest(Q) # <<>> /\ Head(Oldest(Q)) = n /\ Tail(Oldest(Q)) = Oldest(Q \ {n})
    BY <2>2, FirstIsTaken
  <2> QED BY <2>1, <2>3
<1>10. FifoWaiting' = [FifoWaiting EXCEPT ![s] = Tail(@)]
  <2>1. FifoWaiting' = [b \in Sessions |-> Oldest(RunsIn(b, {"queued"})')]
    BY DEF FifoWaiting, Oldest
  <2>2. \A b \in Sessions : FifoWaiting'[b] = IF b = s THEN Tail(FifoWaiting[s])
                                              ELSE FifoWaiting[b]
    BY <1>6, <1>7, <1>9, <2>1 DEF FifoWaiting
  <2> QED BY <2>1, <2>2 DEF FifoWaiting
<1>11. FifoCurrent' = [FifoCurrent EXCEPT ![s] = n] /\ FifoCurrent[s] = None
  <2>1. CurrentRun(s) = None /\ CurrentRun(s)' = n
    BY <1>5, <1>6 DEF CurrentRun
  <2>2. \A b : b # s => CurrentRun(b)' = CurrentRun(b)
    BY <1>8, CurrentIs
  <2> QED BY <2>1, <2>2 DEF FifoCurrent
<1>12. FifoAccepted' = FifoAccepted
  BY <1>1, <1>4 DEF FifoAccepted
<1>13. FifoWaiting[s] # <<>> /\ Head(FifoWaiting[s]) = n
  BY <1>9 DEF FifoWaiting
<1>14. Fifo!Begin(s)
  BY <1>10, <1>11, <1>12, <1>13 DEF Fifo!Begin, FifoWaiting, FifoCurrent, FifoAccepted
<1>15. RowsInOrder'
  BY <1>1, <1>4 DEF RowsInOrder
<1> QED BY <1>14, <1>15 DEF FifoStep, Fifo!Next

\* Rows that stop running, one or many, while all others stay: Settle.
LEMMA RunsSettle ==
  ASSUME NEW R \in SUBSET RunIds, \A r \in R : state[r] = "running" /\ state'[r] \in Terminal,
         \A r \in RunIds \ R : state'[r] = state[r], UNCHANGED session,
         \A s \in Sessions : (\E r \in R : session[r] = s) => RunsIn(s, {"running"})' = {}
  PROVE  FifoStep /\ (RowsInOrder => RowsInOrder')
<1> DEFINE S == {s \in Sessions : \E r \in R : session[r] = s}
<1>0. \A r \in R : state'[r] # "absent" /\ state'[r] # "queued" /\ state'[r] # "running"
  BY DEF Terminal
<1>1. \A b : RunsIn(b, {"queued"})' = RunsIn(b, {"queued"})
  BY <1>0 DEF RunsIn
<1>2. \A b \in Sessions \ S : RunsIn(b, {"running"})' = RunsIn(b, {"running"})
  BY <1>0 DEF RunsIn
<1>3. FifoWaiting' = FifoWaiting
  BY <1>1 DEF FifoWaiting
<1>4. FifoAccepted' = FifoAccepted
  BY <1>0 DEF FifoAccepted
<1>5. FifoCurrent' = [s \in Sessions |-> IF s \in S THEN None ELSE FifoCurrent[s]]
  <2>1. \A s \in S : CurrentRun(s)' = None
    BY DEF CurrentRun
  <2>2. \A s \in Sessions \ S : CurrentRun(s)' = CurrentRun(s)
    BY <1>2, CurrentIs
  <2> HIDE DEF S
  <2> QED BY <2>1, <2>2 DEF FifoCurrent
<1>6. S \in SUBSET Sessions
  OBVIOUS
<1> HIDE DEF S
<1>7. Fifo!Settle(S)
  BY <1>3, <1>4, <1>5 DEF Fifo!Settle, FifoWaiting, FifoCurrent, FifoAccepted
<1>8. RowsInOrder => RowsInOrder'
  BY <1>0 DEF RowsInOrder
<1> QED BY <1>6, <1>7, <1>8 DEF FifoStep, Fifo!Next

-----------------------------------------------------------------------------
(* The actions of HubRuns, as steps of RunFifo.                            *)

\* The replies of a database that is open settle their runs; on a closed one no row changes.
LEMMA ReplySettles ==
  ASSUME HubInv, RowsInOrder, NEW T, NEW outcome \in Terminal, Reply(T, outcome), EventLoop,
         \A r \in RunIds \cap T : Awaited(r), UNCHANGED session
  PROVE  FifoStep /\ RowsInOrder'
<1>1. \A r \in RunIds : state'[r] = IF r \in T /\ mode # "closed" THEN outcome ELSE state[r]
  BY DEF Reply
<1>2. CASE mode = "closed"
  BY <1>1, <1>2, RowsRest
<1>3. CASE mode # "closed"
  <2>1. PICK R \in SUBSET RunIds : R = RunIds \cap T
    OBVIOUS
  <2>2. /\ \A r \in R : state[r] = "running" /\ state'[r] \in Terminal
        /\ \A r \in RunIds \ R : state'[r] = state[r]
    BY <1>1, <1>3, <2>1 DEF HubInv, Truthful, AwaitedRun
  <2>3. ASSUME NEW s \in Sessions, NEW r \in R, session[r] = s
        PROVE  RunsIn(s, {"running"})' = {}
    <3>1. \A p, q \in RunsIn(s, {"running"}) : p = q
      BY <1>3 DEF HubInv, Truthful, RunningAwaited, EventLoop
    <3>2. r \in RunsIn(s, {"running"})
      BY <2>2, <2>3 DEF RunsIn
    <3>3. state'[r] # "running"
      BY <2>2 DEF Terminal
    <3>4. \A q \in RunsIn(s, {"running"})' : q \in RunsIn(s, {"running"})
      BY <2>2 DEF RunsIn, Terminal
    <3>5. r \notin RunsIn(s, {"running"})'
      BY <3>3 DEF RunsIn
    <3> QED BY <3>1, <3>2, <3>4, <3>5
  <2>4. \A s \in Sessions : (\E r \in R : session[r] = s) => RunsIn(s, {"running"})' = {}
    BY <2>3
  <2> QED BY <2>2, <2>4, RunsSettle
<1> QED BY <1>2, <1>3

\* One step per action.
LEMMA SessionRefines ==
  ASSUME HubInv, RowsInOrder, NEW s \in Sessions,
         \/ \E r \in RunIds : Admit(r, s)
         \/ \E c \in Clients : ClientInput(c, s)
         \/ PumpStarts(s) \/ PumpNext(s) \/ PumpLeaves(s)
         \/ Abort(s) \/ Restore(s) \/ StopSession(s) \/ ShutdownAborts(s) \/ SessionGone(s)
  PROVE  FifoStep /\ RowsInOrder'
<1>1. CASE \E r \in RunIds : Admit(r, s)
  BY <1>1, AdmitAccepts
<1>2. CASE \E c \in Clients : ClientInput(c, s)
  <2>1. \A r \in RunIds : state'[r] = state[r] /\ session'[r] = session[r]
    BY <1>2, RunsAreTurns DEF ClientInput, HubInv, TypeOK
  <2> QED BY <2>1, RowsRest
<1>3. CASE PumpStarts(s)
  BY <1>3, TakeBegins DEF PumpStarts, MayPump
<1>4. CASE PumpNext(s)
  <2>1. CASE mode # "closed" /\ RunsIn(s, {"queued"}) # {}
    BY <1>4, <2>1, TakeBegins DEF PumpNext, EventLoop
  <2>2. CASE ~(mode # "closed" /\ RunsIn(s, {"queued"}) # {})
    BY <1>4, <2>2, RowsRest DEF PumpNext
  <2> QED BY <2>1, <2>2
<1>5. CASE PumpLeaves(s)
  <2>1. CASE mode # "closed" /\ RunsIn(s, {"queued"}) # {}
    BY <1>5, <2>1, TakeBegins DEF PumpLeaves, EventLoop
  <2>2. CASE ~(mode # "closed" /\ RunsIn(s, {"queued"}) # {})
    BY <1>5, <2>2, RowsRest DEF PumpLeaves
  <2> QED BY <2>1, <2>2
<1>6. CASE Abort(s) \/ Restore(s) \/ StopSession(s) \/ ShutdownAborts(s)
  BY <1>6, RowsRest DEF Abort, Restore, StopSession, ShutdownAborts
<1>7. CASE SessionGone(s)
  <2>1. PICK T \in SUBSET rpc : Reply(T, "failed")
    BY <1>7 DEF SessionGone, ReplyIfAwaited
  <2>2. EventLoop /\ UNCHANGED session /\ \A r \in RunIds \cap T : Awaited(r)
    BY <1>7, <2>1 DEF SessionGone, Awaited
  <2>3. "failed" \in Terminal
    BY DEF Terminal
  <2> QED BY <2>1, <2>2, <2>3, ReplySettles
<1> QED BY <1>1, <1>2, <1>3, <1>4, <1>5, <1>6, <1>7

\* A turn that throws.
LEMMA ThrowsRefines ==
  ASSUME HubInv, RowsInOrder, NEW t \in Turns, EventLoop, Throws(t)
  PROVE  FifoStep /\ RowsInOrder'
<1>1. PICK T \in SUBSET rpc, outcome \in {"aborted", "failed"} : Reply(T, outcome)
  BY DEF Throws, ReplyIfAwaited
<1>2. UNCHANGED session /\ outcome \in Terminal /\ \A r \in RunIds \cap T : Awaited(r)
  BY DEF Throws, Terminal, Awaited
<1> QED BY <1>1, <1>2, ReplySettles

\* One step per action.
LEMMA TurnRefines ==
  ASSUME HubInv, RowsInOrder, NEW t \in Turns,
         \/ Input(t) \/ AgentRun(t) \/ TurnThrows(t) \/ AgentEnds(t) \/ TimeOut(t)
         \/ DrainPrompt(t) \/ Unqueue(t)
         \/ \E f \in FinishReasons : TurnEnds(t, f)
  PROVE  FifoStep /\ RowsInOrder'
<1>1. CASE Input(t)
  <2>1. EventLoop /\ UNCHANGED session /\ \A r \in RunIds \cap {t} : Awaited(r)
    BY <1>1 DEF Input, Awaited
  <2>2. CASE \E o \in {"failed", "completed"} : Reply({t}, o)
    BY <2>1, <2>2, ReplySettles DEF Terminal
  <2>3. CASE UNCHANGED <<state, pump>>
    BY <2>1, <2>3, RowsRest
  <2> QED BY <1>1, <2>2, <2>3 DEF Input
<1>2. CASE AgentRun(t)
  <2>1. CASE Throws(t)
    BY <1>2, <2>1, ThrowsRefines DEF AgentRun
  <2>2. CASE ~Throws(t)
    BY <1>2, <2>2, RowsRest DEF AgentRun
  <2> QED BY <2>1, <2>2
<1>3. CASE TurnThrows(t)
  BY <1>3, ThrowsRefines DEF TurnThrows
<1>4. CASE AgentEnds(t) \/ DrainPrompt(t) \/ Unqueue(t)
  BY <1>4, RowsRest DEF AgentEnds, DrainPrompt, Unqueue
<1>5. CASE TimeOut(t)
  <2>1. EventLoop /\ Reply({t}, "failed") /\ UNCHANGED session
        /\ \A r \in RunIds \cap {t} : Awaited(r)
    BY <1>5 DEF TimeOut, Awaited
  <2> QED BY <2>1, ReplySettles DEF Terminal
<1>6. CASE \E f \in FinishReasons : TurnEnds(t, f)
  <2>1. PICK f \in FinishReasons : TurnEnds(t, f)
    BY <1>6
  <2>2. Recorded(f) \in Terminal
    BY DEF Recorded, FinishReasons, Terminal
  <2>3. PICK T \in SUBSET rpc : Reply(T, Recorded(f))
    BY <2>1 DEF TurnEnds, ReplyIfAwaited
  <2>4. EventLoop /\ UNCHANGED session /\ \A r \in RunIds \cap T : Awaited(r)
    BY <2>1, <2>3 DEF TurnEnds, Awaited
  <2> QED BY <2>2, <2>3, <2>4, ReplySettles
<1> QED BY <1>1, <1>2, <1>3, <1>4, <1>5, <1>6

\* Recovery settles every run of the earlier daemon; the other steps write no row.
LEMMA DaemonRefines ==
  ASSUME HubInv, RowsInOrder, Pumped \/ Recover \/ Stop \/ Close \/ Exit
  PROVE  FifoStep /\ RowsInOrder'
<1>1. CASE Pumped \/ Stop \/ Close \/ Exit
  BY <1>1, RowsRest DEF Pumped, Stop, Close, Exit
<1>2. CASE Recover
  <2>1. PICK R \in SUBSET RunIds : R = {r \in RunIds : state[r] = "running"}
    OBVIOUS
  <2>2. /\ \A r \in R : state[r] = "running" /\ state'[r] \in Terminal
        /\ \A r \in RunIds \ R : state'[r] = state[r]
        /\ UNCHANGED session
    BY <1>2, <2>1 DEF Recover, Terminal
  <2>3. \A s \in Sessions : RunsIn(s, {"running"})' = {}
    BY <1>2 DEF Recover, RunsIn
  <2> QED BY <2>2, <2>3, RunsSettle
<1> QED BY <1>1, <1>2

\* At first no run was accepted.
LEMMA InitRefines == Init => Fifo!Init /\ RowsInOrder
<1> SUFFICES ASSUME Init PROVE Fifo!Init /\ RowsInOrder
  OBVIOUS
<1>1. \A r \in RunIds : state[r] = "absent"
  BY DEF Init
<1>2. \A s : RunsIn(s, {"queued"}) = {} /\ RunsIn(s, {"running"}) = {}
  BY <1>1 DEF RunsIn
<1>3. Oldest({}) = <<>>
  <2>1. DOMAIN Oldest({}) = 1 .. 0 /\ Oldest({}) \in Seq(RunIds)
    BY OldestIs, FS_EmptySet
  <2> QED BY <2>1
<1>4. \A s : CurrentRun(s) = None
  BY <1>2 DEF CurrentRun
<1>5. {r \in RunIds : state[r] # "absent"} = {}
  BY <1>1
<1> QED BY <1>1, <1>2, <1>3, <1>4, <1>5 DEF Fifo!Init, RowsInOrder

\* The steps together.
LEMMA StepRefines == HubInv /\ RowsInOrder /\ [Next]_vars => FifoStep /\ RowsInOrder'
<1> SUFFICES ASSUME HubInv, RowsInOrder, [Next]_vars PROVE FifoStep /\ RowsInOrder'
  OBVIOUS
<1>1. CASE UNCHANGED vars
  BY <1>1, RowsRest DEF vars
<1>2. CASE Next
  BY <1>2, SessionRefines, TurnRefines, DaemonRefines DEF Next
<1> QED BY <1>1, <1>2

\* The run queue keeps its promise: whatever the order of admissions, replies, timeouts, aborts,
\* shutdowns, crashes and restarts, every session's runs are executed one at a time, in the order
\* in which they were accepted, and none is taken twice.
THEOREM HubRunsImplementsFifo == Spec => ImplementsFifo
<1>1. Spec => [](HubInv /\ RowsInOrder)
  <2>1. Init => HubInv /\ RowsInOrder
    BY InitHolds, InitRefines
  <2>2. (HubInv /\ RowsInOrder) /\ [Next]_vars => (HubInv /\ RowsInOrder)'
    BY StepKeeps, StepRefines
  <2> QED BY <2>1, <2>2, PTL DEF Spec
<1>2. (HubInv /\ RowsInOrder) /\ [Next]_vars
        => [Fifo!Next]_<<FifoWaiting, FifoCurrent, FifoAccepted>>
  BY StepRefines DEF FifoStep
<1>3. Init /\ [][Next]_vars => Fifo!Init
  BY InitRefines
<1>4. Spec => Fifo!Init /\ [][Fifo!Next]_<<FifoWaiting, FifoCurrent, FifoAccepted>>
  BY <1>1, <1>2, <1>3, PTL DEF Spec
<1> QED BY <1>4, PTL DEF ImplementsFifo, Fifo!Spec, FifoWaiting, FifoCurrent, FifoAccepted

=============================================================================
