------------------------------ MODULE AgentLoop ------------------------------
(***************************************************************************)
(* The agent's loop (sdk/packages/agents/src/agent-runtime.ts): a run asks *)
(* the model, records its turn, executes the tools it calls and asks       *)
(* again, until a turn calls nothing and nothing wants it to go on.        *)
(*                                                                         *)
(* One AgentRuntime and its consecutive runs; the host awaits run() before *)
(* it calls it again.  An action is a stretch between two awaits at which  *)
(* the outcome matters: abort(), a message of the user and the end of a    *)
(* tool come in between.  What the model says is reduced to what the loop  *)
(* tells apart.  The guards against repetition, loops and turns that do    *)
(* not converge, image recovery, restore() and errors thrown by listeners  *)
(* are left out.                                                           *)
(***************************************************************************)
EXTENDS Integers, FiniteSets, Sequences, SequencesExt

CONSTANTS
  MaxRuns, MaxSteers, \* bounds: runs, messages sent while a run goes on
  MaxCalls,           \* bound: tool calls in one turn
  Limits,             \* values of config.maxIterations, 0 when it is not set
  Bounds,             \* values of maxParallelToolCalls
  NudgeBudget,        \* completionPolicy.maxNoToolCallNudges
  TruncBudget,        \* getMaxTokensRetryBudget()
  ParseBudget,        \* TOOL_CALL_PARSE_RETRY_BUDGET
  ThinkBudget,        \* THINKING_ONLY_RETRY_BUDGET
  Retries             \* PROVIDER_ERROR_MAX_RETRIES

ASSUME ConstantsAssumption ==
  /\ {MaxRuns, MaxSteers, MaxCalls, NudgeBudget, TruncBudget, ParseBudget, ThinkBudget,
      Retries} \cup Limits \subseteq Nat
  /\ Bounds \subseteq Nat \ {0}

Runs == 1 .. MaxRuns

VARIABLES
  limit,   \* config.maxIterations
  bound,   \* maxParallelToolCalls
  run,     \* the number of the last run
  status,  \* state.status
  halted,  \* the run's abortController is aborted
  at,      \* where execute() is
  iter,    \* state.iteration, kept only when there is a limit
  turn,    \* the locals of the turn in hand, see NewTurn
  overflowed, \* overflowRecoveryAttempted
  nudges,  \* consecutiveNoToolCallNudges
  asked,   \* noToolCallNudgeAsked
  worked,  \* calledToolThisRun
  promised, \* intentNudgeSpent
  unread,  \* lastNudgedUnreadableCall, 0 when there is none
  truncs,  \* consecutiveMaxTokensRetries
  parses,  \* toolCallParseRetries
  thinks,  \* thinkingOnlyRetries
  resume,  \* steerAwaitingResume
  steers,  \* messages of the user that wait for consumePendingUserMessage
  tail,    \* state.messages from the last message of the model on
  calls,   \* run -> the tool calls of its last turn
  workers, \* run -> workers of the pool that executes them
  last,    \* history: what the model's last turn was
  since,   \* history: turns the run recorded since the user's last message, up to 2
  arrived, \* history: messages the user has sent
  missed   \* history: those that came after the stream of the last silent turn had ended

config == <<limit, bound>>
budgets == <<nudges, asked, worked, promised, unread, truncs, parses, thinks>>
input == <<resume, steers, arrived, missed>>
tools == <<calls, workers>>
vars == <<config, run, status, halted, at, iter, turn, overflowed, budgets, input, tail, tools,
          last, since>>

\* cut: the request's modelSteerController is aborted; attempts: those of
\* withProviderErrorRetry; continued: once already after an unknown finish; unsure: the
\* turn's own finish reason is "unknown"; text: what a turn says that calls nothing.
NewTurn == [cut |-> FALSE, attempts |-> 0, continued |-> FALSE, unsure |-> FALSE,
            text |-> "answer"]

\* A tool that ends the run has lifecycle.completesRun, a gated one boundsOwnConcurrency.
Kinds == {"plain", "gated", "final"}
\* A call that a hook, a policy or the user refused goes the same way, without its tool: a hook
\* may replace the error that is its result.  "threw": a hook stopped the run.
Steps == {"asked", "ready", "running", "ok", "err", "threw"}
Roles == {"user", "steer", "note", "said", "asked", "result"}
\* "unread": a call the provider could not read, left in the text; 1 and 2 differ.
Texts == {"answer", "done", "promise", "thinking", "unread1", "unread2"}
Requesting == {"prepare", "compact", "request", "stream"}

Msg(r, role, n) == [run |-> r, role |-> role, n |-> n]
\* One note stands for all that are said in a row.
Note(t) == IF t # << >> /\ Last(t) = Msg(run, "note", 0) THEN t
           ELSE Append(t, Msg(run, "note", 0))
Said == <<Msg(run, "said", 0)>>

TypeOK ==
  /\ limit \in Limits /\ bound \in Bounds /\ run \in 0 .. MaxRuns /\ iter \in 0 .. limit
  /\ status \in {"idle", "running", "completed", "aborted", "failed"}
  /\ at \in {"rest", "starting", "top", "backoff", "closing", "asking", "tools"} \cup Requesting
  /\ (status = "running") <=> (at # "rest")
  /\ {halted, overflowed, asked, worked, promised, resume} \subseteq BOOLEAN
  /\ turn \in [cut : BOOLEAN, attempts : 0 .. Retries, continued : BOOLEAN, unsure : BOOLEAN,
               text : Texts]
  /\ nudges \in 0 .. NudgeBudget /\ truncs \in 0 .. TruncBudget
  /\ parses \in 0 .. ParseBudget /\ thinks \in 0 .. ThinkBudget
  /\ unread \in 0 .. 2 /\ since \in 0 .. 2
  /\ steers \in 0 .. arrived /\ arrived \in 0 .. MaxSteers /\ missed \in 0 .. arrived
  /\ \A i \in DOMAIN tail : tail[i] \in [run : Runs, role : Roles, n : 0 .. MaxCalls]
  /\ calls \in [Runs -> BoundedSeq([kind : Kinds, st : Steps], MaxCalls)]
  /\ workers \in [Runs -> 0 .. bound]

Init ==
  /\ limit \in Limits /\ bound \in Bounds
  /\ run = 0 /\ status = "idle" /\ halted = FALSE /\ at = "rest" /\ iter = 0
  /\ turn = NewTurn /\ overflowed = FALSE
  /\ nudges = 0 /\ asked = FALSE /\ worked = FALSE /\ promised = FALSE /\ unread = 0
  /\ truncs = 0 /\ parses = 0 /\ thinks = 0
  /\ resume = FALSE /\ steers = 0 /\ arrived = 0 /\ missed = 0
  /\ tail = << >>
  /\ calls = [r \in Runs |-> << >>] /\ workers = [r \in Runs |-> 0]
  /\ last = "quiet" /\ since = 2

-----------------------------------------------------------------------------
(* How a run ends, and what reaches it from outside.                       *)

\* The catch block: a stop or an abort makes the run "aborted", anything else "failed".
Throw(stopped) ==
  /\ status' = IF halted \/ stopped THEN "aborted" ELSE "failed"
  /\ at' = "rest" /\ halted' = FALSE /\ turn' = NewTurn

\* finishRun, whatever has been asked in the meantime.
Finish ==
  /\ status' = "completed"
  /\ at' = "rest" /\ halted' = FALSE /\ turn' = NewTurn

Goto(place, t) == at' = place /\ turn' = t /\ UNCHANGED <<status, halted>>
GoOn == Goto("top", NewTurn)

\* run(input), up to the hooks called before the run.
StartRun ==
  /\ at = "rest" /\ run < MaxRuns
  /\ run' = run + 1 /\ status' = "running" /\ at' = "starting"
  /\ iter' = 0 /\ overflowed' = FALSE /\ resume' = FALSE /\ asked' = FALSE
  /\ worked' = FALSE
  /\ since' = 2
  /\ UNCHANGED <<config, halted, turn, nudges, promised, unread, truncs, parses, thinks,
                 steers, arrived, missed, tail, tools, last>>

\* The run's input follows the conversation.
Begin ==
  /\ at = "starting"
  /\ GoOn
  /\ tail' = Append(tail, Msg(run, "user", 0))
  /\ UNCHANGED <<config, run, iter, overflowed, budgets, input, tools, last, since>>

\* A hook called before the run, before the request or after the response says stop.
HookStops ==
  /\ at \in {"starting", "request", "stream"}
  /\ Throw(TRUE)
  /\ UNCHANGED <<config, run, iter, overflowed, budgets, input, tail, tools, last, since>>

Abort ==
  /\ at # "rest" /\ ~halted
  /\ halted' = TRUE
  /\ UNCHANGED <<config, run, status, at, iter, turn, overflowed, budgets, input, tail, tools,
                 last, since>>

\* The host queues a message of the user and calls notifyPendingUserMessage, which interrupts a
\* request and nothing else.
SendSteer ==
  /\ at # "rest" /\ arrived < MaxSteers
  /\ steers' = steers + 1 /\ arrived' = arrived + 1
  /\ missed' = IF at = "closing" THEN missed + 1 ELSE missed
  /\ turn' = [turn EXCEPT !.cut = @ \/ at \in Requesting]
  /\ UNCHANGED <<config, run, status, halted, at, iter, overflowed, budgets, resume, tail,
                 tools, last, since>>

-----------------------------------------------------------------------------
(* A turn: the request.                                                    *)

\* The head of the loop.
TurnBegin ==
  /\ at = "top"
  /\ IF (limit > 0 /\ iter = limit) \/ halted
     THEN Throw(FALSE) /\ UNCHANGED iter
     ELSE Goto("prepare", NewTurn) /\ iter' = IF limit > 0 THEN iter + 1 ELSE 0
  /\ UNCHANGED <<config, run, overflowed, budgets, input, tail, tools, last, since>>

\* prepareModelRequest: a message that waits is read, then the transcript is compacted if
\* it has to be.  A compaction the provider asked for has to make the request smaller.
Prepare ==
  /\ at \in {"prepare", "compact"}
  /\ IF steers > 0
     THEN steers' = steers - 1 /\ resume' = TRUE /\ since' = 0
          /\ tail' = Append(tail, Msg(run, "steer", 0))
     ELSE UNCHANGED <<steers, resume, since, tail>>
  /\ \/ Goto("request", turn)
     \/ at = "compact" /\ Throw(FALSE)
  /\ UNCHANGED <<config, run, iter, overflowed, budgets, arrived, missed, tools, last>>

\* Bug: the abort signal is not looked at before the request is sent.
BugMayAsk == TRUE

MayAsk == ~halted

OpenRequest ==
  /\ at = "request"
  /\ IF MayAsk THEN Goto("stream", turn) ELSE Throw(FALSE)
  /\ UNCHANGED <<config, run, iter, overflowed, budgets, input, tail, tools, last, since>>

\* Bug: the stream is not told of the abort.
BugInterrupted == turn.cut

Interrupted == halted \/ turn.cut

\* The stream is left: by an abort, or by a message of the user, which keeps what was visible.
LeaveStream ==
  /\ at = "stream" /\ Interrupted
  /\ IF halted THEN Throw(FALSE) /\ UNCHANGED <<tail, since>>
     ELSE /\ GoOn
          /\ \/ UNCHANGED <<tail, since>>
             \/ tail' = Said /\ since' = IF since = 2 THEN 2 ELSE since + 1
  /\ UNCHANGED <<config, run, iter, overflowed, budgets, input, tools, last>>

\* abortableDelay between two attempts.
Backoff ==
  /\ at = "backoff"
  /\ IF halted THEN Throw(FALSE) ELSE Goto("prepare", [turn EXCEPT !.cut = FALSE])
  /\ UNCHANGED <<config, run, iter, overflowed, budgets, input, tail, tools, last, since>>

-----------------------------------------------------------------------------
(* A turn: what the model answered.                                        *)

Answered(kind) == at = "stream" /\ ~halted /\ ~turn.cut /\ last' = kind

\* recordAssistantMessage.
Record(msgs) == tail' = msgs /\ since' = IF since = 2 THEN 2 ELSE since + 1
Unrecorded(msgs) == tail' = msgs /\ UNCHANGED since
RecordedOrNot(then) == Record(IF then THEN Note(Said) ELSE Said)
                       \/ Unrecorded(IF then THEN Note(tail) ELSE tail)

\* Bug: the last retry is taken twice.
BugLeft(spent, budget) == spent <= budget

Left(spent, budget) == spent < budget

\* A turn cut off at the output cap, or empty although it spent tokens, is taken again.
Truncated(empty) ==
  /\ Answered("quiet")
  /\ IF Left(truncs, TruncBudget)
     THEN GoOn /\ truncs' = truncs + 1 /\ Unrecorded(Note(tail))
     ELSE /\ Throw(FALSE) /\ UNCHANGED truncs
          /\ IF empty THEN Unrecorded(tail) ELSE Record(Said)
  /\ UNCHANGED <<config, run, iter, overflowed, nudges, asked, worked, promised, unread, parses,
                 thinks, input, tools>>

\* The provider could not parse the tool call: recoverUnparsableToolCall.
Unparsable ==
  /\ Answered("quiet")
  /\ IF Left(parses, ParseBudget)
     THEN GoOn /\ parses' = parses + 1 /\ RecordedOrNot(TRUE)
     ELSE Throw(FALSE) /\ UNCHANGED parses /\ RecordedOrNot(FALSE)
  /\ UNCHANGED <<config, run, iter, overflowed, nudges, asked, worked, promised, unread, truncs,
                 thinks, input, tools>>

\* The provider failed and left nothing behind: isRetryableProviderErrorTurn.
ProviderFails(retryable) ==
  /\ Answered("quiet")
  /\ IF retryable /\ Left(turn.attempts, Retries)
     THEN Goto("backoff", [turn EXCEPT !.attempts = @ + 1, !.cut = FALSE])
     ELSE Throw(FALSE)
  /\ UNCHANGED <<config, run, iter, overflowed, budgets, input, tail, tools, since>>

\* The context window is exceeded: one compaction per run.
Overflow ==
  /\ Answered("quiet")
  /\ IF overflowed THEN Throw(FALSE) ELSE Goto("compact", [turn EXCEPT !.cut = FALSE])
  /\ overflowed' = TRUE
  /\ UNCHANGED <<config, run, iter, budgets, input, tail, tools, since>>

\* A stream that ends without saying why is recorded and continued, once a turn.
UnknownFinish ==
  /\ Answered("quiet")
  /\ IF turn.continued THEN Throw(FALSE) /\ Record(Said)
     ELSE Goto("prepare", [NewTurn EXCEPT !.continued = TRUE]) /\ Record(Note(Said))
  /\ UNCHANGED <<config, run, iter, overflowed, budgets, input, tools>>

Unread(text) == CASE text = "unread1" -> 1 [] text = "unread2" -> 2 [] OTHER -> 0

\* Bug: a model that keeps promising is asked each time.
BugPromised(text) == text = "promise" /\ NudgeBudget > 0

\* The announced-intent nudge, once.
Promised(text) == text = "promise" /\ ~promised /\ NudgeBudget > 0

\* getNoToolCallNudgeMessage: not for a model that worked, or was asked, and says it is done.
Nudged(text) ==
  /\ Left(nudges, NudgeBudget)
  /\ text = "done" => nudges > 0 \/ (~asked /\ ~worked)

UnreadNudged(text) == NudgeBudget > 0 /\ Unread(text) \notin {0, unread}

\* Bug: the turn that answers the user's message may end the run.
BugResumes(text) == resume /\ text # "done"

\* The answer to a message of the user does not end the run: it is told to go on.
Resumes(text) == resume

\* The stream of a turn that calls nothing has ended: the turn is recorded and reported.
SilentTurn(text) ==
  /\ Answered(IF Unread(text) # 0 THEN "pressing" ELSE "quiet")
  /\ Goto("closing", [NewTurn EXCEPT !.text = text])
  /\ Record(Said) /\ parses' = 0 /\ missed' = 0
  /\ UNCHANGED <<config, run, iter, overflowed, nudges, asked, worked, promised, unread, truncs,
                 thinks, resume, steers, arrived, tools>>

ToldToGoOn == GoOn /\ tail' = Note(tail)

\* The guards have been asked, by way of the host for its unstarted work; then the host's
\* completion boundary may ask for more; then the run is over, unless the turn was nothing but
\* thinking.  Neither an abort nor a message that came meanwhile is looked at.
Conclude(boundary) ==
  /\ at = "closing"
  /\ LET text == turn.text
     IN \/ /\ Resumes(text) /\ ~boundary
           /\ resume' = FALSE /\ ToldToGoOn
           /\ UNCHANGED <<nudges, asked, promised, unread, thinks>>
        \/ /\ ~Resumes(text) /\ ~boundary /\ UNCHANGED <<resume, thinks>>
           /\ Nudged(text) \/ UnreadNudged(text) \/ Promised(text)
           /\ nudges' = IF Nudged(text) THEN nudges + 1 ELSE nudges
           /\ asked' = (asked \/ Nudged(text))
           /\ unread' = IF UnreadNudged(text) THEN Unread(text) ELSE unread
           /\ promised' = (promised \/ Promised(text))
           /\ ToldToGoOn
        \/ /\ ~Resumes(text) /\ UNCHANGED <<resume, nudges, asked, promised, unread>>
           /\ ~Nudged(text) /\ ~UnreadNudged(text) /\ ~Promised(text)
           /\ LET again == text = "thinking" /\ Left(thinks, ThinkBudget)
              IN IF boundary \/ again
                 THEN thinks' = (IF boundary THEN thinks ELSE thinks + 1) /\ ToldToGoOn
                 ELSE Finish /\ UNCHANGED <<tail, thinks>>
  /\ last' = IF boundary THEN "pressing" ELSE last
  /\ UNCHANGED <<config, run, iter, overflowed, worked, truncs, parses, steers, arrived, missed,
                 tools, since>>

-----------------------------------------------------------------------------
(* A turn: the tools it calls.                                             *)

\* The model's turn calls tools: the budgets of silent and truncated turns start over.
ToolTurn(kinds) ==
  /\ Answered("tools")
  /\ \E u \in BOOLEAN : Goto("asking", [NewTurn EXCEPT !.unsure = u])
  /\ Record(<<Msg(run, "asked", Len(kinds))>>)
  /\ nudges' = 0 /\ truncs' = 0 /\ parses' = 0 /\ thinks' = 0 /\ worked' = TRUE
  /\ calls' = [calls EXCEPT ![run] = [i \in DOMAIN kinds |-> [kind |-> kinds[i], st |-> "asked"]]]
  /\ workers' = [workers EXCEPT ![run] = 0]
  /\ UNCHANGED <<config, run, iter, overflowed, asked, promised, unread, input>>

\* Bug: a call that bounds its own concurrency does so when one at a time was asked for.
BugSelfGated(call) == call.kind = "gated"

SelfGated(call) == call.kind = "gated" /\ bound > 1

Pooled(cs) == {i \in DOMAIN cs : ~SelfGated(cs[i])}
Busy(call) == call.st = "running"
Over(call) == call.st \in {"ok", "err", "threw"}

\* executePreparedTool begins.
Launch(call) == [call EXCEPT !.st = "running"]

\* Every worker that is free takes the next call of the pool, in the model's order.
Fill(cs, n) ==
  LET free == n - Cardinality({i \in Pooled(cs) : Busy(cs[i])})
      waiting == {i \in Pooled(cs) : cs[i].st = "ready"}
  IN [i \in DOMAIN cs |->
        IF i \in waiting /\ Cardinality({j \in waiting : j <= i}) <= free
        THEN Launch(cs[i]) ELSE cs[i]]

\* executeToolCalls: those that bound themselves and the workers of the pool start together.
Launched(cs) ==
  Fill([i \in DOMAIN cs |-> IF SelfGated(cs[i]) THEN Launch(cs[i]) ELSE cs[i]], bound)

\* prepareToolExecution, one call after the other: hooks, policy, and the user's approval,
\* which may take its time.  Nothing is executed before all are prepared.
PrepareCall ==
  /\ at = "asking"
  /\ LET i == CHOOSE j \in DOMAIN calls[run] :
                 /\ calls[run][j].st = "asked"
                 /\ \A k \in 1 .. j - 1 : calls[run][k].st # "asked"
     IN \/ /\ Throw(TRUE)
           /\ calls' = [calls EXCEPT ![run] = << >>]
           /\ UNCHANGED workers
        \/ LET cs == [calls[run] EXCEPT ![i].st = "ready"]
           IN IF i < Len(cs)
              THEN /\ Goto("asking", turn)
                   /\ calls' = [calls EXCEPT ![run] = cs]
                   /\ UNCHANGED workers
              ELSE /\ Goto("tools", turn)
                   /\ calls' = [calls EXCEPT ![run] = Launched(cs)]
                   /\ workers' = [workers EXCEPT ![run] = bound]
  /\ UNCHANGED <<config, run, iter, overflowed, budgets, input, tail, last, since>>

\* executePreparedTool ends.  A worker goes on to the next call; one whose hook stopped the
\* run does not, but the others do, whether or not the run is still going.
FinishCall(r, i) ==
  /\ Busy(calls[r][i])
  /\ \E st \in {"ok", "err", "threw"} :
       LET cs == [calls[r] EXCEPT ![i].st = st]
           n == IF st = "threw" /\ i \in Pooled(cs) THEN workers[r] - 1 ELSE workers[r]
       IN /\ workers' = [workers EXCEPT ![r] = n]
          /\ calls' = [calls EXCEPT ![r] = Fill(cs, n)]
  /\ UNCHANGED <<config, run, status, halted, at, iter, turn, overflowed, budgets, input, tail,
                 last, since>>

\* Promise.all rejects at the first throw; a single worker is awaited before the others.
Rejected(cs) ==
  \E i \in DOMAIN cs :
    /\ cs[i].st = "threw"
    /\ \/ i \in Pooled(cs) \/ (bound > 1 /\ Cardinality(Pooled(cs)) > 1)
       \/ \A j \in Pooled(cs) : Over(cs[j])

ToolsStop ==
  /\ at = "tools" /\ Rejected(calls[run])
  /\ Throw(TRUE)
  /\ UNCHANGED <<config, run, iter, overflowed, budgets, input, tail, tools, last, since>>

\* Bug: what the hooks have to add goes before the results.
BugResults(n, context) == context \o [i \in 1 .. n |-> Msg(run, "result", i)]

\* The results in the order of the calls, then what the hooks have to add.
Results(n, context) == [i \in 1 .. n |-> Msg(run, "result", i)] \o context

\* Every call has its result.  One that completes the run ends it, unless the host's
\* boundary asks for more.
Collect(boundary) ==
  LET cs == calls[run]
      final == \E i \in DOMAIN cs : cs[i].kind = "final" /\ cs[i].st = "ok"
  IN /\ at = "tools"
     /\ \A i \in DOMAIN cs : cs[i].st \in {"ok", "err"}
     /\ \E context \in {<< >>, <<Msg(run, "note", 0)>>} :
          LET t == tail \o Results(Len(cs), context)
          IN IF turn.unsure /\ \A i \in DOMAIN cs : cs[i].st = "err"
             THEN ~boundary /\ Throw(FALSE) /\ tail' = t
             ELSE IF ~final THEN ~boundary /\ GoOn /\ tail' = t
             ELSE IF boundary THEN GoOn /\ tail' = Note(t)
             ELSE Finish /\ tail' = t
     /\ calls' = [calls EXCEPT ![run] = << >>]
     /\ UNCHANGED <<config, run, iter, overflowed, budgets, input, workers, last, since>>

Answer ==
  \/ \E empty \in BOOLEAN : Truncated(empty)
  \/ \E retryable \in BOOLEAN : ProviderFails(retryable)
  \/ Unparsable \/ Overflow \/ UnknownFinish
  \/ \E text \in Texts : SilentTurn(text)
  \/ \E n \in 1 .. MaxCalls : \E kinds \in [1 .. n -> Kinds] : ToolTurn(kinds)

Execute ==
  \/ Begin \/ TurnBegin \/ Prepare \/ OpenRequest \/ LeaveStream \/ Backoff \/ Answer
  \/ PrepareCall \/ ToolsStop
  \/ \E boundary \in BOOLEAN : Conclude(boundary) \/ Collect(boundary)

ToolEnds == \E r \in Runs : \E i \in DOMAIN calls[r] : FinishCall(r, i)

Next == StartRun \/ HookStops \/ Abort \/ SendSteer \/ Execute \/ ToolEnds

Spec == Init /\ [][Next]_vars

\* Requests, hooks, approvals and tools come to an end, and the loop goes on.
FairSpec == Spec /\ WF_vars(Execute) /\ WF_vars(ToolEnds)

-----------------------------------------------------------------------------
(* What the loop has to get right.                                         *)

\* A provider rejects a transcript in which a call of the model is not answered at once: a
\* turn's calls are followed by all their results, in order, before anything else is said,
\* whatever order the tools end in and whatever hooks, reminders and the user add.  Only a run
\* that was stopped leaves calls without results.
CallsAnswered ==
  \A i \in DOMAIN tail : tail[i].role = "asked" =>
    \/ /\ Len(tail) >= i + tail[i].n
       /\ \A k \in 1 .. tail[i].n : tail[i + k].role = "result" /\ tail[i + k].n = k
    \/ \A j \in DOMAIN tail : tail[j].role # "result"
       /\ \/ tail[i].run < run \/ status \in {"aborted", "failed"}
          \/ at \in {"asking", "tools"} /\ i = Len(tail)

\* The endpoint, the disk and the host are asked to do a bounded number of things at once by
\* one turn, and one at a time means one at a time for calls that bound themselves too.
PoolBounded ==
  LET cs == IF run = 0 THEN << >> ELSE calls[run]
      busy == {i \in DOMAIN cs : Busy(cs[i])}
  IN /\ Cardinality({i \in busy : cs[i].kind # "gated"}) <= bound
     /\ bound = 1 => Cardinality(busy) <= 1

\* The calls of the model: each has its result in its place, and they run within their bounds.
CallsInv == TypeOK /\ CallsAnswered /\ PoolBounded

\* "Nobody interjecting a question means 'and stop'": a run that ends because the model has
\* no more to call has read the user's last message, answered it and been told to go on.  No
\* message is left unread but one that came after the stream of the last turn had ended, while
\* the guards, the host and its completion boundary were asked: that one is not looked at any
\* more, and is the host's to run.
SteerIsAnswered ==
  status = "completed" /\ last # "tools" =>
    /\ since = 2
    /\ \A i \in DOMAIN tail : tail[i] # Msg(run, "steer", 0)
    /\ steers <= missed

\* abort(): no request is sent to the model any more, whatever was being retried, compacted
\* or prepared when it came.
AbortSendsNothing == [][halted /\ at # "stream" => at' # "stream"]_vars

\* abort() ends the run.
AbortEnds == halted ~> at = "rest"

\* abort() is final.
AbortHolds == AbortSendsNothing /\ AbortEnds

\* A model that calls no tools any more and writes nothing that looks like one cannot be
\* nudged, retried and recovered for ever by the guards modelled here: each has its budget,
\* others reset it, and together they end the run.
SilentModelEnds ==
  <>[](last \notin {"tools", "pressing"}) => <>[](at = "rest")

=============================================================================
