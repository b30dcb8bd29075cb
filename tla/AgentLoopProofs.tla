--------------------------- MODULE AgentLoopProofs ---------------------------
(***************************************************************************)
(* Proofs about AgentLoop, for every number of runs, messages and calls,   *)
(* all budgets and all bounds: a message of the user is answered before    *)
(* the run ends, every call of the model has its result in its place, the  *)
(* pool keeps its bounds, and abort() is the end of requests.              *)
(***************************************************************************)
EXTENDS AgentLoop, SequenceTheorems, FiniteSetTheorems, TLAPS

Statuses == {"idle", "running", "completed", "aborted", "failed"}

-----------------------------------------------------------------------------
(* Calls and results.                                                      *)

Messages == [run : Runs, role : Roles, n : 0 .. MaxCalls]
Calls == [kind : Kinds, st : Steps]

\* What the transcript and the calls are made of; nothing is said by later runs.
CallTypes ==
  /\ run \in 0 .. MaxRuns /\ (at # "rest" => run \in Runs)
  /\ status \in Statuses /\ ((status = "running") <=> (at # "rest"))
  /\ tail \in Seq(Messages) /\ \A i \in DOMAIN tail : tail[i].run <= run
  /\ calls \in [Runs -> Seq(Calls)] /\ \A r \in Runs : Len(calls[r]) <= MaxCalls

\* The transcript from the last message of the model on begins with that message.
AskedFirst == \A i \in DOMAIN tail : tail[i].role = "asked" => i = 1

\* While calls are prepared and executed nothing follows the message that made them.
InHand == at \in {"asking", "tools"} => tail = <<Msg(run, "asked", Len(calls[run]))>>

\* The calls of the message are answered, ...
Replied ==
  /\ Len(tail) >= 1 + tail[1].n
  /\ \A k \in 1 .. tail[1].n : tail[1 + k].role = "result" /\ tail[1 + k].n = k

\* ... or none of them, and then the run was stopped or is at it.
Unreplied ==
  /\ \A j \in DOMAIN tail : tail[j].role # "result"
  /\ tail[1].run < run \/ status \in {"aborted", "failed"} \/ at \in {"asking", "tools"}

OneOfThem == tail # << >> /\ tail[1].role = "asked" => Replied \/ Unreplied

LoopInv == CallTypes /\ AskedFirst /\ InHand /\ OneOfThem

\* The property follows.
LEMMA OneOfThemAnswers == LoopInv => CallsAnswered
<1> SUFFICES ASSUME LoopInv, NEW i \in DOMAIN tail, tail[i].role = "asked"
             PROVE  \/ /\ Len(tail) >= i + tail[i].n
                       /\ \A k \in 1 .. tail[i].n : tail[i + k].role = "result" /\ tail[i + k].n = k
                    \/ \A j \in DOMAIN tail : tail[j].role # "result"
                       /\ \/ tail[i].run < run \/ status \in {"aborted", "failed"}
                          \/ at \in {"asking", "tools"} /\ i = Len(tail)
  BY DEF CallsAnswered
<1>1. i = 1 /\ tail # << >>
  BY DEF LoopInv, AskedFirst
<1>2. at \in {"asking", "tools"} => Len(tail) = 1
  BY DEF LoopInv, InHand
<1> QED BY <1>1, <1>2 DEF LoopInv, OneOfThem, Replied, Unreplied

\* Messages that count nothing count 0.
LEMMA Messages0 == ASSUME NEW r \in Runs, NEW role \in Roles PROVE Msg(r, role, 0) \in Messages
<1>1. 0 \in 0 .. MaxCalls
  BY ConstantsAssumption
<1> QED BY <1>1 DEF Msg, Messages

\* A sequence that is mapped keeps its length.
LEMMA MappedSeq ==
  ASSUME NEW S, NEW T, NEW s \in Seq(S), NEW f, DOMAIN f = DOMAIN s,
         f \in [DOMAIN s -> T]
  PROVE  f \in Seq(T) /\ Len(f) = Len(s)
<1>1. Len(s) \in Nat /\ DOMAIN s = 1 .. Len(s)
  BY LenProperties
<1>2. f \in Seq(T)
  BY <1>1, SeqDef
<1>3. Len(f) \in Nat /\ DOMAIN f = 1 .. Len(f)
  BY <1>2, LenProperties
<1> QED BY <1>1, <1>2, <1>3

\* A call that is launched is a call.
LEMMA LaunchesCalls ==
  ASSUME NEW cs \in Seq(Calls), NEW i \in DOMAIN cs
  PROVE  cs[i] \in Calls /\ Launch(cs[i]) \in Calls
<1>1. cs[i] \in Calls
  BY LenProperties, ElementOfSeq
<1>2. ASSUME NEW c \in Calls PROVE Launch(c) \in Calls
  BY DEF Launch, Calls, Steps
<1> QED BY <1>1, <1>2

\* What the pool does to the calls keeps their number.
LEMMA FillKeepsCalls ==
  ASSUME NEW cs \in Seq(Calls), NEW k
  PROVE  Fill(cs, k) \in Seq(Calls) /\ Len(Fill(cs, k)) = Len(cs)
<1>1. \A i \in DOMAIN cs : cs[i] \in Calls /\ Launch(cs[i]) \in Calls
  BY LaunchesCalls
<1>2. Fill(cs, k) \in [DOMAIN cs -> Calls]
  BY <1>1 DEF Fill
<1> QED BY <1>2, MappedSeq

\* A call is given a new state.
LEMMA SetCall ==
  ASSUME NEW cs \in Seq(Calls), NEW i, NEW st \in Steps
  PROVE  [cs EXCEPT ![i].st = st] \in Seq(Calls) /\ Len([cs EXCEPT ![i].st = st]) = Len(cs)
<1> DEFINE ds == [cs EXCEPT ![i].st = st]
<1>1. \A j \in DOMAIN cs : cs[j] \in Calls
  BY LaunchesCalls
<1>2. ASSUME NEW c \in Calls PROVE [c EXCEPT !.st = st] \in Calls
  BY DEF Calls
<1>3. ASSUME NEW j \in DOMAIN cs PROVE ds[j] \in Calls
  <2>1. CASE j = i
    <3>1. ds[j] = [cs[j] EXCEPT !.st = st]
      BY <2>1
    <3> QED BY <1>1, <1>2, <3>1
  <2>2. CASE j # i
    BY <1>1, <2>2
  <2> QED BY <2>1, <2>2
<1>4. ds \in [DOMAIN cs -> Calls]
  <2>1. ds = [j \in DOMAIN cs |-> ds[j]]
    BY LenProperties
  <2> QED BY <1>3, <2>1
<1> HIDE DEF ds
<1>5. ds \in Seq(Calls) /\ Len(ds) = Len(cs)
  BY <1>4, MappedSeq
<1> QED BY <1>5 DEF ds

\* The calls start.
LEMMA LaunchedKeepsCalls ==
  ASSUME NEW cs \in Seq(Calls)
  PROVE  Launched(cs) \in Seq(Calls) /\ Len(Launched(cs)) = Len(cs)
<1> DEFINE first == [i \in DOMAIN cs |-> IF SelfGated(cs[i]) THEN Launch(cs[i]) ELSE cs[i]]
<1>1. \A i \in DOMAIN cs : cs[i] \in Calls /\ Launch(cs[i]) \in Calls
  BY LaunchesCalls
<1>2. first \in [DOMAIN cs -> Calls]
  BY <1>1
<1> HIDE DEF first
<1>3. first \in Seq(Calls) /\ Len(first) = Len(cs)
  BY <1>2, MappedSeq
<1> QED BY <1>3, FillKeepsCalls DEF Launched, first

-----------------------------------------------------------------------------
(* Kinds of steps.                                                         *)

\* Nothing is said and the loop stays where it is.
LEMMA AsideKeeps ==
  ASSUME LoopInv, UNCHANGED <<run, status, at, tail>>, calls' \in [Runs -> Seq(Calls)],
         \A r \in Runs : Len(calls'[r]) = Len(calls[r])
  PROVE  LoopInv'
<1>1. at # "rest" => run \in Runs
  BY DEF LoopInv, CallTypes
<1> QED BY <1>1 DEF LoopInv, CallTypes, AskedFirst, InHand, OneOfThem, Replied, Unreplied

\* What the loop says when it has no calls in hand.
Spoken(t) ==
  \/ t = tail
  \/ \E role \in {"user", "steer", "note"} : t = Append(tail, Msg(run, role, 0))
  \/ t = Said \/ t = Append(Said, Msg(run, "note", 0))

\* A note follows, unless one has been said.
LEMMA NoteSpeaks == Spoken(Note(tail)) /\ Spoken(Note(Said)) /\ Spoken(Said) /\ Spoken(tail)
<1>1. Note(tail) \in {tail, Append(tail, Msg(run, "note", 0))}
  BY DEF Note
<1>2. Last(Said) = Msg(run, "said", 0)
  BY DEF Last, Said
<1>3. Note(Said) \in {Said, Append(Said, Msg(run, "note", 0))}
  BY DEF Note
<1> QED BY <1>1, <1>3 DEF Spoken

\* A second message follows the first.
LEMMA SecondFollows ==
  ASSUME NEW S, NEW s \in Seq(S), Len(s) = 1, NEW m \in S, NEW t, t = Append(s, m)
  PROVE  t \in Seq(S) /\ Len(t) = 2 /\ t[2] = m /\ t[1] = s[1]
<1>1. t \in Seq(S) /\ Len(t) = Len(s) + 1 /\ t[Len(s) + 1] = m
  BY AppendProperties
<1>2. \A i \in 1 .. Len(s) : t[i] = s[i]
  BY AppendProperties
<1> QED BY <1>1, <1>2

\* The loop says something, or nothing, and has no calls in hand.
LEMMA SpokenKeeps ==
  ASSUME LoopInv, at \notin {"rest", "asking", "tools"}, UNCHANGED <<run, calls>>, Spoken(tail'),
         at' \notin {"asking", "tools"}, status' \in Statuses,
         (status' = "running") <=> (at' # "rest")
  PROVE  LoopInv'
<1>1. /\ run \in Runs /\ run \in Nat /\ tail \in Seq(Messages)
      /\ \A i \in DOMAIN tail : tail[i].run <= run
  BY ConstantsAssumption DEF LoopInv, CallTypes, Runs
<1>2. \A role \in Roles : Msg(run, role, 0) \in Messages
  BY <1>1, Messages0
<1>3. CASE tail' = tail
  BY <1>1, <1>3 DEF LoopInv, CallTypes, AskedFirst, InHand, OneOfThem, Replied, Unreplied
<1>4. ASSUME NEW role \in {"user", "steer", "note"}, tail' = Append(tail, Msg(run, role, 0))
      PROVE  LoopInv'
  <2>1. /\ tail' \in Seq(Messages) /\ Len(tail') = Len(tail) + 1 /\ Len(tail) \in Nat
        /\ tail'[Len(tail) + 1] = Msg(run, role, 0)
        /\ \A i \in 1 .. Len(tail) : tail'[i] = tail[i]
    BY <1>1, <1>2, <1>4, LenProperties DEF Roles
  <2>2. DOMAIN tail' = 1 .. Len(tail) + 1 /\ DOMAIN tail = 1 .. Len(tail)
    BY <1>1, <2>1, LenProperties
  <2>3. Msg(run, role, 0).role = role /\ Msg(run, role, 0).run = run
    BY DEF Msg
  <2>4. CallTypes'
    <3>1. \A i \in DOMAIN tail' : tail'[i].run <= run
      BY <1>1, <2>1, <2>2, <2>3
    <3> QED BY <1>1, <2>1, <3>1 DEF LoopInv, CallTypes
  <2>5. AskedFirst' /\ InHand'
    BY <2>1, <2>2, <2>3 DEF LoopInv, AskedFirst, InHand
  <2>6. OneOfThem'
    <3> SUFFICES ASSUME tail'[1].role = "asked" PROVE Replied' \/ Unreplied'
      BY DEF OneOfThem
    <3>1. Len(tail) >= 1 /\ tail'[1] = tail[1] /\ tail # << >>
      BY <2>1, <2>2, <2>3
    <3>2. tail[1] \in Messages /\ tail[1].n \in Nat
      <4>1. 1 \in 1 .. Len(tail)
        BY <2>1, <3>1
      <4>2. tail[1] \in Messages
        BY <1>1, <4>1, ElementOfSeq
      <4> QED BY <4>2 DEF Messages
    <3>3. CASE Replied
      <4>1. \A k \in 1 .. tail[1].n : 1 + k \in 1 .. Len(tail)
        BY <2>1, <3>2, <3>3 DEF Replied
      <4> QED BY <2>1, <3>1, <3>2, <3>3, <4>1 DEF Replied
    <3>4. CASE Unreplied
      <4>1. tail[1].run < run \/ status' \in {"aborted", "failed"}
        BY <3>4 DEF Unreplied, LoopInv, CallTypes
      <4> QED BY <2>1, <2>2, <2>3, <3>1, <3>4, <4>1 DEF Unreplied
    <3> QED BY <3>1, <3>3, <3>4 DEF LoopInv, OneOfThem
  <2> QED BY <2>4, <2>5, <2>6 DEF LoopInv
<1>5. CASE tail' = Said \/ tail' = Append(Said, Msg(run, "note", 0))
  <2>1. Said \in Seq(Messages) /\ Len(Said) = 1 /\ Said[1] = Msg(run, "said", 0)
    BY <1>2 DEF Said, Roles
  <2>2. /\ tail' \in Seq(Messages) /\ Len(tail') \in {1, 2}
        /\ \A i \in 1 .. Len(tail') : tail'[i] \in {Msg(run, "said", 0), Msg(run, "note", 0)}
    <3>1. CASE tail' = Said
      <4>1. tail' \in Seq(Messages) /\ Len(tail') = 1 /\ tail'[1] = Msg(run, "said", 0)
        BY <2>1, <3>1
      <4> QED BY <4>1
    <3>2. CASE tail' = Append(Said, Msg(run, "note", 0))
      <4>1. Msg(run, "note", 0) \in Messages
        BY <1>2 DEF Roles
      <4>2. /\ tail' \in Seq(Messages) /\ Len(tail') = 2
            /\ tail'[2] = Msg(run, "note", 0) /\ tail'[1] = Said[1]
        BY <2>1, <3>2, <4>1, SecondFollows
      <4> QED BY <2>1, <4>2
    <3> QED BY <1>5, <3>1, <3>2
  <2>3. DOMAIN tail' = 1 .. Len(tail')
    BY <2>2, LenProperties
  <2>4. \A i \in DOMAIN tail' : tail'[i].role # "asked" /\ tail'[i].run = run
    BY <2>2, <2>3 DEF Msg
  <2>5. tail'[1].role # "asked"
    <3>1. 1 \in DOMAIN tail'
      BY <2>2, <2>3
    <3> QED BY <2>4, <3>1
  <2> QED BY <1>1, <2>2, <2>4, <2>5 DEF LoopInv, CallTypes, AskedFirst, InHand, OneOfThem
<1> QED BY <1>3, <1>4, <1>5 DEF Spoken

\* The run is stopped while calls are in hand.
LEMMA StopKeeps ==
  ASSUME LoopInv, at # "rest", UNCHANGED <<run, tail>>, calls' \in [Runs -> Seq(Calls)],
         \A r \in Runs : Len(calls'[r]) <= MaxCalls,
         at' = "rest", status' \in {"aborted", "failed"}
  PROVE  LoopInv'
BY DEF LoopInv, CallTypes, AskedFirst, InHand, OneOfThem, Replied, Unreplied, Statuses

-----------------------------------------------------------------------------
(* The actions of the loop that have to do with calls.                     *)

\* A new run: what is left of the one before is of an earlier run.
LEMMA StartKeeps == ASSUME LoopInv, StartRun PROVE LoopInv'
<1> USE DEF tools
<1>1. /\ run \in Nat /\ run' = run + 1 /\ run' \in Runs /\ MaxRuns \in Nat
      /\ UNCHANGED <<tail, calls>> /\ at' = "starting" /\ status' = "running"
  <2>1. run \in 0 .. MaxRuns /\ run < MaxRuns /\ run' = run + 1
    BY DEF StartRun, LoopInv, CallTypes
  <2>2. MaxRuns \in Nat
    BY ConstantsAssumption
  <2>3. run \in Nat /\ run' \in Runs
    BY <2>1, <2>2 DEF Runs
  <2> QED BY <2>1, <2>2, <2>3 DEF StartRun
<1>2. \A i \in DOMAIN tail : tail[i].run \in Nat /\ tail[i].run < run'
  <2>1. \A i \in DOMAIN tail : tail[i] \in Messages
    BY LenProperties, ElementOfSeq DEF LoopInv, CallTypes
  <2> QED BY <1>1, <2>1 DEF LoopInv, CallTypes, Messages, Runs
<1>3. CallTypes'
  BY <1>1, <1>2 DEF LoopInv, CallTypes, Statuses, Runs
<1>4. tail # << >> => 1 \in DOMAIN tail
  BY DEF LoopInv, CallTypes
<1>5. OneOfThem'
  BY <1>1, <1>2, <1>4 DEF LoopInv, OneOfThem, Replied, Unreplied
<1> QED BY <1>1, <1>3, <1>5 DEF LoopInv, AskedFirst, InHand

\* The model calls tools.
LEMMA ToolTurnKeeps ==
  ASSUME LoopInv, NEW k \in 1 .. MaxCalls, NEW kinds \in [1 .. k -> Kinds], ToolTurn(kinds)
  PROVE  LoopInv'
<1> DEFINE cs == [i \in DOMAIN kinds |-> [kind |-> kinds[i], st |-> "asked"]]
<1>1. kinds \in Seq(Kinds) /\ Len(kinds) \in Nat
  <2>1. k \in Nat
    BY ConstantsAssumption
  <2> QED BY <2>1, SeqDef, LenProperties
<1>2. cs \in [DOMAIN kinds -> Calls]
  BY DEF Calls, Steps
<1>3. cs \in Seq(Calls) /\ Len(cs) = Len(kinds)
  <2> HIDE DEF cs
  <2> QED BY <1>1, <1>2, MappedSeq DEF cs
<1>4. /\ at = "stream" /\ at' = "asking" /\ UNCHANGED <<run, status>>
      /\ tail' = <<Msg(run, "asked", Len(kinds))>> /\ calls' = [calls EXCEPT ![run] = cs]
  BY DEF ToolTurn, Answered, Goto, Record
<1> HIDE DEF cs
<1>5. run \in Runs /\ calls \in [Runs -> Seq(Calls)] /\ status = "running"
  BY <1>4 DEF LoopInv, CallTypes
<1>6. /\ calls' \in [Runs -> Seq(Calls)] /\ calls'[run] = cs
      /\ \A r \in Runs : Len(calls'[r]) <= MaxCalls
  <2>1. Len(kinds) <= MaxCalls
    BY <1>1, LenProperties, ConstantsAssumption
  <2>2. \A r \in Runs : Len(calls[r]) <= MaxCalls
    BY DEF LoopInv, CallTypes
  <2>3. \A r \in Runs : calls'[r] = IF r = run THEN cs ELSE calls[r]
    BY <1>4, <1>5
  <2>4. calls' \in [Runs -> Seq(Calls)]
    BY <1>3, <1>4, <1>5
  <2> QED BY <1>3, <1>5, <2>1, <2>2, <2>3, <2>4
<1>7. Msg(run, "asked", Len(kinds)) \in Messages /\ Msg(run, "asked", Len(kinds)).role = "asked"
      /\ Msg(run, "asked", Len(kinds)).run = run
  BY <1>1, <1>5 DEF Msg, Messages, Roles
<1>8. tail' \in Seq(Messages) /\ Len(tail') = 1 /\ tail'[1] = Msg(run, "asked", Len(kinds))
      /\ DOMAIN tail' = {1}
  BY <1>4, <1>7
<1>9. run <= run /\ run \in 0 .. MaxRuns
  BY <1>5, ConstantsAssumption DEF Runs
<1>10. CallTypes'
  BY <1>4, <1>5, <1>6, <1>7, <1>8, <1>9 DEF CallTypes, Statuses
<1>11. AskedFirst' /\ OneOfThem'
  BY <1>4, <1>7, <1>8 DEF AskedFirst, OneOfThem, Unreplied
<1>12. InHand'
  BY <1>3, <1>4, <1>6 DEF InHand
<1> QED BY <1>10, <1>11, <1>12 DEF LoopInv

\* One call is prepared, or the last: then all start.
LEMMA PrepareCallKeeps == ASSUME LoopInv, PrepareCall PROVE LoopInv'
<1> DEFINE i == CHOOSE j \in DOMAIN calls[run] :
                  /\ calls[run][j].st = "asked"
                  /\ \A k \in 1 .. j - 1 : calls[run][k].st # "asked"
<1>1. /\ at = "asking" /\ run \in Runs /\ calls \in [Runs -> Seq(Calls)] /\ UNCHANGED <<run, tail>>
      /\ status = "running" /\ tail = <<Msg(run, "asked", Len(calls[run]))>>
  BY DEF PrepareCall, LoopInv, CallTypes, InHand
<1>2. CASE Throw(TRUE) /\ calls' = [calls EXCEPT ![run] = << >>]
  <2>1. calls' \in [Runs -> Seq(Calls)]
    BY <1>1, <1>2
  <2>2. \A r \in Runs : Len(calls'[r]) <= MaxCalls
    <3>1. \A r \in Runs : Len(calls[r]) <= MaxCalls
      BY DEF LoopInv, CallTypes
    <3>2. \A r \in Runs : calls'[r] = IF r = run THEN << >> ELSE calls[r]
      BY <1>1, <1>2
    <3>3. Len(<< >>) <= MaxCalls
      BY ConstantsAssumption
    <3> QED BY <3>1, <3>2, <3>3
  <2> QED BY <1>1, <1>2, <2>1, <2>2, StopKeeps DEF Throw
<1>3. ASSUME LET cs == [calls[run] EXCEPT ![i].st = "ready"]
             IN  \/ Goto("asking", turn) /\ calls' = [calls EXCEPT ![run] = cs]
                 \/ Goto("tools", turn) /\ calls' = [calls EXCEPT ![run] = Launched(cs)]
      PROVE  LoopInv'
  <2> DEFINE cs == [calls[run] EXCEPT ![i].st = "ready"]
  <2>1. cs \in Seq(Calls) /\ Len(cs) = Len(calls[run])
    <3> HIDE DEF i
    <3>1. calls[run] \in Seq(Calls) /\ "ready" \in Steps
      BY <1>1 DEF Steps
    <3> QED BY ONLY <3>1, SetCall
  <2>2. Launched(cs) \in Seq(Calls) /\ Len(Launched(cs)) = Len(cs)
    <3> HIDE DEF cs
    <3> QED BY <2>1, LaunchedKeepsCalls
  <2>3. /\ calls' = [calls EXCEPT ![run] = cs] \/ calls' = [calls EXCEPT ![run] = Launched(cs)]
        /\ at' \in {"asking", "tools"} /\ status' = status
    BY <1>3 DEF Goto
  <2> HIDE DEF cs
  <2>4. /\ calls' \in [Runs -> Seq(Calls)]
        /\ \A r \in Runs : Len(calls'[r]) = Len(calls[r])
    <3>1. /\ \A r \in Runs \ {run} : calls'[r] = calls[r]
          /\ calls'[run] = cs \/ calls'[run] = Launched(cs)
      BY <1>1, <2>3
    <3>2. calls' \in [Runs -> Seq(Calls)]
      BY <1>1, <2>1, <2>2, <2>3
    <3> QED BY <2>1, <2>2, <3>1, <3>2
  <2> QED BY <1>1, <2>3, <2>4
          DEF LoopInv, CallTypes, AskedFirst, InHand, OneOfThem, Replied, Unreplied
<1> HIDE DEF i
<1>4. \/ Throw(TRUE) /\ calls' = [calls EXCEPT ![run] = << >>]
      \/ LET cs == [calls[run] EXCEPT ![i].st = "ready"]
         IN  \/ Goto("asking", turn) /\ calls' = [calls EXCEPT ![run] = cs]
             \/ Goto("tools", turn) /\ calls' = [calls EXCEPT ![run] = Launched(cs)]
  BY DEF PrepareCall, i
<1> QED BY <1>2, <1>3, <1>4

\* A call ends.
LEMMA FinishCallKeeps ==
  ASSUME LoopInv, NEW r \in Runs, NEW i \in DOMAIN calls[r], FinishCall(r, i)
  PROVE  LoopInv'
<1>0. PICK st \in {"ok", "err", "threw"} :
        \E k : calls' = [calls EXCEPT ![r] = Fill([calls[r] EXCEPT ![i].st = st], k)]
  BY DEF FinishCall
<1>1. PICK k : calls' = [calls EXCEPT ![r] = Fill([calls[r] EXCEPT ![i].st = st], k)]
  BY <1>0
<1> DEFINE cs == [calls[r] EXCEPT ![i].st = st]
<1>2. calls \in [Runs -> Seq(Calls)]
  BY DEF LoopInv, CallTypes
<1>3. cs \in Seq(Calls) /\ Len(cs) = Len(calls[r])
  <2>1. calls[r] \in Seq(Calls) /\ st \in Steps
    BY <1>2 DEF Steps
  <2> QED BY ONLY <2>1, SetCall
<1> HIDE DEF cs
<1>4. Fill(cs, k) \in Seq(Calls) /\ Len(Fill(cs, k)) = Len(calls[r])
  BY <1>3, FillKeepsCalls
<1>5. calls' \in [Runs -> Seq(Calls)] /\ \A q \in Runs : Len(calls'[q]) = Len(calls[q])
  BY <1>1, <1>2, <1>4 DEF cs
<1>6. UNCHANGED <<run, status, at, tail>>
  BY DEF FinishCall
<1> QED BY <1>5, <1>6, AsideKeeps

\* All results are there.
LEMMA CollectKeeps == ASSUME LoopInv, NEW boundary \in BOOLEAN, Collect(boundary) PROVE LoopInv'
<1> DEFINE n == Len(calls[run])
<1>1. /\ at = "tools" /\ run \in Runs /\ run \in Nat /\ calls \in [Runs -> Seq(Calls)]
      /\ status = "running" /\ tail = <<Msg(run, "asked", n)>> /\ n \in Nat
  <2>1. at = "tools"
    BY DEF Collect
  <2>2. run \in Runs /\ calls \in [Runs -> Seq(Calls)] /\ status = "running"
    BY <2>1 DEF LoopInv, CallTypes
  <2>3. run \in Nat
    BY <2>2, ConstantsAssumption DEF Runs
  <2> QED BY <2>1, <2>2, <2>3, LenProperties DEF LoopInv, InHand
<1> HIDE DEF n
<1>2. PICK context \in {<< >>, <<Msg(run, "note", 0)>>} :
        /\ tail' \in {tail \o Results(n, context), Note(tail \o Results(n, context))}
        /\ Throw(FALSE) \/ GoOn \/ Finish
  BY DEF Collect, n
<1> DEFINE rs == [i \in 1 .. n |-> Msg(run, "result", i)]
<1>3. /\ rs \in Seq(Messages) /\ Len(rs) = n
      /\ \A i \in 1 .. n : rs[i] = Msg(run, "result", i)
  <2>1. rs \in [1 .. n -> Messages]
    <3>1. n <= MaxCalls
      BY <1>1 DEF LoopInv, CallTypes, n
    <3>2. \A i \in 1 .. n : i \in 0 .. MaxCalls
      <4>1. MaxCalls \in Nat
        BY ConstantsAssumption
      <4> QED BY <1>1, <3>1, <4>1
    <3> QED BY <1>1, <3>2 DEF Msg, Messages, Roles
  <2>2. DOMAIN rs = 1 .. n
    OBVIOUS
  <2> HIDE DEF rs
  <2>3. rs \in Seq(Messages)
    BY <1>1, <2>1, SeqDef
  <2>4. Len(rs) \in Nat /\ DOMAIN rs = 1 .. Len(rs)
    BY <2>3, LenProperties
  <2>5. Len(rs) = n
    BY <1>1, <2>2, <2>4
  <2>6. \A i \in 1 .. n : rs[i] = Msg(run, "result", i)
    BY DEF rs
  <2> QED BY <2>3, <2>5, <2>6
<1> HIDE DEF rs
<1>4. /\ context \in Seq(Messages) /\ Len(context) \in {0, 1}
      /\ \A i \in 1 .. Len(context) : context[i] = Msg(run, "note", 0)
  <2>1. Msg(run, "note", 0) \in Messages
    BY <1>1, Messages0 DEF Roles
  <2>2. CASE context = << >>
    BY <2>2, EmptySeq
  <2>3. CASE context = <<Msg(run, "note", 0)>>
    BY <2>1, <2>3
  <2> QED BY <2>2, <2>3
<1> DEFINE rc == rs \o context
           t == tail \o rc
<1>5. /\ rc \in Seq(Messages) /\ Len(rc) \in {n, n + 1}
      /\ \A i \in 1 .. n : rc[i] = Msg(run, "result", i)
      /\ \A i \in 1 .. Len(rc) : i > n => rc[i] = Msg(run, "note", 0)
  <2>1. /\ rc \in Seq(Messages) /\ Len(rc) = n + Len(context)
        /\ \A i \in 1 .. n + Len(context) : rc[i] = IF i <= n THEN rs[i] ELSE context[i - n]
    <3>1. rs \in Seq(Messages) /\ context \in Seq(Messages) /\ Len(rs) = n
      BY <1>3, <1>4
    <3> QED BY ONLY <3>1, ConcatProperties
  <2> HIDE DEF rc
  <2>2. Len(rc) \in {n, n + 1}
    BY <1>1, <1>4, <2>1
  <2>3. \A i \in 1 .. n : rc[i] = Msg(run, "result", i)
    BY <1>1, <1>3, <1>4, <2>1
  <2>4. ASSUME NEW i \in 1 .. Len(rc), i > n PROVE rc[i] = Msg(run, "note", 0)
    <3>1. i - n \in 1 .. Len(context)
      BY <1>1, <1>4, <2>1, <2>4
    <3> QED BY <1>1, <1>4, <2>1, <2>4, <3>1
  <2> QED BY <2>1, <2>2, <2>3, <2>4
<1>6. tail \in Seq(Messages) /\ Len(tail) = 1 /\ tail[1] = Msg(run, "asked", n)
  <2>1. tail \in Seq(Messages)
    BY DEF LoopInv, CallTypes
  <2> QED BY <1>1, <2>1
<1> HIDE DEF rc
<1>7. /\ t \in Seq(Messages) /\ Len(t) = 1 + Len(rc)
      /\ t[1] = Msg(run, "asked", n)
      /\ \A i \in 1 .. Len(rc) : t[1 + i] = rc[i]
  <2>1. /\ t \in Seq(Messages) /\ Len(t) = 1 + Len(rc)
        /\ \A i \in 1 .. 1 + Len(rc) : t[i] = IF i <= 1 THEN tail[1] ELSE rc[i - 1]
    <3>1. tail \in Seq(Messages) /\ rc \in Seq(Messages) /\ Len(tail) = 1
      BY <1>5, <1>6
    <3> HIDE DEF t
    <3>2. t = tail \o rc
      BY DEF t
    <3>3. /\ tail \o rc \in Seq(Messages) /\ Len(tail \o rc) = Len(tail) + Len(rc)
          /\ \A i \in 1 .. Len(tail) + Len(rc) :
               (tail \o rc)[i] = IF i <= Len(tail) THEN tail[i] ELSE rc[i - Len(tail)]
      BY ONLY <3>1, ConcatProperties
    <3> QED BY ONLY <3>1, <3>2, <3>3
  <2>2. Len(rc) \in Nat
    BY <1>5, LenProperties
  <2> HIDE DEF t
  <2> QED BY <1>6, <2>1, <2>2
<1> HIDE DEF t
\* What the transcript is now: the question, the results in order, notes.
<1>8. /\ tail' \in Seq(Messages) /\ Len(tail') \in Nat /\ Len(tail') >= 1 + n
      /\ tail'[1] = Msg(run, "asked", n)
      /\ \A i \in 1 .. n : tail'[1 + i] = Msg(run, "result", i)
      /\ \A i \in 1 .. Len(tail') : i > 1 + n => tail'[i] = Msg(run, "note", 0)
  <2>1. /\ t \in Seq(Messages) /\ Len(t) \in Nat /\ Len(t) >= 1 + n
        /\ t[1] = Msg(run, "asked", n)
        /\ \A i \in 1 .. n : t[1 + i] = Msg(run, "result", i)
        /\ \A i \in 1 .. Len(t) : i > 1 + n => t[i] = Msg(run, "note", 0)
    <3>1. Len(rc) \in Nat /\ Len(rc) >= n
      BY <1>1, <1>5
    <3>2. \A i \in 1 .. n : t[1 + i] = Msg(run, "result", i)
      BY <1>1, <1>5, <1>7, <3>1
    <3>3. ASSUME NEW i \in 1 .. Len(t), i > 1 + n PROVE t[i] = Msg(run, "note", 0)
      <4>1. i - 1 \in 1 .. Len(rc) /\ i - 1 > n /\ 1 + (i - 1) = i
        BY <1>1, <1>7, <3>1, <3>3
      <4> QED BY <1>5, <1>7, <4>1
    <3> QED BY <1>1, <1>7, <3>1, <3>2, <3>3
  <2>2. tail' \in {t, Append(t, Msg(run, "note", 0))}
    BY <1>2 DEF Note, Results, t, rc, rs
  <2>3. CASE tail' = t
    BY <2>1, <2>3
  <2>4. CASE tail' = Append(t, Msg(run, "note", 0))
    <3>1. Msg(run, "note", 0) \in Messages
      BY <1>1, Messages0 DEF Roles
    <3>2. /\ tail' \in Seq(Messages) /\ Len(tail') = Len(t) + 1
          /\ tail'[Len(t) + 1] = Msg(run, "note", 0)
          /\ \A i \in 1 .. Len(t) : tail'[i] = t[i]
      <4> DEFINE m == Msg(run, "note", 0)
      <4>1. m \in Messages /\ t \in Seq(Messages) /\ tail' = Append(t, m)
        BY <2>1, <2>4, <3>1
      <4> HIDE DEF m
      <4>2. /\ Append(t, m) \in Seq(Messages) /\ Len(Append(t, m)) = Len(t) + 1
            /\ Append(t, m)[Len(t) + 1] = m
            /\ \A i \in 1 .. Len(t) : Append(t, m)[i] = t[i]
        BY ONLY <4>1, AppendProperties
      <4> QED BY <4>1, <4>2 DEF m
    <3>3. 1 \in 1 .. Len(t) /\ \A i \in 1 .. n : 1 + i \in 1 .. Len(t)
      BY <1>1, <2>1
    <3>4. tail'[1] = Msg(run, "asked", n) /\ Len(tail') \in Nat /\ Len(tail') >= 1 + n
      BY <1>1, <2>1, <3>2, <3>3
    <3>5. \A i \in 1 .. n : tail'[1 + i] = Msg(run, "result", i)
      BY <2>1, <3>2, <3>3
    <3>6. ASSUME NEW i \in 1 .. Len(tail'), i > 1 + n PROVE tail'[i] = Msg(run, "note", 0)
      <4>1. i \in 1 .. Len(t) \/ i = Len(t) + 1
        BY <2>1, <3>2
      <4> QED BY <2>1, <3>2, <3>6, <4>1
    <3> QED BY <3>2, <3>4, <3>5, <3>6
  <2> QED BY <2>2, <2>3, <2>4
<1>9. DOMAIN tail' = 1 .. Len(tail')
  BY <1>8, LenProperties
<1>10. ASSUME NEW i \in DOMAIN tail' PROVE tail'[i].run = run /\ (tail'[i].role = "asked" => i = 1)
  <2>1. CASE i = 1
    BY <1>8, <2>1 DEF Msg
  <2>2. CASE i \in 2 .. 1 + n
    <3>1. i - 1 \in 1 .. n /\ 1 + (i - 1) = i
      BY <1>1, <2>2
    <3>2. tail'[i] = Msg(run, "result", i - 1)
      BY <1>8, <3>1
    <3> QED BY <3>2 DEF Msg
  <2>3. CASE i > 1 + n
    BY <1>8, <1>9, <2>3 DEF Msg
  <2> QED BY <1>1, <1>8, <1>9, <2>1, <2>2, <2>3
<1>11. /\ run' = run /\ calls' = [calls EXCEPT ![run] = << >>]
       /\ at' \in {"rest", "top"} /\ status' \in Statuses
       /\ ((status' = "running") <=> (at' # "rest"))
  BY <1>1, <1>2 DEF Collect, Throw, GoOn, Goto, Finish, Statuses
<1>12. CallTypes'
  <2>1. /\ calls' \in [Runs -> Seq(Calls)] /\ \A r \in Runs : Len(calls'[r]) <= MaxCalls
    <3>1. \A r \in Runs : Len(calls[r]) <= MaxCalls
      BY DEF LoopInv, CallTypes
    <3>2. \A r \in Runs : calls'[r] = IF r = run THEN << >> ELSE calls[r]
      BY <1>1, <1>11
    <3>3. Len(<< >>) <= MaxCalls
      BY ConstantsAssumption
    <3>4. calls' \in [Runs -> Seq(Calls)]
      BY <1>1, <1>11
    <3> QED BY <3>1, <3>2, <3>3, <3>4
  <2> QED BY <1>1, <1>8, <1>10, <1>11, <2>1 DEF CallTypes, LoopInv
<1>13. AskedFirst' /\ InHand'
  BY <1>10, <1>11 DEF AskedFirst, InHand
<1>14. OneOfThem'
  <2>1. tail'[1].n = n
    <3>1. Msg(run, "asked", n).n = n
      BY DEF Msg
    <3> QED BY <1>8, <3>1
  <2>2. \A k \in 1 .. n : tail'[1 + k].role = "result" /\ tail'[1 + k].n = k
    <3>1. \A k \in 1 .. n :
            Msg(run, "result", k).role = "result" /\ Msg(run, "result", k).n = k
      BY DEF Msg
    <3> QED BY <1>8, <3>1
  <2> QED BY <1>8, <2>1, <2>2 DEF OneOfThem, Replied
<1> QED BY <1>12, <1>13, <1>14 DEF LoopInv

\* One step per action.
LEMMA LoopKeeps == LoopInv /\ [Next]_vars => LoopInv'
<1> SUFFICES ASSUME LoopInv, [Next]_vars PROVE LoopInv'
  OBVIOUS
<1> USE DEF input, tools, budgets, config
<1>0. calls \in [Runs -> Seq(Calls)]
  BY DEF LoopInv, CallTypes
<1>a. status \in Statuses /\ ((status = "running") <=> (at # "rest"))
  BY DEF LoopInv, CallTypes
<1>1. CASE UNCHANGED vars
  BY <1>0, <1>1, AsideKeeps DEF vars
<1>2. CASE StartRun
  BY <1>2, StartKeeps
<1>3. CASE Abort \/ SendSteer
  BY <1>0, <1>3, AsideKeeps DEF Abort, SendSteer
<1>4. CASE ToolEnds
  BY <1>4, FinishCallKeeps DEF ToolEnds
<1>5. CASE HookStops
  BY <1>a, <1>5, SpokenKeeps, NoteSpeaks
     DEF HookStops, Goto, GoOn, Throw, Finish, Statuses, Record, Unrecorded, RecordedOrNot,
         Answered, Requesting, Spoken
<1>6. CASE Begin
  BY <1>a, <1>6, SpokenKeeps, NoteSpeaks
     DEF Begin, Goto, GoOn, Throw, Finish, Statuses, Record, Unrecorded, RecordedOrNot, Answered,
         Requesting, Spoken
<1>7. CASE TurnBegin
  BY <1>a, <1>7, SpokenKeeps, NoteSpeaks
     DEF TurnBegin, Goto, GoOn, Throw, Finish, Statuses, Record, Unrecorded, RecordedOrNot,
         Answered, Requesting, Spoken
<1>8. CASE Prepare
  BY <1>a, <1>8, SpokenKeeps, NoteSpeaks
     DEF Prepare, Goto, GoOn, Throw, Finish, Statuses, Record, Unrecorded, RecordedOrNot,
         Answered, Requesting, Spoken
<1>9. CASE OpenRequest
  BY <1>a, <1>9, SpokenKeeps, NoteSpeaks
     DEF OpenRequest, Goto, GoOn, Throw, Finish, Statuses, Record, Unrecorded, RecordedOrNot,
         Answered, Requesting, Spoken
<1>10. CASE LeaveStream
  BY <1>a, <1>10, SpokenKeeps, NoteSpeaks
     DEF LeaveStream, Goto, GoOn, Throw, Finish, Statuses, Record, Unrecorded, RecordedOrNot,
         Answered, Requesting, Spoken
<1>11. CASE Backoff
  BY <1>a, <1>11, SpokenKeeps, NoteSpeaks
     DEF Backoff, Goto, GoOn, Throw, Finish, Statuses, Record, Unrecorded, RecordedOrNot,
         Answered, Requesting, Spoken
<1>12. CASE PrepareCall
  BY <1>12, PrepareCallKeeps
<1>13. CASE ToolsStop
  BY <1>0, <1>13, StopKeeps DEF ToolsStop, Throw, LoopInv, CallTypes
<1>14. CASE Unparsable \/ Overflow \/ UnknownFinish
  BY <1>a, <1>14, SpokenKeeps, NoteSpeaks
     DEF Unparsable, Overflow, UnknownFinish, Goto, GoOn, Throw, Finish, Statuses, Record,
         Unrecorded, RecordedOrNot, Answered
<1>15. ASSUME NEW empty \in BOOLEAN, Truncated(empty) PROVE LoopInv'
  BY <1>a, <1>15, SpokenKeeps, NoteSpeaks
     DEF Truncated, Goto, GoOn, Throw, Finish, Statuses, Record, Unrecorded, RecordedOrNot,
         Answered
<1>16. ASSUME NEW retryable \in BOOLEAN, ProviderFails(retryable) PROVE LoopInv'
  BY <1>a, <1>16, SpokenKeeps, NoteSpeaks
     DEF ProviderFails, Goto, GoOn, Throw, Finish, Statuses, Record, Unrecorded, RecordedOrNot,
         Answered
<1>17. ASSUME NEW text \in Texts, SilentTurn(text) PROVE LoopInv'
  <2>1. /\ at = "stream" /\ UNCHANGED <<run, calls, status>> /\ at' = "closing" /\ tail' = Said
    BY <1>17 DEF SilentTurn, Answered, Goto, Record
  <2> QED BY <1>a, <2>1, SpokenKeeps, NoteSpeaks
<1>20. ASSUME NEW boundary \in BOOLEAN, Conclude(boundary) PROVE LoopInv'
  <2>1. at = "closing" /\ UNCHANGED <<run, calls>>
    BY <1>20 DEF Conclude
  <2>2. GoOn \/ Finish
    BY <1>20 DEF Conclude, ToldToGoOn
  <2>3. tail' \in {tail, Note(tail)}
    BY <1>20 DEF Conclude, ToldToGoOn
  <2> QED BY <1>a, <2>1, <2>2, <2>3, SpokenKeeps, NoteSpeaks DEF GoOn, Goto, Finish, Statuses
<1>18. ASSUME NEW k \in 1 .. MaxCalls, NEW kinds \in [1 .. k -> Kinds], ToolTurn(kinds)
      PROVE  LoopInv'
  BY <1>18, ToolTurnKeeps
<1>19. ASSUME NEW boundary \in BOOLEAN, Collect(boundary) PROVE LoopInv'
  BY <1>19, CollectKeeps
<1> QED
  BY <1>1, <1>2, <1>3, <1>4, <1>5, <1>6, <1>7, <1>8, <1>9, <1>10, <1>11, <1>12, <1>13, <1>14,
     <1>15, <1>16, <1>17, <1>18, <1>19, <1>20
     DEF Next, Execute, Answer

\* At first nothing has been called.
LEMMA InitLoop == Init => LoopInv
<1> SUFFICES ASSUME Init PROVE LoopInv
  OBVIOUS
<1>1. run = 0 /\ tail = << >> /\ status = "idle" /\ at = "rest" /\ calls = [r \in Runs |-> << >>]
  BY DEF Init
<1>2. 0 \in 0 .. MaxRuns
  BY ConstantsAssumption
<1>3. \A r \in Runs : calls[r] = << >> /\ Len(calls[r]) <= MaxCalls
  <2>1. Len(<< >>) <= MaxCalls
    BY ConstantsAssumption
  <2> QED BY <1>1, <2>1
<1>4. calls \in [Runs -> Seq(Calls)]
  BY <1>1
<1> QED BY <1>1, <1>2, <1>3, <1>4
        DEF LoopInv, CallTypes, AskedFirst, InHand, OneOfThem, Statuses

\* A turn's calls are followed by all their results, in the order of the calls, before anything
\* else is said, in whatever order the tools of however many workers end and whatever hooks,
\* reminders, retries and messages of the user come in between; only a run that was stopped
\* leaves calls without results, and then without any.
THEOREM EveryCallIsAnswered == Spec => []CallsAnswered
BY InitLoop, LoopKeeps, OneOfThemAnswers, PTL DEF Spec

-----------------------------------------------------------------------------
(* The pool.                                                               *)

\* The calls that its workers are at.
BusyIn(cs) == {i \in Pooled(cs) : Busy(cs[i])}
Waits(cs) == {i \in Pooled(cs) : cs[i].st = "ready"}

\* There are as many workers as are busy, and no more than were asked for.
PoolInv ==
  /\ bound \in Bounds
  /\ workers \in [Runs -> 0 .. bound]
  /\ \A r \in Runs : Cardinality(BusyIn(calls[r])) <= workers[r]

LEMMA CallSets ==
  ASSUME NEW cs \in Seq(Calls)
  PROVE  /\ DOMAIN cs = 1 .. Len(cs) /\ Len(cs) \in Nat
         /\ Pooled(cs) \subseteq DOMAIN cs /\ IsFiniteSet(DOMAIN cs)
         /\ IsFiniteSet(BusyIn(cs)) /\ Cardinality(BusyIn(cs)) \in Nat
<1>1. DOMAIN cs = 1 .. Len(cs) /\ Len(cs) \in Nat
  BY LenProperties
<1>2. IsFiniteSet(DOMAIN cs)
  BY <1>1, FS_Interval
<1>3. Pooled(cs) \subseteq DOMAIN cs /\ BusyIn(cs) \subseteq DOMAIN cs
  BY DEF Pooled, BusyIn
<1> QED BY <1>1, <1>2, <1>3, FS_Subset, FS_CardinalityType

\* No more than f of the elements of a set of numbers are among its first f.
LEMMA FirstOnes ==
  ASSUME NEW n \in Nat, NEW W \in SUBSET (1 .. n), NEW f \in Nat,
         NEW L, L = {i \in W : Cardinality({j \in W : j <= i}) <= f}
  PROVE  IsFiniteSet(L) /\ Cardinality(L) \in Nat /\ Cardinality(L) <= f
<1> DEFINE R(i) == Cardinality({j \in W : j <= i})
<1>1. IsFiniteSet(1 .. n)
  BY FS_Interval
<1>2. IsFiniteSet(L) /\ IsFiniteSet(W)
  BY <1>1, FS_Subset
<1>3. \A i \in W : i \in Nat
  OBVIOUS
<1>4. ASSUME NEW i \in W PROVE R(i) \in Nat /\ R(i) # 0 /\ IsFiniteSet({j \in W : j <= i})
  <2>1. PICK A : A = {j \in W : j <= i}
    OBVIOUS
  <2>2. A \in SUBSET W /\ i \in A
    BY <1>3, <2>1
  <2>3. IsFiniteSet(A) /\ Cardinality(A) \in Nat /\ Cardinality(A) # 0
    BY <1>2, <2>2, FS_Subset, FS_CardinalityType, FS_EmptySet
  <2> QED BY <2>1, <2>3
<1>5. ASSUME NEW i \in W, NEW k \in W, i < k PROVE R(i) # R(k)
  <2>1. PICK A, B : A = {j \in W : j <= i} /\ B = {j \in W : j <= k}
    OBVIOUS
  <2>2. A \subseteq B /\ k \in B /\ k \notin A
    <3>1. i \in Nat /\ k \in Nat /\ \A j \in W : j \in Nat
      BY <1>3
    <3>2. k <= k /\ ~(k <= i) /\ \A j \in W : j <= i => j <= k
      BY <1>5, <3>1
    <3> QED BY <2>1, <3>2
  <2>3. IsFiniteSet(B)
    BY <1>4, <2>1
  <2>4. Cardinality(B) # Cardinality(A)
    BY <2>2, <2>3, FS_Subset
  <2> QED BY <2>1, <2>4
<1>6. Cardinality(L) \in Nat
  BY <1>2, FS_CardinalityType
<1>7. ASSUME f < Cardinality(L) PROVE FALSE
  <2> DEFINE g == [i \in L |-> R(i)]
  <2>1. g \in [L -> 1 .. f]
    <3>1. \A i \in L : i \in W /\ R(i) <= f
      OBVIOUS
    <3> HIDE DEF R
    <3>2. \A i \in L : R(i) \in 1 .. f
      BY <1>4, <3>1
    <3> QED BY <3>2
  <2>2. IsFiniteSet(1 .. f) /\ Cardinality(1 .. f) = f
    BY FS_Interval
  <2>3. PICK I : I = 1 .. f
    OBVIOUS
  <2> HIDE DEF g
  <2>4. PICK x \in L, y \in L : x # y /\ g[x] = g[y]
    BY <1>2, <1>7, <2>1, <2>2, <2>3, FS_PigeonHole
  <2>5. R(x) = R(y) /\ x \in W /\ y \in W
    BY <2>4 DEF g
  <2>6. x < y \/ y < x
    BY <1>3, <2>4, <2>5
  <2> HIDE DEF R
  <2> QED BY <1>5, <2>5, <2>6
<1> QED BY <1>2, <1>6, <1>7

\* The free workers take no more calls than they are.
LEMMA FillBusy ==
  ASSUME NEW cs \in Seq(Calls), NEW k \in Nat, Cardinality(BusyIn(cs)) <= k
  PROVE  Cardinality(BusyIn(Fill(cs, k))) <= k
<1> DEFINE free == k - Cardinality(BusyIn(cs))
           L == {i \in Waits(cs) : Cardinality({j \in Waits(cs) : j <= i}) <= free}
           ds == Fill(cs, k)
<1>1. /\ DOMAIN cs = 1 .. Len(cs) /\ Len(cs) \in Nat /\ Pooled(cs) \subseteq DOMAIN cs
      /\ IsFiniteSet(BusyIn(cs)) /\ Cardinality(BusyIn(cs)) \in Nat
  BY CallSets
<1>2. free \in Nat /\ Waits(cs) \subseteq 1 .. Len(cs)
  BY <1>1 DEF Waits
<1>3. IsFiniteSet(L) /\ Cardinality(L) \in Nat /\ Cardinality(L) <= free
  <2>1. PICK W, f, M : W = Waits(cs) /\ f = free /\ M = L
    OBVIOUS
  <2>2. M = {i \in W : Cardinality({j \in W : j <= i}) <= f}
    BY <2>1
  <2>3. f \in Nat /\ W \in SUBSET (1 .. Len(cs)) /\ Len(cs) \in Nat
    BY <1>1, <1>2, <2>1
  <2>4. IsFiniteSet(M) /\ Cardinality(M) \in Nat /\ Cardinality(M) <= f
    BY ONLY <2>2, <2>3, FirstOnes
  <2> HIDE DEF L, free
  <2> QED BY <2>1, <2>4
<1>4. ds = [i \in DOMAIN cs |-> IF i \in L THEN Launch(cs[i]) ELSE cs[i]]
  BY DEF Fill, Waits, BusyIn
<1> HIDE DEF L, ds
<1>5. ASSUME NEW i \in DOMAIN cs
      PROVE  /\ i \in DOMAIN ds /\ (i \in Pooled(ds) <=> i \in Pooled(cs))
             /\ Busy(ds[i]) => Busy(cs[i]) \/ i \in L
  <2>1. cs[i] \in Calls /\ ds[i] = IF i \in L THEN Launch(cs[i]) ELSE cs[i]
    BY <1>4, LaunchesCalls
  <2>2. ds[i].kind = cs[i].kind
    BY <2>1 DEF Launch, Calls
  <2>3. i \in DOMAIN ds
    BY <1>4
  <2> QED BY <2>1, <2>2, <2>3 DEF Pooled, SelfGated
<1>6. BusyIn(ds) \subseteq BusyIn(cs) \cup L
  <2>1. DOMAIN ds = DOMAIN cs
    BY <1>4
  <2> QED BY <1>5, <2>1 DEF BusyIn, Pooled
<1>7. PICK B, D : B = BusyIn(cs) /\ D = BusyIn(ds)
  OBVIOUS
<1>8. IsFiniteSet(B \cup L) /\ Cardinality(B \cup L) <= Cardinality(B) + Cardinality(L)
  <2>1. IsFiniteSet(B) /\ IsFiniteSet(L) /\ Cardinality(B) \in Nat /\ Cardinality(L) \in Nat
    BY <1>1, <1>3, <1>7
  <2>2. /\ IsFiniteSet(B \cup L)
        /\ Cardinality(B \cup L) = Cardinality(B) + Cardinality(L) - Cardinality(B \cap L)
    BY <2>1, FS_Union
  <2>3. Cardinality(B \cap L) \in Nat
    BY <2>1, FS_Intersection, FS_CardinalityType
  <2>4. PICK b, l, m, u : /\ b = Cardinality(B) /\ l = Cardinality(L)
                          /\ m = Cardinality(B \cap L) /\ u = Cardinality(B \cup L)
    OBVIOUS
  <2>5. u <= b + l
    BY <2>1, <2>2, <2>3, <2>4
  <2> QED BY <2>2, <2>4, <2>5
<1>9. IsFiniteSet(D) /\ Cardinality(D) \in Nat /\ Cardinality(D) <= Cardinality(B \cup L)
  BY <1>6, <1>7, <1>8, FS_Subset, FS_CardinalityType
<1>10. Cardinality(B \cup L) \in Nat
  BY <1>8, FS_CardinalityType
<1>11. Cardinality(D) <= k
  <2>1. Cardinality(B) = k - free /\ Cardinality(B) \in Nat
    BY <1>1, <1>7
  <2> HIDE DEF free
  <2> QED BY <1>2, <1>3, <1>8, <1>9, <1>10, <2>1
<1> QED BY <1>7, <1>11 DEF ds

\* A call that is not executed, or not any more.
LEMMA SetCallBusy ==
  ASSUME NEW cs \in Seq(Calls), NEW i, NEW st \in Steps \ {"running"},
         NEW ds, ds = [cs EXCEPT ![i].st = st]
  PROVE  /\ BusyIn(ds) \subseteq BusyIn(cs) \ {i} /\ Pooled(ds) = Pooled(cs)
         /\ Cardinality(BusyIn(ds)) \in Nat
         /\ Cardinality(BusyIn(ds)) <= Cardinality(BusyIn(cs))
         /\ i \in BusyIn(cs) => Cardinality(BusyIn(ds)) <= Cardinality(BusyIn(cs)) - 1
<1>1. DOMAIN ds = DOMAIN cs /\ \A j \in DOMAIN cs : cs[j] \in Calls
  BY LaunchesCalls
<1>2. ASSUME NEW j \in DOMAIN cs
      PROVE  ds[j].kind = cs[j].kind /\ ds[j].st = IF j = i THEN st ELSE cs[j].st
  <2>1. cs[j] \in Calls
    BY <1>1
  <2>2. ds[j] = IF j = i THEN [cs[j] EXCEPT !.st = st] ELSE cs[j]
    OBVIOUS
  <2> QED BY <2>1, <2>2 DEF Calls
<1>3. Pooled(ds) = Pooled(cs)
  BY <1>1, <1>2 DEF Pooled, SelfGated
<1>4. BusyIn(ds) \subseteq BusyIn(cs) \ {i}
  BY <1>1, <1>2, <1>3 DEF BusyIn, Busy, Pooled
<1>5. PICK B, D : B = BusyIn(cs) /\ D = BusyIn(ds)
  OBVIOUS
<1>6. IsFiniteSet(B) /\ Cardinality(B) \in Nat
  BY <1>5, CallSets
<1>7. IsFiniteSet(D) /\ Cardinality(D) \in Nat /\ Cardinality(D) <= Cardinality(B)
  <2>1. D \in SUBSET B
    BY <1>4, <1>5
  <2> QED BY <1>6, <2>1, FS_Subset, FS_CardinalityType
<1>8. ASSUME i \in B PROVE Cardinality(D) <= Cardinality(B) - 1
  <2>1. IsFiniteSet(B \ {i}) /\ Cardinality(B \ {i}) = Cardinality(B) - 1
    BY <1>6, <1>8, FS_RemoveElement
  <2>2. D \in SUBSET (B \ {i})
    BY <1>4, <1>5
  <2>3. Cardinality(D) <= Cardinality(B \ {i})
    BY <2>1, <2>2, FS_Subset
  <2> QED BY <2>1, <2>3
<1> QED BY <1>3, <1>4, <1>5, <1>7, <1>8

SetTo(cs, i, st) == [cs EXCEPT ![i].st = st]

LEMMA SetToBusy ==
  ASSUME NEW cs \in Seq(Calls), NEW i, NEW st \in Steps \ {"running"}
  PROVE  /\ Cardinality(BusyIn(SetTo(cs, i, st))) \in Nat
         /\ Cardinality(BusyIn(SetTo(cs, i, st))) <= Cardinality(BusyIn(cs))
<1>1. PICK ds : ds = SetTo(cs, i, st)
  OBVIOUS
<1>2. ds = [cs EXCEPT ![i].st = st]
  BY <1>1 DEF SetTo
<1> QED BY <1>1, <1>2, SetCallBusy

\* The calls that bound themselves start beside the pool.
LEMMA LaunchedBusy ==
  ASSUME NEW cs \in Seq(Calls), bound \in Nat, Cardinality(BusyIn(cs)) <= bound
  PROVE  Cardinality(BusyIn(Launched(cs))) <= bound
<1> DEFINE first == [i \in DOMAIN cs |-> IF SelfGated(cs[i]) THEN Launch(cs[i]) ELSE cs[i]]
<1>1. \A i \in DOMAIN cs : cs[i] \in Calls /\ Launch(cs[i]) \in Calls
  BY LaunchesCalls
<1>2. first \in [DOMAIN cs -> Calls] /\ DOMAIN first = DOMAIN cs
  BY <1>1
<1>3. ASSUME NEW i \in DOMAIN cs
      PROVE  /\ SelfGated(first[i]) <=> SelfGated(cs[i])
             /\ ~SelfGated(cs[i]) => first[i] = cs[i]
  <2>1. first[i] = (IF SelfGated(cs[i]) THEN Launch(cs[i]) ELSE cs[i]) /\ cs[i] \in Calls
    BY <1>1
  <2>2. first[i].kind = cs[i].kind
    BY <2>1 DEF Launch, Calls
  <2> QED BY <2>1, <2>2 DEF SelfGated
<1> HIDE DEF first
<1>4. first \in Seq(Calls)
  BY <1>2, MappedSeq
<1>5. BusyIn(first) = BusyIn(cs)
  BY <1>2, <1>3 DEF BusyIn, Pooled
<1>6. Launched(cs) = Fill(first, bound)
  BY DEF Launched, first
<1> QED BY <1>4, <1>5, <1>6, FillBusy

LEMMA PoolKeeps == ASSUME LoopInv, PoolInv, [Next]_vars PROVE PoolInv'
<1> USE DEF tools, config
<1>0. /\ calls \in [Runs -> Seq(Calls)] /\ workers \in [Runs -> 0 .. bound]
      /\ bound \in Bounds /\ bound \in Nat /\ bound # 0
      /\ \A r \in Runs : Cardinality(BusyIn(calls[r])) <= workers[r]
      /\ \A r \in Runs : Cardinality(BusyIn(calls[r])) \in Nat
  BY ConstantsAssumption, CallSets DEF LoopInv, CallTypes, PoolInv
<1>n. Cardinality(BusyIn(<< >>)) = 0
  <2>1. BusyIn(<< >>) = {}
    BY DEF BusyIn, Pooled
  <2> QED BY <2>1, FS_EmptySet
<1>a. bound' = bound /\ \A cs : BusyIn(cs)' = BusyIn(cs)
  <2>1. bound' = bound
    BY DEF vars, Next, Execute, Answer, ToolEnds, StartRun, HookStops, Abort, SendSteer, Begin,
           TurnBegin, Prepare, OpenRequest, LeaveStream, Backoff, Truncated, ProviderFails,
           Unparsable, Overflow, UnknownFinish, SilentTurn, ToolTurn, PrepareCall, FinishCall,
           ToolsStop, Conclude, Collect
  <2> QED BY <2>1 DEF BusyIn, Pooled, SelfGated
<1>b. ASSUME UNCHANGED tools PROVE PoolInv'
  BY <1>0, <1>a, <1>b DEF PoolInv
\* One entry changes.
<1>c. ASSUME NEW r \in Runs, NEW cs, NEW w \in 0 .. bound, calls' = [calls EXCEPT ![r] = cs],
             workers' = [workers EXCEPT ![r] = w], Cardinality(BusyIn(cs)) <= w
      PROVE  PoolInv'
  <2>1. \A q \in Runs : calls'[q] = (IF q = r THEN cs ELSE calls[q])
                        /\ workers'[q] = (IF q = r THEN w ELSE workers[q])
    BY <1>0, <1>c
  <2>2. workers' \in [Runs -> 0 .. bound]
    BY <1>0, <1>c
  <2>3. \A q \in Runs : Cardinality(BusyIn(calls'[q])) <= workers'[q]
    BY <1>0, <1>c, <2>1
  <2> QED BY <1>0, <1>a, <2>2, <2>3 DEF PoolInv
<1>1. ASSUME NEW k \in 1 .. MaxCalls, NEW kinds \in [1 .. k -> Kinds], ToolTurn(kinds)
      PROVE  PoolInv'
  <2>1. PICK cs : cs = [i \in DOMAIN kinds |-> [kind |-> kinds[i], st |-> "asked"]]
    OBVIOUS
  <2>2. BusyIn(cs) = {}
    BY <2>1 DEF BusyIn, Pooled, Busy
  <2>3. Cardinality(BusyIn(cs)) <= 0 /\ 0 \in 0 .. bound
    BY <1>0, <2>2, FS_EmptySet
  <2>4. run \in Runs
    BY <1>1 DEF ToolTurn, Answered, LoopInv, CallTypes
  <2> QED BY <1>1, <1>c, <2>1, <2>3, <2>4 DEF ToolTurn
<1>2. ASSUME PrepareCall PROVE PoolInv'
  <2> DEFINE i == CHOOSE j \in DOMAIN calls[run] :
                    /\ calls[run][j].st = "asked"
                    /\ \A k \in 1 .. j - 1 : calls[run][k].st # "asked"
  <2>1. run \in Runs /\ calls[run] \in Seq(Calls)
    BY <1>0, <1>2 DEF PrepareCall, LoopInv, CallTypes
  <2>2. \/ calls' = [calls EXCEPT ![run] = << >>] /\ UNCHANGED workers
        \/ LET cs == [calls[run] EXCEPT ![i].st = "ready"]
           IN  \/ calls' = [calls EXCEPT ![run] = cs] /\ UNCHANGED workers
               \/ /\ calls' = [calls EXCEPT ![run] = Launched(cs)]
                  /\ workers' = [workers EXCEPT ![run] = bound]
    BY <1>2 DEF PrepareCall, i
  <2> HIDE DEF i
  <2>3. /\ workers = [workers EXCEPT ![run] = workers[run]] /\ workers[run] \in 0 .. bound
        /\ workers[run] >= 0
    BY <1>0, <2>1
  <2>4. CASE calls' = [calls EXCEPT ![run] = << >>] /\ UNCHANGED workers
    BY <1>0, <1>c, <1>n, <2>1, <2>3, <2>4
  <2>5. ASSUME NEW cs, cs = [calls[run] EXCEPT ![i].st = "ready"],
               \/ calls' = [calls EXCEPT ![run] = cs] /\ UNCHANGED workers
               \/ /\ calls' = [calls EXCEPT ![run] = Launched(cs)]
                  /\ workers' = [workers EXCEPT ![run] = bound]
        PROVE  PoolInv'
    <3>1. "ready" \in Steps \ {"running"}
      BY DEF Steps
    <3>2. /\ Cardinality(BusyIn(cs)) \in Nat
          /\ Cardinality(BusyIn(cs)) <= Cardinality(BusyIn(calls[run]))
      <4>1. cs = SetTo(calls[run], i, "ready")
        BY <2>5 DEF SetTo
      <4> QED BY <2>1, <3>1, <4>1, SetToBusy
    <3>3. cs \in Seq(Calls)
      BY <2>1, <2>5, <3>1, SetCall
    <3>4. Cardinality(BusyIn(cs)) <= workers[run] /\ Cardinality(BusyIn(cs)) <= bound
      <4>1. Cardinality(BusyIn(calls[run])) <= workers[run] /\ workers[run] \in 0 .. bound
            /\ Cardinality(BusyIn(calls[run])) \in Nat
        BY <1>0, <2>1
      <4> QED BY <1>0, <3>2, <4>1
    <3>5. CASE calls' = [calls EXCEPT ![run] = cs] /\ UNCHANGED workers
      BY <1>c, <2>1, <2>3, <3>4, <3>5
    <3>6. CASE /\ calls' = [calls EXCEPT ![run] = Launched(cs)]
               /\ workers' = [workers EXCEPT ![run] = bound]
      <4>1. Cardinality(BusyIn(Launched(cs))) <= bound /\ bound \in 0 .. bound
        BY <1>0, <3>3, <3>4, LaunchedBusy
      <4> QED BY <1>c, <2>1, <3>6, <4>1
    <3> QED BY <2>5, <3>5, <3>6
  <2> QED BY <2>2, <2>4, <2>5
<1>3. ASSUME NEW r \in Runs, NEW i \in DOMAIN calls[r], FinishCall(r, i) PROVE PoolInv'
  <2>1. PICK st \in {"ok", "err", "threw"} :
          LET cs == [calls[r] EXCEPT ![i].st = st]
              n == IF st = "threw" /\ i \in Pooled(cs) THEN workers[r] - 1 ELSE workers[r]
          IN /\ workers' = [workers EXCEPT ![r] = n]
             /\ calls' = [calls EXCEPT ![r] = Fill(cs, n)]
    BY <1>3 DEF FinishCall
  <2>2. PICK cs, w : /\ cs = [calls[r] EXCEPT ![i].st = st]
                     /\ w = IF st = "threw" /\ i \in Pooled(cs) THEN workers[r] - 1
                            ELSE workers[r]
    OBVIOUS
  <2>3. workers' = [workers EXCEPT ![r] = w] /\ calls' = [calls EXCEPT ![r] = Fill(cs, w)]
    BY <2>1, <2>2
  <2>4. st \in Steps \ {"running"} /\ calls[r] \in Seq(Calls)
    BY <1>0 DEF Steps
  <2>5. /\ Pooled(cs) = Pooled(calls[r])
        /\ Cardinality(BusyIn(cs)) \in Nat
        /\ Cardinality(BusyIn(cs)) <= Cardinality(BusyIn(calls[r]))
        /\ i \in BusyIn(calls[r]) =>
             Cardinality(BusyIn(cs)) <= Cardinality(BusyIn(calls[r])) - 1
    BY <2>2, <2>4, SetCallBusy
  <2>6. cs \in Seq(Calls)
    BY <2>2, <2>4, SetCall
  <2>7. i \in Pooled(cs) => i \in BusyIn(calls[r])
    BY <1>3, <2>5 DEF FinishCall, BusyIn
  <2>8. w \in 0 .. bound /\ w \in Nat /\ Cardinality(BusyIn(cs)) <= w
    <3>1. /\ Cardinality(BusyIn(calls[r])) <= workers[r] /\ workers[r] \in 0 .. bound
          /\ Cardinality(BusyIn(calls[r])) \in Nat
      BY <1>0
    <3>2. CASE st = "threw" /\ i \in Pooled(cs)
      <4>1. Cardinality(BusyIn(cs)) <= Cardinality(BusyIn(calls[r])) - 1 /\ w = workers[r] - 1
        BY <2>2, <2>5, <2>7, <3>2
      <4> QED BY <1>0, <2>5, <3>1, <4>1
    <3>3. CASE ~(st = "threw" /\ i \in Pooled(cs))
      BY <1>0, <2>2, <2>5, <3>1, <3>3
    <3> QED BY <3>2, <3>3
  <2>9. Cardinality(BusyIn(Fill(cs, w))) <= w
    BY <2>6, <2>8, FillBusy
  <2> QED BY <1>c, <2>3, <2>8, <2>9
<1>4. ASSUME NEW boundary \in BOOLEAN, Collect(boundary) PROVE PoolInv'
  <2>1. run \in Runs /\ workers = [workers EXCEPT ![run] = workers[run]]
        /\ workers[run] \in 0 .. bound /\ workers[run] >= 0
    BY <1>0, <1>4 DEF Collect, LoopInv, CallTypes
  <2>2. calls' = [calls EXCEPT ![run] = << >>] /\ workers' = workers
    BY <1>4 DEF Collect
  <2> QED BY <1>c, <1>n, <2>1, <2>2
<1>5. CASE \/ UNCHANGED vars
           \/ StartRun \/ HookStops \/ Abort \/ SendSteer
           \/ Begin \/ TurnBegin \/ Prepare \/ OpenRequest \/ LeaveStream \/ Backoff \/ ToolsStop
           \/ \E empty \in BOOLEAN : Truncated(empty)
           \/ \E retryable \in BOOLEAN : ProviderFails(retryable)
           \/ Unparsable \/ Overflow \/ UnknownFinish
           \/ \E text \in Texts : SilentTurn(text)
           \/ \E boundary \in BOOLEAN : Conclude(boundary)
  <2>1. UNCHANGED tools
    BY <1>5 DEF vars, StartRun, HookStops, Abort, SendSteer, Begin,
           TurnBegin, Prepare, OpenRequest, LeaveStream, Backoff, Truncated, ProviderFails,
           Unparsable, Overflow, UnknownFinish, SilentTurn, Conclude, ToolsStop
  <2> QED BY <1>b, <2>1
<1> QED
  BY <1>1, <1>2, <1>3, <1>4, <1>5 DEF Next, Execute, Answer, ToolEnds

\* What the pool executes at once is bounded.
LEMMA PoolIsBounded == ASSUME LoopInv, PoolInv PROVE PoolBounded
<1>0. bound \in Nat /\ bound # 0
  BY ConstantsAssumption DEF PoolInv
<1> DEFINE cs == IF run = 0 THEN << >> ELSE calls[run]
           busy == {i \in DOMAIN cs : Busy(cs[i])}
<1>1. /\ cs \in Seq(Calls) /\ Cardinality(BusyIn(cs)) <= bound
  <2>1. CASE run = 0
    <3>1. BusyIn(cs) = {} /\ cs \in Seq(Calls)
      BY <2>1 DEF BusyIn, Pooled
    <3> HIDE DEF cs
    <3> QED BY <1>0, <3>1, FS_EmptySet
  <2>2. CASE run # 0
    <3>1. run \in Runs
      BY <2>2, ConstantsAssumption DEF LoopInv, CallTypes, Runs
    <3>2. cs = calls[run]
      BY <2>2
    <3> HIDE DEF cs
    <3>3. calls[run] \in Seq(Calls) /\ workers[run] \in 0 .. bound
          /\ Cardinality(BusyIn(calls[run])) <= workers[run]
      BY <3>1 DEF LoopInv, CallTypes, PoolInv
    <3>4. Cardinality(BusyIn(cs)) \in Nat
      BY <3>2, <3>3, CallSets
    <3> QED BY <1>0, <3>2, <3>3, <3>4
  <2> QED BY <2>1, <2>2
<1> HIDE DEF cs
<1>2. IsFiniteSet(BusyIn(cs)) /\ Cardinality(BusyIn(cs)) \in Nat
  BY <1>1, CallSets
<1>3. {i \in busy : cs[i].kind # "gated"} \in SUBSET BusyIn(cs)
  BY DEF BusyIn, Pooled, SelfGated
<1>4. PICK X : X = {i \in busy : cs[i].kind # "gated"}
  OBVIOUS
<1>5. Cardinality(X) <= bound
  <2>1. IsFiniteSet(X) /\ Cardinality(X) <= Cardinality(BusyIn(cs)) /\ Cardinality(X) \in Nat
    BY <1>2, <1>3, <1>4, FS_Subset, FS_CardinalityType
  <2> QED BY <1>0, <1>1, <1>2, <2>1
<1>6. bound = 1 => Cardinality(busy) <= 1
  <2> SUFFICES ASSUME bound = 1 PROVE Cardinality(busy) <= 1
    OBVIOUS
  <2>1. busy = BusyIn(cs)
    BY DEF BusyIn, Pooled, SelfGated
  <2> HIDE DEF busy
  <2> QED BY <1>1, <2>1
<1> QED BY <1>4, <1>5, <1>6 DEF PoolBounded, cs

-----------------------------------------------------------------------------
(* What the loop counts.                                                   *)

Places == {"rest", "starting", "top", "backoff", "closing", "asking", "tools"} \cup Requesting
Turns == [cut : BOOLEAN, attempts : 0 .. Retries, continued : BOOLEAN, unsure : BOOLEAN,
          text : Texts]

\* Where the loop is and what it knows of its turn.
PlaceInv == at \in Places /\ halted \in BOOLEAN /\ turn \in Turns

\* What it has spent of its budgets.
BudgetInv ==
  /\ nudges \in 0 .. NudgeBudget /\ truncs \in 0 .. TruncBudget
  /\ parses \in 0 .. ParseBudget /\ thinks \in 0 .. ThinkBudget
  /\ unread \in 0 .. 2 /\ asked \in BOOLEAN /\ worked \in BOOLEAN /\ promised \in BOOLEAN

\* Its iterations, the recovery from an overflow, and the messages that wait.
InputInv ==
  /\ limit \in Limits /\ iter \in 0 .. limit
  /\ overflowed \in BOOLEAN /\ resume \in BOOLEAN
  /\ arrived \in 0 .. MaxSteers /\ steers \in 0 .. arrived /\ missed \in 0 .. arrived

\* The bounds are numbers, so that nothing spent is within each of them.
LEMMA BoundsAreNumbers ==
  /\ {MaxSteers, NudgeBudget, TruncBudget, ParseBudget, ThinkBudget, Retries} \subseteq Nat
  /\ Limits \subseteq Nat
BY ConstantsAssumption

\* A new turn has spent nothing.
LEMMA NewTurns ==
  /\ NewTurn \in Turns
  /\ \A b \in BOOLEAN : [NewTurn EXCEPT !.unsure = b] \in Turns
  /\ \A b \in BOOLEAN : [NewTurn EXCEPT !.continued = b] \in Turns
  /\ \A x \in Texts : [NewTurn EXCEPT !.text = x] \in Turns
  /\ \A t \in Turns, b \in BOOLEAN : [t EXCEPT !.cut = b] \in Turns
<1>1. 0 \in 0 .. Retries
  BY BoundsAreNumbers
<1> QED BY <1>1 DEF NewTurn, Turns, Texts

\* A retry is within its budget.
LEMMA LeftOne ==
  ASSUME NEW b \in Nat, NEW n \in 0 .. b, Left(n, b)
  PROVE  n + 1 \in 0 .. b
BY DEF Left

\* The loop goes somewhere.
LEMMA PlacesKeep == PlaceInv /\ [Next]_vars => PlaceInv'
<1> SUFFICES ASSUME PlaceInv, [Next]_vars PROVE PlaceInv'
  OBVIOUS
<1> USE DEF input, tools, budgets, config, Places, Requesting
<1>0. at \in Places /\ halted \in BOOLEAN /\ turn \in Turns
  BY DEF PlaceInv
\* The ways to leave a place.
<1>a. ASSUME NEW b, Throw(b) PROVE PlaceInv'
  BY <1>a, NewTurns DEF Throw, PlaceInv
<1>b. ASSUME Finish PROVE PlaceInv'
  BY <1>b, NewTurns DEF Finish, PlaceInv
<1>c. ASSUME GoOn PROVE PlaceInv'
  BY <1>0, <1>c, NewTurns DEF GoOn, Goto, PlaceInv
<1>d. ASSUME NEW p \in Places, NEW t \in Turns, Goto(p, t) PROVE PlaceInv'
  BY <1>0, <1>d DEF Goto, PlaceInv
<1>1. CASE UNCHANGED vars
  BY <1>0, <1>1 DEF vars, PlaceInv
<1>2. CASE StartRun
  BY <1>0, <1>2 DEF StartRun, PlaceInv
<1>3. CASE Abort \/ ToolEnds
  BY <1>0, <1>3 DEF Abort, ToolEnds, FinishCall, PlaceInv
<1>4. CASE SendSteer
  <2>1. turn' \in Turns
    <3>1. PICK b : b = (turn.cut \/ at \in Requesting)
      OBVIOUS
    <3>2. turn.cut \in BOOLEAN
      BY <1>0 DEF Turns
    <3>3. b \in BOOLEAN /\ turn' = [turn EXCEPT !.cut = b]
      BY <1>4, <3>1, <3>2 DEF SendSteer
    <3> QED BY <1>0, <3>3, NewTurns
  <2> QED BY <1>0, <1>4, <2>1 DEF SendSteer, PlaceInv
<1>5. CASE Begin \/ HookStops \/ ToolsStop
  BY <1>5, <1>a, <1>c DEF Begin, HookStops, ToolsStop
<1>6. CASE TurnBegin
  BY <1>6, <1>a, <1>d, NewTurns DEF TurnBegin
<1>7. CASE Prepare
  BY <1>0, <1>7, <1>a, <1>d DEF Prepare
<1>8. CASE OpenRequest
  BY <1>0, <1>8, <1>a, <1>d DEF OpenRequest
<1>9. CASE LeaveStream
  BY <1>9, <1>a, <1>c DEF LeaveStream
<1>10. CASE Backoff
  BY <1>0, <1>10, <1>a, <1>d, NewTurns DEF Backoff
<1>11. CASE Unparsable
  BY <1>11, <1>a, <1>c DEF Unparsable
<1>12. CASE Overflow
  BY <1>0, <1>12, <1>a, <1>d, NewTurns DEF Overflow
<1>13. CASE UnknownFinish
  BY <1>13, <1>a, <1>d, NewTurns DEF UnknownFinish
<1>14. ASSUME NEW empty \in BOOLEAN, Truncated(empty) PROVE PlaceInv'
  BY <1>14, <1>a, <1>c DEF Truncated
<1>15. ASSUME NEW retryable \in BOOLEAN, ProviderFails(retryable) PROVE PlaceInv'
  <2>1. CASE Throw(FALSE)
    BY <2>1, <1>a
  <2>2. CASE /\ Left(turn.attempts, Retries)
             /\ Goto("backoff", [turn EXCEPT !.attempts = @ + 1, !.cut = FALSE])
    <3>1. turn.attempts \in 0 .. Retries /\ Retries \in Nat
      BY <1>0, BoundsAreNumbers DEF Turns
    <3>2. turn.attempts + 1 \in 0 .. Retries
      BY <2>2, <3>1 DEF Left
    <3>3. [turn EXCEPT !.attempts = @ + 1, !.cut = FALSE] \in Turns
      BY <1>0, <3>2 DEF Turns
    <3> QED BY <2>2, <3>3, <1>d
  <2> QED BY <1>15, <2>1, <2>2 DEF ProviderFails
<1>16. ASSUME NEW text \in Texts, SilentTurn(text) PROVE PlaceInv'
  BY <1>16, <1>d, NewTurns DEF SilentTurn
<1>20. ASSUME NEW boundary \in BOOLEAN, Conclude(boundary) PROVE PlaceInv'
  BY <1>20, <1>b, <1>c DEF Conclude, ToldToGoOn
<1>17. ASSUME NEW k \in 1 .. MaxCalls, NEW kinds \in [1 .. k -> Kinds], ToolTurn(kinds)
      PROVE  PlaceInv'
  BY <1>17, <1>d, NewTurns DEF ToolTurn
<1>18. CASE PrepareCall
  <2>1. Throw(TRUE) \/ Goto("asking", turn) \/ Goto("tools", turn)
    BY <1>18 DEF PrepareCall
  <2> QED BY <1>0, <2>1, <1>a, <1>d
<1>19. ASSUME NEW boundary \in BOOLEAN, Collect(boundary) PROVE PlaceInv'
  <2>1. Throw(FALSE) \/ GoOn \/ Finish
    BY <1>19 DEF Collect
  <2> QED BY <2>1, <1>a, <1>b, <1>c
<1> QED
  BY <1>1, <1>2, <1>3, <1>4, <1>5, <1>6, <1>7, <1>8, <1>9, <1>10, <1>11, <1>12, <1>13, <1>14,
     <1>15, <1>16, <1>17, <1>18, <1>19, <1>20
     DEF Next, Execute, Answer

\* No guard spends more than its budget.
LEMMA BudgetsKeep == BudgetInv /\ [Next]_vars => BudgetInv'
<1> SUFFICES ASSUME BudgetInv, [Next]_vars PROVE BudgetInv'
  OBVIOUS
<1> USE DEF input, tools, config
<1>0. /\ {NudgeBudget, TruncBudget, ParseBudget, ThinkBudget} \subseteq Nat
      /\ 0 \in 0 .. NudgeBudget /\ 0 \in 0 .. TruncBudget
      /\ 0 \in 0 .. ParseBudget /\ 0 \in 0 .. ThinkBudget
  BY BoundsAreNumbers
<1>a. /\ nudges \in 0 .. NudgeBudget /\ truncs \in 0 .. TruncBudget
      /\ parses \in 0 .. ParseBudget /\ thinks \in 0 .. ThinkBudget
      /\ unread \in 0 .. 2 /\ asked \in BOOLEAN /\ worked \in BOOLEAN /\ promised \in BOOLEAN
  BY DEF BudgetInv
<1>1. ASSUME UNCHANGED budgets PROVE BudgetInv'
  BY <1>1 DEF budgets, BudgetInv
<1>2. CASE \/ UNCHANGED vars \/ HookStops \/ Abort \/ SendSteer \/ ToolEnds
           \/ Begin \/ TurnBegin \/ Prepare \/ OpenRequest \/ LeaveStream \/ Backoff
           \/ Overflow \/ UnknownFinish \/ PrepareCall \/ ToolsStop
           \/ \E retryable \in BOOLEAN : ProviderFails(retryable)
           \/ \E boundary \in BOOLEAN : Collect(boundary)
  <2>1. UNCHANGED budgets
    BY <1>2 DEF vars, HookStops, Abort, SendSteer, ToolEnds, FinishCall, Begin, TurnBegin, Prepare,
           OpenRequest, LeaveStream, Backoff, Overflow, UnknownFinish, PrepareCall, ToolsStop,
           ProviderFails, Collect
  <2> QED BY <1>1, <2>1
<1>3. CASE StartRun
  BY <1>3 DEF StartRun, BudgetInv
<1>4. CASE Unparsable
  <2>1. /\ UNCHANGED <<nudges, asked, worked, promised, unread, truncs, thinks>>
        /\ parses' = parses \/ (Left(parses, ParseBudget) /\ parses' = parses + 1)
    BY <1>4 DEF Unparsable
  <2>2. parses' \in 0 .. ParseBudget
    BY <1>0, <1>a, <2>1 DEF Left
  <2> QED BY <1>a, <2>1, <2>2 DEF BudgetInv
<1>5. ASSUME NEW empty \in BOOLEAN, Truncated(empty) PROVE BudgetInv'
  <2>1. /\ UNCHANGED <<nudges, asked, worked, promised, unread, parses, thinks>>
        /\ truncs' = truncs \/ (Left(truncs, TruncBudget) /\ truncs' = truncs + 1)
    BY <1>5 DEF Truncated
  <2>2. truncs' \in 0 .. TruncBudget
    BY <1>0, <1>a, <2>1 DEF Left
  <2> QED BY <1>a, <2>1, <2>2 DEF BudgetInv
<1>6. ASSUME NEW k \in 1 .. MaxCalls, NEW kinds \in [1 .. k -> Kinds], ToolTurn(kinds)
      PROVE  BudgetInv'
  BY <1>0, <1>a, <1>6 DEF ToolTurn, BudgetInv
<1>7. ASSUME NEW text \in Texts, SilentTurn(text) PROVE BudgetInv'
  BY <1>0, <1>a, <1>7 DEF SilentTurn, BudgetInv
<1>8. ASSUME NEW boundary \in BOOLEAN, Conclude(boundary) PROVE BudgetInv'
  <2> DEFINE text == turn.text
  <2>1. /\ UNCHANGED <<worked, truncs, parses>>
        /\ nudges' = nudges \/ (Left(nudges, NudgeBudget) /\ nudges' = nudges + 1)
        /\ thinks' = thinks \/ (Left(thinks, ThinkBudget) /\ thinks' = thinks + 1)
        /\ unread' = unread \/ unread' = Unread(text)
    BY <1>8 DEF Conclude, Nudged
  <2>2. /\ asked' \in {asked, asked \/ Nudged(text)}
        /\ promised' \in {promised, promised \/ Promised(text)}
    BY <1>8 DEF Conclude
  <2>3. nudges' \in 0 .. NudgeBudget /\ thinks' \in 0 .. ThinkBudget
    BY <1>0, <1>a, <2>1 DEF Left
  <2>4. Unread(text) \in 0 .. 2
    BY DEF Unread
  <2>5. asked' \in BOOLEAN /\ promised' \in BOOLEAN
    BY <1>a, <2>2 DEF Nudged, Promised
  <2> QED BY <1>a, <2>1, <2>3, <2>4, <2>5 DEF BudgetInv
<1> QED
  BY <1>2, <1>3, <1>4, <1>5, <1>6, <1>7, <1>8 DEF Next, Execute, Answer

\* No more iterations than were allowed, and no more messages wait than were sent.
LEMMA InputsKeep == InputInv /\ [Next]_vars => InputInv'
<1> SUFFICES ASSUME InputInv, [Next]_vars PROVE InputInv'
  OBVIOUS
<1> USE DEF tools, budgets, config, input
<1>0. /\ MaxSteers \in Nat /\ Limits \subseteq Nat
      /\ limit \in Limits /\ limit \in Nat /\ iter \in 0 .. limit /\ 0 \in 0 .. limit
      /\ overflowed \in BOOLEAN /\ resume \in BOOLEAN
      /\ arrived \in 0 .. MaxSteers /\ steers \in 0 .. arrived /\ missed \in 0 .. arrived
  <2>1. MaxSteers \in Nat /\ Limits \subseteq Nat
    BY BoundsAreNumbers
  <2> QED BY <2>1 DEF InputInv
<1>1. CASE \/ UNCHANGED vars \/ HookStops \/ Abort \/ ToolEnds
           \/ Begin \/ OpenRequest \/ LeaveStream \/ Backoff
           \/ Unparsable \/ UnknownFinish \/ PrepareCall \/ ToolsStop
           \/ \E empty \in BOOLEAN : Truncated(empty)
           \/ \E retryable \in BOOLEAN : ProviderFails(retryable)
           \/ \E boundary \in BOOLEAN : Collect(boundary)
           \/ \E n \in 1 .. MaxCalls : \E kinds \in [1 .. n -> Kinds] : ToolTurn(kinds)
  <2>1. UNCHANGED <<limit, iter, overflowed, resume, arrived, steers, missed>>
    BY <1>1 DEF vars, HookStops, Abort, ToolEnds, FinishCall, Begin, OpenRequest, LeaveStream,
           Backoff, Unparsable, UnknownFinish, PrepareCall, ToolsStop, Truncated, ProviderFails,
           Collect, ToolTurn
  <2> QED BY <2>1 DEF InputInv
<1>2. CASE StartRun
  BY <1>0, <1>2 DEF StartRun, InputInv
<1>3. CASE SendSteer
  <2>1. /\ arrived < MaxSteers /\ steers' = steers + 1 /\ arrived' = arrived + 1
        /\ missed' \in {missed, missed + 1}
        /\ UNCHANGED <<limit, iter, overflowed, resume>>
    BY <1>3 DEF SendSteer
  <2>2. arrived' \in 0 .. MaxSteers /\ steers' \in 0 .. arrived' /\ missed' \in 0 .. arrived'
    BY <1>0, <2>1
  <2> QED BY <1>0, <2>1, <2>2 DEF InputInv
<1>4. CASE TurnBegin
  <2>1. /\ iter' = iter \/ (limit > 0 /\ iter # limit /\ iter' = iter + 1) \/ iter' = 0
        /\ UNCHANGED <<limit, overflowed, resume, arrived, steers, missed>>
    BY <1>4 DEF TurnBegin
  <2>2. iter' \in 0 .. limit
    BY <1>0, <2>1
  <2> QED BY <1>0, <2>1, <2>2 DEF InputInv
<1>5. CASE Prepare
  <2>1. /\ steers' = steers \/ (steers > 0 /\ steers' = steers - 1)
        /\ resume' = resume \/ resume' = TRUE
        /\ UNCHANGED <<limit, iter, overflowed, arrived, missed>>
    BY <1>5 DEF Prepare
  <2>2. arrived \in Nat /\ steers \in Nat /\ steers <= arrived
    BY <1>0
  <2>3. steers' \in 0 .. arrived
    BY <2>1, <2>2
  <2>4. resume' \in BOOLEAN
    BY <1>0, <2>1
  <2> QED BY <1>0, <2>1, <2>3, <2>4 DEF InputInv
<1>6. CASE Overflow
  BY <1>0, <1>6 DEF Overflow, InputInv
<1>7. ASSUME NEW text \in Texts, SilentTurn(text) PROVE InputInv'
  <2>1. missed' = 0 /\ UNCHANGED <<limit, iter, overflowed, resume, arrived, steers>>
    BY <1>7 DEF SilentTurn
  <2>2. arrived \in Nat
    BY <1>0
  <2> QED BY <1>0, <2>1, <2>2 DEF InputInv
<1>8. ASSUME NEW boundary \in BOOLEAN, Conclude(boundary) PROVE InputInv'
  <2>1. /\ resume' = resume \/ resume' = FALSE
        /\ UNCHANGED <<limit, iter, overflowed, arrived, steers, missed>>
    BY <1>8 DEF Conclude
  <2> QED BY <1>0, <2>1 DEF InputInv
<1> QED
  BY <1>1, <1>2, <1>3, <1>4, <1>5, <1>6, <1>7, <1>8 DEF Next, Execute, Answer

\* At first nothing has been spent.
LEMMA InitCounts == Init => PlaceInv /\ BudgetInv /\ InputInv /\ PoolInv
<1> SUFFICES ASSUME Init PROVE PlaceInv /\ BudgetInv /\ InputInv /\ PoolInv
  OBVIOUS
<1>1. /\ {MaxSteers, NudgeBudget, TruncBudget, ParseBudget, ThinkBudget} \subseteq Nat
      /\ limit \in Nat /\ bound \in Nat
  BY BoundsAreNumbers, ConstantsAssumption DEF Init
<1>2. PlaceInv
  BY NewTurns DEF Init, PlaceInv, Places
<1>3. BudgetInv
  <2>1. /\ 0 \in 0 .. NudgeBudget /\ 0 \in 0 .. TruncBudget
        /\ 0 \in 0 .. ParseBudget /\ 0 \in 0 .. ThinkBudget /\ 0 \in 0 .. 2
    BY <1>1
  <2>2. /\ nudges = 0 /\ asked = FALSE /\ worked = FALSE /\ promised = FALSE /\ unread = 0
        /\ truncs = 0 /\ parses = 0 /\ thinks = 0
    BY DEF Init
  <2> QED BY <2>1, <2>2 DEF BudgetInv
<1>4. InputInv
  <2>1. 0 \in 0 .. limit /\ 0 \in 0 .. MaxSteers /\ 0 \in 0 .. 0
    BY <1>1
  <2>2. /\ limit \in Limits /\ iter = 0 /\ overflowed = FALSE /\ resume = FALSE
        /\ steers = 0 /\ arrived = 0 /\ missed = 0
    BY DEF Init
  <2> QED BY <2>1, <2>2 DEF InputInv
<1>5. PoolInv
  <2>1. BusyIn(<< >>) = {}
    BY DEF BusyIn, Pooled
  <2>2. Cardinality(BusyIn(<< >>)) = 0
    BY <2>1, FS_EmptySet
  <2>3. \A r \in Runs : calls[r] = << >> /\ workers[r] = 0
    BY DEF Init
  <2>4. workers \in [Runs -> 0 .. bound] /\ bound \in Bounds
    BY <1>1 DEF Init
  <2> QED BY <2>2, <2>3, <2>4 DEF PoolInv
<1> QED BY <1>2, <1>3, <1>4, <1>5

-----------------------------------------------------------------------------
(* Messages of the user.                                                   *)

\* What the last message of the user still waits for: without resume the model has been told
\* to go on since, in a turn that was recorded; at the end of a silent turn that was another one.
Resumed ==
  /\ ~resume => since >= 1
  /\ at = "closing" =>
       /\ since >= 1 /\ (~resume => since = 2)
       /\ ~resume => \A i \in DOMAIN tail : tail[i] # Msg(run, "steer", 0)

\* A message that waits while a request is open cuts it, or another was read before it; one that
\* waits at the end of a silent turn came after its stream, or another was read before it.
Unheard ==
  /\ at \in {"request", "stream"} /\ steers > 0 => resume \/ turn.cut
  /\ at = "closing" /\ steers > missed => resume

SteerInv ==
  /\ status \in Statuses /\ ((status = "running") <=> (at # "rest"))
  /\ since \in 0 .. 2
  /\ at \in {"asking", "tools"} => last = "tools"
  /\ Resumed /\ Unheard /\ SteerIsAnswered

\* What is recorded has no message of the user.
LEMMA SaidIsNoSteer == ASSUME NEW i \in DOMAIN Said PROVE Said[i] # Msg(run, "steer", 0)
BY DEF Said, Msg

\* A step that leaves a run that goes on elsewhere than in a request, or ends it unfinished.
LEMMA GoesOnOrFails ==
  ASSUME SteerInv, status' \in Statuses, (status' = "running") <=> (at' # "rest"),
         status' # "completed", since' \in 0 .. 2, ~resume' => since' >= 1,
         at' \in {"asking", "tools"} => last' = "tools",
         at' \notin {"request", "stream", "closing"}
  PROVE  SteerInv'
BY DEF SteerInv, SteerIsAnswered, Resumed, Unheard

\* One step per action.
LEMMA SteerKeeps == SteerInv /\ PlaceInv /\ InputInv /\ [Next]_vars => SteerInv'
<1> SUFFICES ASSUME SteerInv, PlaceInv, InputInv, [Next]_vars PROVE SteerInv'
  OBVIOUS
<1> USE DEF input, tools, budgets, config
<1>0. /\ turn \in Turns /\ turn.cut \in BOOLEAN /\ resume \in BOOLEAN
      /\ steers \in Nat /\ missed \in Nat /\ at \in Places /\ since \in 0 .. 2
      /\ status \in Statuses /\ ((status = "running") <=> (at # "rest"))
      /\ ~resume => since >= 1
      /\ at \in {"asking", "tools"} => last = "tools"
  <2>1. arrived \in Nat
    BY BoundsAreNumbers DEF InputInv
  <2> QED BY <2>1 DEF PlaceInv, InputInv, Turns, SteerInv, Resumed
\* The ways to leave a place, with nothing recorded or a turn.
<1>a. ASSUME NEW b, Throw(b), since' \in {since, IF since = 2 THEN 2 ELSE since + 1},
             UNCHANGED resume
      PROVE  SteerInv'
  <2>1. at' = "rest" /\ status' \in {"aborted", "failed"}
    BY <1>a DEF Throw
  <2>2. since' \in 0 .. 2 /\ (~resume' => since' >= 1)
    BY <1>0, <1>a
  <2> QED BY <2>1, <2>2 DEF SteerInv, SteerIsAnswered, Resumed, Unheard, Statuses
<1>1. CASE UNCHANGED vars
  BY <1>1 DEF vars, SteerInv, SteerIsAnswered, Resumed, Unheard
<1>2. CASE StartRun
  BY <1>2 DEF StartRun, SteerInv, SteerIsAnswered, Resumed, Unheard, Statuses
<1>3. CASE Abort
  BY <1>3 DEF Abort, SteerInv, SteerIsAnswered, Resumed, Unheard
<1>4. CASE SendSteer
  <2>1. /\ at # "rest" /\ steers' = steers + 1
        /\ missed' = IF at = "closing" THEN missed + 1 ELSE missed
        /\ UNCHANGED <<run, status, at, resume, tail, last, since>>
        /\ at \in {"request", "stream"} => turn'.cut
    BY <1>0, <1>4 DEF SendSteer, Requesting, Turns
  <2>2. Unheard'
    BY <1>0, <2>1 DEF SteerInv, Unheard
  <2> QED BY <1>0, <2>1, <2>2 DEF SteerInv, SteerIsAnswered, Resumed
<1>5. CASE ToolEnds
  BY <1>5 DEF ToolEnds, FinishCall, SteerInv, SteerIsAnswered, Resumed, Unheard
<1>6. CASE HookStops \/ ToolsStop
  BY <1>6, <1>a DEF HookStops, ToolsStop
<1>7. CASE Begin
  BY <1>0, <1>7, GoesOnOrFails DEF Begin, GoOn, Goto
<1>8. CASE TurnBegin
  <2>1. Throw(FALSE) \/ Goto("prepare", NewTurn)
    BY <1>8 DEF TurnBegin
  <2>2. at = "top" /\ UNCHANGED <<resume, since, last>>
    BY <1>8 DEF TurnBegin
  <2>3. CASE Throw(FALSE)
    BY <1>a, <2>2, <2>3
  <2>4. CASE Goto("prepare", NewTurn)
    BY <1>0, <2>2, <2>4, GoesOnOrFails DEF Goto
  <2> QED BY <2>1, <2>3, <2>4
<1>9. CASE Prepare
  <2>1. \/ steers > 0 /\ resume' = TRUE /\ since' = 0
        \/ steers = 0 /\ steers' = 0 /\ UNCHANGED <<resume, since>>
    BY <1>0, <1>9 DEF Prepare
  <2>2. CASE Throw(FALSE)
    BY <1>0, <2>1, <2>2, GoesOnOrFails DEF Throw, Statuses
  <2>3. CASE Goto("request", turn)
    <3>1. at # "rest" /\ at' = "request" /\ status' = status /\ since' \in 0 .. 2
      BY <1>0, <1>9, <2>1, <2>3 DEF Prepare, Goto
    <3> QED BY <1>0, <2>1, <3>1 DEF SteerInv, SteerIsAnswered, Resumed, Unheard
  <2> QED BY <1>9, <2>2, <2>3 DEF Prepare
<1>10. CASE OpenRequest
  <2>1. at = "request" /\ UNCHANGED <<resume, steers, since, last>>
    BY <1>10 DEF OpenRequest
  <2>2. CASE Throw(FALSE)
    BY <1>0, <1>a, <2>1, <2>2
  <2>3. CASE Goto("stream", turn)
    BY <1>0, <2>1, <2>3 DEF Goto, SteerInv, SteerIsAnswered, Resumed, Unheard
  <2> QED BY <1>10, <2>2, <2>3 DEF OpenRequest
<1>11. CASE LeaveStream
  <2>1. /\ since' \in {since, IF since = 2 THEN 2 ELSE since + 1} /\ UNCHANGED <<resume, last>>
        /\ at = "stream"
    BY <1>11 DEF LeaveStream
  <2>2. since' \in 0 .. 2 /\ since' >= since
    BY <1>0, <2>1
  <2>3. CASE Throw(FALSE)
    BY <1>a, <2>1, <2>3
  <2>4. CASE GoOn
    BY <1>0, <2>1, <2>2, <2>4, GoesOnOrFails DEF GoOn, Goto
  <2> QED BY <1>11, <2>3, <2>4 DEF LeaveStream
<1>12. CASE Backoff
  <2>1. at = "backoff" /\ UNCHANGED <<resume, since, last>>
    BY <1>12 DEF Backoff
  <2>2. Throw(FALSE) \/ Goto("prepare", [turn EXCEPT !.cut = FALSE])
    BY <1>12 DEF Backoff
  <2> QED BY <1>0, <1>a, <2>1, <2>2, GoesOnOrFails DEF Goto
<1>13. CASE PrepareCall
  <2>1. at = "asking" /\ UNCHANGED <<resume, since, last>>
    BY <1>13 DEF PrepareCall
  <2>2. Throw(TRUE) \/ Goto("asking", turn) \/ Goto("tools", turn)
    BY <1>13 DEF PrepareCall
  <2> QED BY <1>0, <1>a, <2>1, <2>2, GoesOnOrFails DEF Goto
\* A turn of the model that is not its last.
<1>b. ASSUME NEW p, NEW t, Goto(p, t), at = "stream", UNCHANGED resume,
             p \in {"top", "backoff", "compact", "prepare"},
             since' \in {since, IF since = 2 THEN 2 ELSE since + 1}
      PROVE  SteerInv'
  <2>1. since' \in 0 .. 2 /\ since' >= since
    BY <1>0, <1>b
  <2> QED BY <1>0, <1>b, <2>1, GoesOnOrFails DEF Goto
<1>14. CASE Unparsable \/ Overflow \/ UnknownFinish
  <2>1. /\ at = "stream" /\ UNCHANGED resume
        /\ since' \in {since, IF since = 2 THEN 2 ELSE since + 1}
    BY <1>14 DEF Unparsable, Overflow, UnknownFinish, Answered, Record, Unrecorded, RecordedOrNot
  <2>2. \/ Throw(FALSE) \/ Goto("top", NewTurn) \/ Goto("compact", [turn EXCEPT !.cut = FALSE])
        \/ Goto("prepare", [NewTurn EXCEPT !.continued = TRUE])
    BY <1>14 DEF Unparsable, Overflow, UnknownFinish, GoOn
  <2> QED BY <1>a, <1>b, <2>1, <2>2
<1>15. ASSUME NEW empty \in BOOLEAN, Truncated(empty) PROVE SteerInv'
  <2>1. /\ at = "stream" /\ UNCHANGED resume
        /\ since' \in {since, IF since = 2 THEN 2 ELSE since + 1}
    BY <1>15 DEF Truncated, Answered, Record, Unrecorded
  <2>2. Throw(FALSE) \/ Goto("top", NewTurn)
    BY <1>15 DEF Truncated, GoOn
  <2> QED BY <1>a, <1>b, <2>1, <2>2
<1>16. ASSUME NEW retryable \in BOOLEAN, ProviderFails(retryable) PROVE SteerInv'
  <2>1. at = "stream" /\ UNCHANGED <<resume, since>>
    BY <1>16 DEF ProviderFails, Answered
  <2>2. \/ Throw(FALSE)
        \/ Goto("backoff", [turn EXCEPT !.attempts = @ + 1, !.cut = FALSE])
    BY <1>16 DEF ProviderFails
  <2> QED BY <1>a, <1>b, <2>1, <2>2
<1>17. ASSUME NEW k \in 1 .. MaxCalls, NEW kinds \in [1 .. k -> Kinds], ToolTurn(kinds)
      PROVE  SteerInv'
  <2>1. /\ at = "stream" /\ at' = "asking" /\ last' = "tools" /\ UNCHANGED <<status, resume>>
        /\ since' = IF since = 2 THEN 2 ELSE since + 1
    BY <1>17 DEF ToolTurn, Answered, Goto, Record
  <2>2. since' \in 0 .. 2 /\ since' >= since
    BY <1>0, <2>1
  <2> QED BY <1>0, <2>1, <2>2, GoesOnOrFails
<1>18. ASSUME NEW text \in Texts, SilentTurn(text) PROVE SteerInv'
  <2>1. /\ at = "stream" /\ ~turn.cut /\ at' = "closing" /\ tail' = Said /\ missed' = 0
        /\ since' = (IF since = 2 THEN 2 ELSE since + 1)
        /\ UNCHANGED <<run, status, resume, steers>>
    BY <1>18 DEF SilentTurn, Answered, Goto, Record
  <2>2. steers > 0 => resume
    BY <2>1 DEF SteerInv, Unheard
  <2>3. Unheard'
    BY <1>0, <2>1, <2>2 DEF Unheard
  <2>4. since' \in 0 .. 2 /\ since' >= 1 /\ (~resume => since' = 2)
    BY <1>0, <2>1
  <2>5. Resumed'
    BY <2>1, <2>4, SaidIsNoSteer DEF Resumed
  <2> QED BY <1>0, <2>1, <2>3, <2>4, <2>5 DEF SteerInv, SteerIsAnswered
<1>19. ASSUME NEW boundary \in BOOLEAN, Conclude(boundary) PROVE SteerInv'
  <2>1. at = "closing" /\ UNCHANGED <<run, steers, missed, since>>
    BY <1>19 DEF Conclude
  <2>2. CASE Finish
    <3>1. ~resume /\ UNCHANGED <<resume, tail>>
      BY <1>19, <2>1, <2>2 DEF Conclude, ToldToGoOn, Resumes, GoOn, Goto, Finish
    <3>2. since = 2 /\ \A i \in DOMAIN tail : tail[i] # Msg(run, "steer", 0)
      BY <2>1, <3>1 DEF SteerInv, Resumed
    <3>3. steers <= missed
      BY <1>0, <2>1, <3>1 DEF SteerInv, Unheard
    <3>4. at' = "rest" /\ status' = "completed"
      BY <2>2 DEF Finish
    <3> QED BY <1>0, <2>1, <3>1, <3>2, <3>3, <3>4
            DEF SteerInv, SteerIsAnswered, Resumed, Unheard, Statuses, Msg
  <2>3. CASE GoOn
    <3>1. since' >= 1
      BY <1>0, <2>1 DEF SteerInv, Resumed
    <3> QED BY <1>0, <2>1, <2>3, <3>1, GoesOnOrFails DEF GoOn, Goto
  <2> QED BY <1>19, <2>2, <2>3 DEF Conclude, ToldToGoOn
<1>20. ASSUME NEW boundary \in BOOLEAN, Collect(boundary) PROVE SteerInv'
  <2>1. at = "tools" /\ last = "tools" /\ UNCHANGED <<resume, since, last>>
    BY <1>0, <1>20 DEF Collect
  <2>2. CASE Finish
    BY <1>0, <2>1, <2>2 DEF Finish, SteerInv, SteerIsAnswered, Resumed, Unheard, Statuses
  <2>3. CASE Throw(FALSE)
    BY <1>a, <2>1, <2>3
  <2>4. CASE GoOn
    BY <1>0, <2>1, <2>4, GoesOnOrFails DEF GoOn, Goto
  <2> QED BY <1>20, <2>2, <2>3, <2>4 DEF Collect
<1> QED
  BY <1>1, <1>2, <1>3, <1>4, <1>5, <1>6, <1>7, <1>8, <1>9, <1>10, <1>11, <1>12, <1>13, <1>14,
     <1>15, <1>16, <1>17, <1>18, <1>19, <1>20
     DEF Next, Execute, Answer

\* At first nothing has been said.
LEMMA InitSteer == Init => SteerInv
BY DEF Init, SteerInv, SteerIsAnswered, Resumed, Unheard, Statuses

-----------------------------------------------------------------------------
(* All together.                                                           *)

AllInv == SteerInv /\ LoopInv /\ PoolInv /\ PlaceInv /\ BudgetInv /\ InputInv

\* Sequences of calls that are not too long.
LEMMA BoundedCalls ==
  ASSUME NEW cs \in Seq(Calls), Len(cs) <= MaxCalls
  PROVE  cs \in BoundedSeq(Calls, MaxCalls)
<1>1. Len(cs) \in 0 .. MaxCalls /\ DOMAIN cs = 1 .. Len(cs) /\ cs \in [1 .. Len(cs) -> Calls]
  BY LenProperties, ConstantsAssumption
<1> QED BY <1>1 DEF BoundedSeq, SeqOf

LEMMA CountsAreTyped == AllInv => TypeOK
<1> SUFFICES ASSUME AllInv PROVE TypeOK
  OBVIOUS
<1>1. PlaceInv /\ BudgetInv /\ InputInv /\ PoolInv
  BY DEF AllInv
<1>2. /\ run \in 0 .. MaxRuns /\ status \in Statuses /\ ((status = "running") <=> (at # "rest"))
      /\ tail \in Seq(Messages) /\ calls \in [Runs -> Seq(Calls)]
      /\ \A r \in Runs : Len(calls[r]) <= MaxCalls /\ since \in 0 .. 2
  BY DEF AllInv, SteerInv, LoopInv, CallTypes
<1>3. \A i \in DOMAIN tail : tail[i] \in [run : Runs, role : Roles, n : 0 .. MaxCalls]
  BY <1>2, LenProperties, ElementOfSeq DEF Messages
<1>4. calls \in [Runs -> BoundedSeq([kind : Kinds, st : Steps], MaxCalls)]
  BY <1>2, BoundedCalls DEF Calls
<1>5. since \in 0 .. 2
  BY DEF AllInv, SteerInv
<1>6. {halted, overflowed, asked, worked, promised, resume} \subseteq BOOLEAN
  BY <1>1 DEF PlaceInv, BudgetInv, InputInv
<1>7. /\ status \in {"idle", "running", "completed", "aborted", "failed"}
      /\ at \in {"rest", "starting", "top", "backoff", "closing", "asking", "tools"}
                \cup Requesting
      /\ turn \in [cut : BOOLEAN, attempts : 0 .. Retries, continued : BOOLEAN, unsure : BOOLEAN,
                   text : Texts]
  BY <1>1, <1>2 DEF PlaceInv, Places, Turns, Statuses
<1> QED BY <1>1, <1>2, <1>3, <1>4, <1>5, <1>6, <1>7
        DEF TypeOK, PlaceInv, BudgetInv, InputInv, PoolInv

LEMMA AllHolds == Spec => []AllInv
<1>1. Init => AllInv
  BY InitSteer, InitLoop, InitCounts DEF AllInv
<1>2. AllInv /\ [Next]_vars => AllInv'
  BY SteerKeeps, LoopKeeps, PoolKeeps, PlacesKeep, BudgetsKeep, InputsKeep DEF AllInv
<1> QED BY <1>1, <1>2, PTL DEF Spec

\* A run that ends because the model has no more to call has read the last message of the user,
\* answered it and been told to go on, wherever in a request, a retry or a compaction the message
\* arrived; unread are only those that came after the stream of its last turn had ended.
THEOREM UserIsAnswered == Spec => []SteerIsAnswered
<1>1. AllInv => SteerIsAnswered
  BY DEF AllInv, SteerInv
<1> QED BY <1>1, AllHolds, PTL

\* However the tools of a turn, of a run that was stopped and of the next one end: every call is
\* answered in its place, the pool never executes more calls at once than were asked for, nor two
\* when one at a time was asked for, and no guard spends more than its budget.
THEOREM CallsAreKept == Spec => []CallsInv
<1>1. AllInv => CallsInv
  <2>1. AllInv => CallsAnswered
    BY OneOfThemAnswers DEF AllInv
  <2>2. AllInv => PoolBounded
    BY PoolIsBounded DEF AllInv
  <2> QED BY <2>1, <2>2, CountsAreTyped DEF CallsInv
<1> QED BY <1>1, AllHolds, PTL

\* After abort() no request is opened, from wherever in a retry, a compaction or the preparation
\* of a request it comes.
THEOREM AbortIsFinal == Spec => AbortSendsNothing
<1>1. ASSUME [Next]_vars, halted, at # "stream" PROVE at' # "stream"
  <2> USE DEF input, tools, budgets, config
  <2>1. CASE UNCHANGED vars \/ StartRun \/ Abort \/ SendSteer \/ ToolEnds \/ HookStops
    BY <1>1, <2>1 DEF vars, StartRun, Abort, SendSteer, ToolEnds, FinishCall, HookStops, Throw
  <2>2. CASE \/ Begin \/ TurnBegin \/ Prepare \/ OpenRequest \/ LeaveStream \/ Backoff
             \/ PrepareCall \/ ToolsStop
    BY <1>1, <2>2 DEF Begin, TurnBegin, Prepare, OpenRequest, MayAsk, LeaveStream, Backoff,
           PrepareCall, ToolsStop, Throw, Goto, GoOn
  <2>3. ASSUME NEW boundary \in BOOLEAN, Conclude(boundary) \/ Collect(boundary)
        PROVE  at' # "stream"
    BY <2>3 DEF Conclude, ToldToGoOn, Collect, Throw, Goto, GoOn, Finish
  <2>4. CASE Answer
    BY <1>1, <2>4 DEF Answer, Truncated, ProviderFails, Unparsable, Overflow, UnknownFinish,
           SilentTurn, ToolTurn, Answered
  <2> QED BY <1>1, <2>1, <2>2, <2>3, <2>4 DEF Next, Execute
<1> QED BY <1>1, PTL DEF Spec, AbortSendsNothing

=============================================================================
