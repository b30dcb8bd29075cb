------------------------- MODULE CronRunQueueProofs -------------------------
(***************************************************************************)
(* Proofs about CronRunQueue, for every number of runners, specs, runs,    *)
(* claims and clock ticks.                                                 *)
(***************************************************************************)
EXTENDS CronRunQueue, FiniteSetTheorems, WellFoundedInduction, TLAPS

(***************************************************************************)
(* The inductive invariant.  ClaimsAreWorkedOn, SessionOfLatestClaim and   *)
(* ReportOfLatestClaim support each other; beyond them one needs that      *)
(* tokens are fresh and that a reporting execution settled its row.        *)
(***************************************************************************)

\* A token is unused until its claim is made, and no claim is made twice.
TokensAreFresh ==
  \A t \in Tokens : exec[t].pc = "unused" <=> t[2] > claims[RunOf(t)]

\* A row that was inserted names its spec, and only such a row is claimed.
RowsHaveSpecs ==
  \A r \in RunIds :
    /\ runs[r].status # "absent" => runs[r].spec \in Specs
    /\ claims[r] > 0 => runs[r].status # "absent"

\* The execution that still has a report to attach is the one that settled
\* the row, and no later claim of the row exists.
ReporterSettledTheRow ==
  \A t \in Tokens : exec[t].pc = "reporting" =>
    runs[RunOf(t)].status \in Settled /\ t = <<RunOf(t), claims[RunOf(t)]>>

FencingInv ==
  /\ TypeOK
  /\ TokensAreFresh
  /\ RowsHaveSpecs
  /\ ClaimsAreWorkedOn
  /\ SessionOfLatestClaim
  /\ ReportOfLatestClaim
  /\ ReporterSettledTheRow

-----------------------------------------------------------------------------
(* Tokens, rows and executions.                                            *)

\* A token is the pair of its run and its claim number; NoToken is no token.
LEMMA TokenFacts ==
  /\ NoToken \notin Tokens
  /\ \A t \in Tokens : RunOf(t) \in RunIds /\ t[2] \in 1 .. MaxClaims /\ t = <<RunOf(t), t[2]>>
  /\ \A r \in RunIds, n \in 1 .. MaxClaims :
       <<r, n>> \in Tokens /\ RunOf(<<r, n>>) = r /\ <<r, n>>[2] = n
  /\ RunIds \subseteq Nat
BY ConstantsAssumption DEF Tokens, NoToken, RunIds, RunOf

\* The statements of the store keep rows well formed.
LEMMA RowTypes ==
  ASSUME NEW row \in Row, NEW t \in Tokens, now \in Nat
  PROVE  /\ NoRow \in Row
         /\ Renewed(row) \in Row
         /\ ClaimedRow(row, t) \in Row
         /\ Requeued(row) \in Row
         /\ \A st \in Settled, u \in Tokens \cup {NoToken} : Completed(row, st, u) \in Row
<1>1. NoRow \in Row
  BY DEF NoRow, Row
<1>2. Renewed(row) \in Row
  BY ConstantsAssumption DEF Renewed, Row
<1>3. ClaimedRow(row, t) \in Row
  <2>1. /\ row.attempts + 1 \in Nat
        /\ now + Lease \in Nat
    BY ConstantsAssumption DEF Row
  <2> QED
    BY <2>1 DEF ClaimedRow, Row
<1>4. Requeued(row) \in Row
  <2>1. (IF row.attempts > 0 THEN row.attempts - 1 ELSE 0) \in Nat
    BY DEF Row
  <2> QED
    BY <2>1 DEF Requeued, Row
<1>5. ASSUME NEW st \in Settled, NEW u \in Tokens \cup {NoToken}
      PROVE  Completed(row, st, u) \in Row
  BY DEF Completed, Row
<1> QED
  BY <1>1, <1>2, <1>3, <1>4, <1>5

\* A fresh or returned execution is well formed.
LEMMA ExecTypes ==
  /\ \A R \in Runners, pc \in {"claimed", "dead"} : NewExec(R, pc) \in Exec
  /\ \A pc \in {"unused", "dead"} : NewExec(None, pc) \in Exec
  /\ \A e \in Exec, pc \in {"ended", "released", "unused", "dead"},
        sess \in {"none", "starting", "open", "closed", "late"} : Ended(e, pc, sess) \in Exec
BY DEF NewExec, Ended, Exec

\* A returned execution has the pc it returned with.
LEMMA EndedPc ==
  ASSUME NEW e \in Exec, NEW pc, NEW sess
  PROVE  Ended(e, pc, sess).pc = pc
BY DEF Ended, NewExec, Exec

\* Replacing one execution leaves the others alone.
LEMMA OneExecChanges ==
  ASSUME exec \in [Tokens -> Exec], NEW t \in Tokens, NEW e, exec' = [exec EXCEPT ![t] = e]
  PROVE  exec'[t] = e /\ \A u \in Tokens : u # t => exec'[u] = exec[u]
OBVIOUS

\* controller.abort changes nothing of an execution but its abort reason.
LEMMA AbortedFacts ==
  ASSUME NEW ex \in [Tokens -> Exec], NEW S, NEW why \in {"cancelled", "timeout"}
  PROVE  /\ Aborted(ex, S, why) \in [Tokens -> Exec]
         /\ \A t \in Tokens : /\ Aborted(ex, S, why)[t].pc = ex[t].pc
                              /\ Aborted(ex, S, why)[t].runner = ex[t].runner
                              /\ Aborted(ex, S, why)[t].sess = ex[t].sess
                              /\ ex[t].abort # "no" => Aborted(ex, S, why)[t] = ex[t]
BY DEF Aborted, Exec

-----------------------------------------------------------------------------
(* Types.                                                                  *)

\* The initial state is well formed.
LEMMA InitTypes == Init => TypeOK
BY ExecTypes, ConstantsAssumption DEF Init, TypeOK, NoRow, Row, RunIds

\* The finally block keeps types.
LEMMA LeaveTypes ==
  ASSUME TypeOK, NEW t \in Tokens,
         NEW sess \in {"none", "starting", "open", "closed", "late"}, Leave(t, sess)
  PROVE  exec' \in [Tokens -> Exec] /\ active' \in [Runners -> [RunIds -> Tokens \cup {NoToken}]]
<1>1. CASE sess = "open"
  <2>1. [exec[t] EXCEPT !.pc = "closing", !.sess = sess, !.hb = FALSE] \in Exec
    BY DEF TypeOK, Exec
  <2> QED
    BY <1>1, <2>1 DEF TypeOK, Leave
<1>2. CASE sess # "open"
  <2>1. exec' = [exec EXCEPT ![t] = Ended(exec[t], "ended", sess)]
    BY <1>2 DEF Leave
  <2>2. Ended(exec[t], "ended", sess) \in Exec
    BY ExecTypes DEF TypeOK
  <2>3. exec' \in [Tokens -> Exec]
    BY <2>1, <2>2 DEF TypeOK
  <2>4. active' \in [Runners -> [RunIds -> Tokens \cup {NoToken}]]
    BY <1>2 DEF TypeOK, Leave
  <2> QED
    BY <2>3, <2>4
<1> QED
  BY <1>1, <1>2

\* completeRun keeps types.
LEMMA FinishTypes ==
  ASSUME TypeOK, NEW t \in Tokens, NEW status \in Settled,
         NEW sess \in {"none", "starting", "open", "closed", "late"},
         Finish(t, status, sess)
  PROVE  TypeOK'
<1>1. RunOf(t) \in RunIds
  BY TokenFacts
<1>2. runs' \in [RunIds -> Row]
  <2>1. runs[RunOf(t)] \in Row /\ now \in Nat
    BY <1>1 DEF TypeOK
  <2>2. \A u \in Tokens \cup {NoToken} : Completed(runs[RunOf(t)], status, u) \in Row
    BY <2>1, RowTypes
  <2> QED
    BY <1>1, <2>2 DEF TypeOK, Finish
<1>3. exec' \in [Tokens -> Exec] /\ active' \in [Runners -> [RunIds -> Tokens \cup {NoToken}]]
  <2>1. CASE Holds(t)
    <3>1. [exec[t] EXCEPT !.pc = "reporting", !.sess = sess] \in Exec
      BY DEF TypeOK, Exec
    <3> QED
      BY <2>1, <3>1 DEF TypeOK, Finish
  <2>2. CASE ~Holds(t)
    BY <2>2, LeaveTypes DEF Finish
  <2> QED
    BY <2>1, <2>2
<1> QED
  BY <1>2, <1>3 DEF TypeOK, Finish

\* A tick keeps types.
LEMMA TickTypes ==
  ASSUME TypeOK, NEW R \in Runners, Tick(R)
  PROVE  TypeOK'
<1> DEFINE renewed == RenewLocalClaims(R)
           checked == Aborted(exec, {t \in LocalClaims(R) : ~Holds(t)}, "cancelled")
<1>1. PICK C \in SUBSET {r \in RunIds : ClaimDue(renewed, r)} :
        /\ \A r \in C : claims[r] < MaxClaims
        /\ runs' = [r \in RunIds |->
                      IF r \in C THEN ClaimedRow(renewed[r], <<r, claims[r] + 1>>)
                      ELSE renewed[r]]
        /\ claims' = [r \in RunIds |-> IF r \in C THEN claims[r] + 1 ELSE claims[r]]
        /\ exec' = [t \in Tokens |->
                      IF RunOf(t) \in C /\ t[2] = claims[RunOf(t)] + 1
                      THEN NewExec(R, "claimed") ELSE checked[t]]
  BY DEF Tick
<1>2. ASSUME NEW r \in RunIds
      PROVE  Renewed(runs[r]) \in Row
  <2>1. runs[r] \in Row /\ now + Lease \in Nat
    BY ConstantsAssumption DEF TypeOK
  <2> QED
    BY <2>1 DEF Renewed, Row
<1>3. renewed \in [RunIds -> Row]
  BY <1>2 DEF TypeOK, RenewLocalClaims
<1>4. runs' \in [RunIds -> Row]
  <2>1. ASSUME NEW r \in C
        PROVE  ClaimedRow(renewed[r], <<r, claims[r] + 1>>) \in Row
    <3>1. <<r, claims[r] + 1>> \in Tokens
      BY <1>1, TokenFacts, ConstantsAssumption DEF TypeOK
    <3>2. renewed[r] \in Row /\ now \in Nat
      BY <1>3 DEF TypeOK
    <3> QED
      BY <3>1, <3>2, RowTypes
  <2> QED
    BY <1>1, <1>3, <2>1
<1>5. claims' \in [RunIds -> 0 .. MaxClaims]
  BY <1>1, ConstantsAssumption DEF TypeOK
<1>6. exec' \in [Tokens -> Exec]
  <2>1. checked \in [Tokens -> Exec]
    BY AbortedFacts DEF TypeOK
  <2> QED
    BY <1>1, <2>1, ExecTypes
<1> QED
  BY <1>4, <1>5, <1>6 DEF TypeOK, Tick

\* Every step of an execution keeps types.
LEMMA ExecuteTypes ==
  ASSUME TypeOK, RowsHaveSpecs, TokensAreFresh, NEW t \in Tokens, Execute(t)
  PROVE  TypeOK'
<1>1. RunOf(t) \in RunIds /\ runs[RunOf(t)] \in Row /\ exec[t] \in Exec /\ now \in Nat
  <2>1. RunOf(t) \in RunIds
    BY TokenFacts
  <2> QED
    BY <2>1 DEF TypeOK
<1>2. exec[t].sess \in {"none", "starting", "open", "closed", "late"}
  BY <1>1 DEF Exec
<1>3. AbortStatus(t) \in Settled
  BY DEF AbortStatus, Settled
<1>4. CASE Begin(t)
  <2>1. /\ Completed(runs[RunOf(t)], "cancelled", NoToken) \in Row
        /\ Requeued(runs[RunOf(t)]) \in Row
    BY <1>1, RowTypes DEF Settled
  <2>2. runs' \in [RunIds -> Row]
    BY <1>4, <2>1 DEF TypeOK, Begin
  <2>3. ASSUME NEW s \in Specs
        PROVE  [exec[t] EXCEPT !.pc = "preparing", !.hb = TRUE, !.deadline = DeadlineOf(s)] \in Exec
    <3>1. DeadlineOf(s) \in Nat
      BY <1>1, ConstantsAssumption DEF DeadlineOf
    <3> QED
      BY <1>1, <3>1 DEF Exec
  <2>4. /\ Ended(exec[t], "ended", "none") \in Exec
        /\ Ended(exec[t], "released", "none") \in Exec
    BY <1>1, ExecTypes
  <2>5. exec' \in [Tokens -> Exec] /\ active' \in [Runners -> [RunIds -> Tokens \cup {NoToken}]]
    <3>1. claims[RunOf(t)] > 0
      BY <1>1, <1>4, TokenFacts DEF TypeOK, Begin, TokensAreFresh
    <3>2. runs[RunOf(t)].spec \in Specs
      BY <1>1, <3>1 DEF RowsHaveSpecs
    <3> DEFINE e == [exec[t] EXCEPT !.pc = "preparing", !.hb = TRUE,
                                    !.deadline = DeadlineOf(runs[RunOf(t)].spec)]
    <3>3. e \in Exec
      BY <2>3, <3>2
    <3>4. \/ exec' = [exec EXCEPT ![t] = Ended(exec[t], "ended", "none")] /\ active' = active
          \/ exec' = [exec EXCEPT ![t] = Ended(exec[t], "released", "none")] /\ active' = active
          \/ exec' = [exec EXCEPT ![t] = e]
               /\ active' = [active EXCEPT ![exec[t].runner][RunOf(t)] = t]
      BY <1>4 DEF Begin
    <3> HIDE DEF e
    <3>5. exec \in [Tokens -> Exec] /\ active \in [Runners -> [RunIds -> Tokens \cup {NoToken}]]
      BY DEF TypeOK
    <3>6. exec' \in [Tokens -> Exec]
      BY <2>4, <3>3, <3>4, <3>5
    <3>7. active' \in [Runners -> [RunIds -> Tokens \cup {NoToken}]]
      BY <1>1, <3>4, <3>5
    <3> QED
      BY <3>6, <3>7
  <2> QED
    BY <1>4, <2>2, <2>5 DEF TypeOK, Begin
<1>5. CASE RequestBuilt(t)
  <2>1. /\ [exec[t] EXCEPT !.pc = "starting", !.sess = "starting"] \in Exec
        /\ [exec[t] EXCEPT !.abort = "timeout"] \in Exec
    BY <1>1 DEF Exec
  <2> QED
    BY <1>5, <2>1 DEF TypeOK, RequestBuilt
<1>6. CASE SessionStarted(t)
  <2>1. /\ [[exec[t] EXCEPT !.sess = "open"] EXCEPT !.abort = "timeout"] \in Exec
        /\ [[exec[t] EXCEPT !.sess = "open"] EXCEPT !.pc = "sending"] \in Exec
        /\ [[exec[t] EXCEPT !.sess = "open"] EXCEPT !.abort = "cancelled"] \in Exec
    BY <1>1 DEF Exec
  <2>2. [runs[RunOf(t)] EXCEPT !.session = t] \in Row
    BY <1>1 DEF Row
  <2> QED
    BY <1>1, <1>6, <2>1, <2>2 DEF TypeOK, SessionStarted
<1>7. CASE LateStart(t)
  <2>1. /\ Ended(exec[t], "ended", "late") \in Exec
        /\ [exec[t] EXCEPT !.sess = "late"] \in Exec
    BY <1>1, ExecTypes DEF Exec
  <2> QED
    BY <1>7, <2>1 DEF TypeOK, LateStart
<1>8. CASE TurnFinished(t)
  <2>1. [exec[t] EXCEPT !.abort = "timeout"] \in Exec
    BY <1>1 DEF Exec
  <2>2. CASE Overdue(t)
    BY <1>8, <2>1, <2>2 DEF TypeOK, TurnFinished
  <2>3. CASE ~Overdue(t)
    BY <1>2, <1>8, <2>3, FinishTypes DEF TurnFinished, Settled
  <2> QED
    BY <2>2, <2>3
<1>9. CASE StepFails(t)
  BY <1>2, <1>9, FinishTypes DEF StepFails, Settled
<1>10. CASE Unwind(t)
  <2>1. [exec[t] EXCEPT !.pc = "cleanup"] \in Exec
    BY <1>1 DEF Exec
  <2>2. CASE exec[t].sess = "open"
    BY <1>10, <2>1, <2>2 DEF TypeOK, Unwind
  <2>3. CASE exec[t].sess # "open"
    BY <1>2, <1>3, <1>10, <2>3, FinishTypes DEF Unwind
  <2> QED
    BY <2>2, <2>3
<1>11. CASE CleanedUp(t)
  BY <1>3, <1>11, FinishTypes DEF CleanedUp
<1>12. ASSUME NEW written \in BOOLEAN, Report(t, written)
       PROVE  TypeOK'
  <2>1. [runs[RunOf(t)] EXCEPT !.report = t] \in Row
    BY <1>1 DEF Row
  <2>2. runs' \in [RunIds -> Row]
    BY <1>1, <1>12, <2>1 DEF TypeOK, Report
  <2> QED
    BY <1>2, <1>12, <2>2, LeaveTypes DEF TypeOK, Report
<1>13. CASE Closed(t)
  BY <1>13, LeaveTypes DEF TypeOK, Closed
<1> QED
  BY <1>4, <1>5, <1>6, <1>7, <1>8, <1>9, <1>10, <1>11, <1>12, <1>13 DEF Execute

\* Every step of the system keeps types.
LEMMA NextTypes ==
  ASSUME TypeOK, RowsHaveSpecs, TokensAreFresh, [Next]_vars
  PROVE  TypeOK'
<1>1. CASE UNCHANGED vars
  BY <1>1 DEF TypeOK, vars
<1>2. CASE Advance
  BY <1>2, ConstantsAssumption DEF TypeOK, Advance
<1>3. ASSUME NEW s \in Specs, ToggleSpec(s)
      PROVE  TypeOK'
  BY <1>3 DEF TypeOK, ToggleSpec
<1>4. ASSUME NEW s \in Specs, RemoveSpec(s)
      PROVE  TypeOK'
  <2>1. ASSUME NEW r \in RunIds
        PROVE  [runs[r] EXCEPT !.status = "cancelled"] \in Row
    <3>1. runs[r] \in Row
      BY DEF TypeOK
    <3> QED
      BY <3>1 DEF Row, Settled
  <2>2. runs' \in [RunIds -> Row]
    BY <1>4, <2>1 DEF TypeOK, RemoveSpec
  <2> QED
    BY <1>4, <2>2 DEF TypeOK, RemoveSpec
<1>5. ASSUME NEW r \in RunIds, NEW s \in Specs, NEW due \in 0 .. MaxNow, EnqueueRun(r, s, due)
      PROVE  TypeOK'
  <2>1. [NoRow EXCEPT !.spec = s, !.status = "queued", !.due = due] \in Row
    <3>1. due \in Nat
      BY ConstantsAssumption
    <3>2. NoRow \in Row
      BY DEF NoRow, Row
    <3> QED
      BY <3>1, <3>2 DEF Row
  <2> QED
    BY <1>5, <2>1 DEF TypeOK, EnqueueRun
<1>6. ASSUME NEW R \in Runners, Tick(R)
      PROVE  TypeOK'
  BY <1>6, TickTypes
<1>7. ASSUME NEW R \in Runners, Stop(R) \/ Stopped(R) \/ Start(R)
      PROVE  TypeOK'
  <2>1. Aborted(exec, LocalClaims(R), "cancelled") \in [Tokens -> Exec]
    BY AbortedFacts DEF TypeOK
  <2> QED
    BY <1>7, <2>1 DEF TypeOK, Stop, Stopped, Start
<1>8. ASSUME NEW R \in Runners, Crash(R)
      PROVE  TypeOK'
  <2>1. ASSUME NEW t \in Tokens, exec[t].pc \notin InFlight
        PROVE  Ended(exec[t], exec[t].pc, "none") \in Exec
    <3>1. exec[t].pc \in {"ended", "released", "unused", "dead"} /\ exec[t] \in Exec
      BY <2>1 DEF TypeOK, Exec, InFlight, Working, Awaiting
    <3> QED
      BY <3>1, ExecTypes
  <2>2. exec' \in [Tokens -> Exec]
    BY <1>8, <2>1, ExecTypes DEF TypeOK, Crash
  <2> QED
    BY <1>8, <2>2 DEF TypeOK, Crash
<1>9. ASSUME NEW t \in Tokens, Heartbeat(t)
      PROVE  TypeOK'
  <2>1. RunOf(t) \in RunIds /\ now + Lease \in Nat
    BY TokenFacts, ConstantsAssumption DEF TypeOK
  <2>2. Renewed(runs[RunOf(t)]) \in Row
    BY <2>1 DEF TypeOK, Renewed, Row
  <2>3. [exec EXCEPT ![t].hb = FALSE] \in [Tokens -> Exec]
    <3>1. [exec[t] EXCEPT !.hb = FALSE] \in Exec
      BY DEF TypeOK, Exec
    <3> QED
      BY <3>1 DEF TypeOK
  <2>4. Aborted([exec EXCEPT ![t].hb = FALSE], {active[exec[t].runner][RunOf(t)]}, "cancelled")
          \in [Tokens -> Exec]
    BY <2>3, AbortedFacts
  <2> QED
    BY <1>9, <2>1, <2>2, <2>4 DEF TypeOK, Heartbeat
<1>10. ASSUME NEW t \in Tokens, DeadlineFires(t)
       PROVE  TypeOK'
  <2>1. [exec[t] EXCEPT !.abort = "timeout"] \in Exec
    BY DEF TypeOK, Exec
  <2> QED
    BY <1>10, <2>1 DEF TypeOK, DeadlineFires
<1>11. ASSUME NEW t \in Tokens, Execute(t)
       PROVE  TypeOK'
  BY <1>11, ExecuteTypes
<1> QED
  BY <1>1, <1>2, <1>3, <1>4, <1>5, <1>6, <1>7, <1>8, <1>9, <1>10, <1>11 DEF Next

-----------------------------------------------------------------------------
(* Fencing.                                                                *)

Owners == (InFlight \ {"reporting", "closing"}) \cup {"dead"}

\* An execution works on a row that exists.
LEMMA ClaimedRowsExist ==
  ASSUME FencingInv, NEW t \in Tokens, exec[t].pc # "unused"
  PROVE  runs[RunOf(t)].status # "absent" /\ runs[RunOf(t)].spec \in Specs
<1>1. t[2] \in 1 .. MaxClaims /\ RunOf(t) \in RunIds
  BY TokenFacts
<1>2. claims[RunOf(t)] \in 0 .. MaxClaims
  BY <1>1 DEF FencingInv, TypeOK
<1>3. ~(t[2] > claims[RunOf(t)])
  BY DEF FencingInv, TokensAreFresh
<1>4. claims[RunOf(t)] > 0
  BY <1>1, <1>2, <1>3, ConstantsAssumption
<1> QED
  BY <1>1, <1>4 DEF FencingInv, RowsHaveSpecs

(***************************************************************************)
(* What a step of one execution t may do to the table: it rewrites at most *)
(* its own row, leaves a row it does not own settled or claimed as it is,  *)
(* and moves on after giving up its claim.  Such a step keeps FencingInv.  *)
(***************************************************************************)
LEMMA LocalStep ==
  ASSUME FencingInv, TypeOK', NEW t \in Tokens, NEW row \in Row,
         claims' = claims,
         runs' = [runs EXCEPT ![RunOf(t)] = row],
         \A u \in Tokens : u # t => exec'[u].pc = exec[u].pc,
         exec[t].pc # "unused", exec'[t].pc # "unused",
         row.spec = runs[RunOf(t)].spec,
         row.status # "absent",
         row.status = "running" <=> row.token # NoToken,
         row.token # NoToken => row.token = runs[RunOf(t)].token,
         row.token = t => exec'[t].pc \in Owners,
         row.session \in {NoToken, runs[RunOf(t)].session} \/ (Holds(t) /\ row.session = t),
         \/ row.report = NoToken
         \/ row.report = runs[RunOf(t)].report
         \/ row.report = t /\ exec[t].pc = "reporting",
         runs[RunOf(t)].status \in Settled => row.status = runs[RunOf(t)].status,
         exec'[t].pc = "reporting" => Holds(t) /\ row.status \in Settled
  PROVE  FencingInv'
<1> DEFINE r0 == RunOf(t)
<1>1. r0 \in RunIds /\ t = <<r0, t[2]>> /\ NoToken \notin Tokens
  BY TokenFacts
<1>2. runs'[r0] = row /\ \A r \in RunIds : r # r0 => runs'[r] = runs[r]
  BY <1>1 DEF FencingInv, TypeOK
<1>3. Holds(t) => t = <<r0, claims[r0]>>
  BY <1>1 DEF FencingInv, ClaimsAreWorkedOn, Holds
<1>4. TokensAreFresh'
  BY DEF FencingInv, TokensAreFresh
<1>5. RowsHaveSpecs'
  BY <1>1, <1>2, ClaimedRowsExist DEF FencingInv, RowsHaveSpecs
<1>6. ClaimsAreWorkedOn'
  <2> SUFFICES ASSUME NEW r \in RunIds
               PROVE  /\ runs'[r].status = "running" <=> runs'[r].token # NoToken
                      /\ runs'[r].token # NoToken =>
                           /\ runs'[r].token = <<r, claims[r]>>
                           /\ exec'[<<r, claims[r]>>].pc \in Owners
    BY DEF ClaimsAreWorkedOn, Owners
  <2>1. CASE r # r0
    <3>1. runs[r].token # NoToken => runs[r].token \in Tokens /\ runs[r].token # t
      <4>1. runs[r].token \in Tokens \cup {NoToken}
        BY DEF FencingInv, TypeOK, Row
      <4>2. runs[r].token # NoToken => runs[r].token = <<r, claims[r]>>
        BY DEF FencingInv, ClaimsAreWorkedOn
      <4>3. <<r, claims[r]>> # t
        BY <2>1 DEF RunOf
      <4> QED
        BY <4>1, <4>2, <4>3
    <3> QED
      BY <1>2, <2>1, <3>1 DEF FencingInv, ClaimsAreWorkedOn, Owners
  <2>2. CASE r = r0
    <3>1. row.token \in Tokens \cup {NoToken}
      BY DEF Row
    <3>2. row.token # NoToken => row.token = <<r, claims[r]>> /\ exec[row.token].pc \in Owners
      BY <2>2, <1>1 DEF FencingInv, ClaimsAreWorkedOn, Owners
    <3> QED
      BY <1>2, <2>2, <3>1, <3>2
  <2> QED
    BY <2>1, <2>2
<1>7. SessionOfLatestClaim'
  BY <1>1, <1>2, <1>3 DEF FencingInv, SessionOfLatestClaim
<1>8. ReportOfLatestClaim'
  BY <1>1, <1>2 DEF FencingInv, ReportOfLatestClaim, ReporterSettledTheRow
<1>9. ReporterSettledTheRow'
  <2> SUFFICES ASSUME NEW u \in Tokens, exec'[u].pc = "reporting"
               PROVE  runs'[RunOf(u)].status \in Settled /\ u = <<RunOf(u), claims[RunOf(u)]>>
    BY DEF ReporterSettledTheRow
  <2>1. CASE u = t
    BY <1>1, <1>2, <1>3, <2>1
  <2>2. CASE u # t
    <3>1. exec[u].pc = "reporting" /\ RunOf(u) \in RunIds
      BY <2>2, TokenFacts
    <3> QED
      BY <1>1, <1>2, <3>1 DEF FencingInv, ReporterSettledTheRow
  <2> QED
    BY <2>1, <2>2
<1> QED
  BY <1>4, <1>5, <1>6, <1>7, <1>8, <1>9 DEF FencingInv

\* A step that leaves the table alone and at most kills executions keeps it too.
LEMMA QuietStep ==
  ASSUME FencingInv, TypeOK', claims' = claims, runs' = runs,
         \A u \in Tokens : \/ exec'[u].pc = exec[u].pc
                           \/ exec[u].pc \in InFlight /\ exec'[u].pc = "dead"
  PROVE  FencingInv'
<1>1. TokensAreFresh'
  BY DEF FencingInv, TokensAreFresh, InFlight, Working, Awaiting
<1>2. ClaimsAreWorkedOn'
  <2>1. \A r \in RunIds : runs[r].token # NoToken => <<r, claims[r]>> \in Tokens
    BY DEF FencingInv, TypeOK, Row, ClaimsAreWorkedOn
  <2> QED
    BY <2>1 DEF FencingInv, ClaimsAreWorkedOn
<1>3. ReporterSettledTheRow'
  BY DEF FencingInv, ReporterSettledTheRow
<1>4. RowsHaveSpecs' /\ SessionOfLatestClaim' /\ ReportOfLatestClaim'
  BY DEF FencingInv, RowsHaveSpecs, SessionOfLatestClaim, ReportOfLatestClaim
<1> QED
  BY <1>1, <1>2, <1>3, <1>4 DEF FencingInv

\* The finally block moves only its own execution, to "closing" or "ended".
LEMMA LeaveStep ==
  ASSUME TypeOK, NEW t \in Tokens, NEW sess, Leave(t, sess)
  PROVE  /\ exec'[t].pc \in {"closing", "ended"}
         /\ \A u \in Tokens : u # t => exec'[u].pc = exec[u].pc
<1>1. exec \in [Tokens -> Exec] /\ exec[t] \in Exec
  BY DEF TypeOK
<1>2. CASE sess = "open"
  <2> DEFINE e == [exec[t] EXCEPT !.pc = "closing", !.sess = sess, !.hb = FALSE]
  <2>1. exec' = [exec EXCEPT ![t] = e]
    BY <1>2 DEF Leave
  <2>2. e.pc = "closing"
    BY <1>1 DEF Exec
  <2> HIDE DEF e
  <2> QED
    BY <1>1, <2>1, <2>2, OneExecChanges
<1>3. CASE sess # "open"
  <2>1. exec' = [exec EXCEPT ![t] = Ended(exec[t], "ended", sess)]
    BY <1>3 DEF Leave
  <2> QED
    BY <1>1, <2>1, EndedPc, OneExecChanges
<1> QED
  BY <1>2, <1>3

\* completeRun under the token, or the return of a superseded execution.
LEMMA FinishStep ==
  ASSUME FencingInv, TypeOK', NEW t \in Tokens, NEW status \in Settled, NEW sess,
         Finish(t, status, sess), exec[t].pc \in Working
  PROVE  FencingInv'
<1>1. RunOf(t) \in RunIds /\ runs[RunOf(t)] \in Row /\ exec[t] \in Exec /\ t # NoToken
  BY TokenFacts DEF FencingInv, TypeOK
<1>2. CASE Holds(t)
  <2> DEFINE row == Completed(runs[RunOf(t)], status,
                              IF sess \in {"open", "closed"} THEN t ELSE NoToken)
  <2>1. row \in Row
    <3>1. now \in Nat
      BY DEF FencingInv, TypeOK
    <3> QED
      BY <1>1, <3>1, RowTypes
  <2>2. /\ row.spec = runs[RunOf(t)].spec
        /\ row.status = status /\ row.token = NoToken /\ row.report = runs[RunOf(t)].report
        /\ row.session \in {t, runs[RunOf(t)].session}
    BY <1>1 DEF Completed, Row
  <2>3. runs' = [runs EXCEPT ![RunOf(t)] = row] /\ claims' = claims
    BY <1>2 DEF Finish
  <2>4. /\ exec'[t].pc = "reporting"
        /\ \A u \in Tokens : u # t => exec'[u].pc = exec[u].pc
    <3> DEFINE e == [exec[t] EXCEPT !.pc = "reporting", !.sess = sess]
    <3>1. exec' = [exec EXCEPT ![t] = e] /\ exec \in [Tokens -> Exec]
      BY <1>2 DEF Finish, FencingInv, TypeOK
    <3>2. e.pc = "reporting"
      BY <1>1 DEF Exec
    <3> HIDE DEF e
    <3> QED
      BY <3>1, <3>2, OneExecChanges
  <2>5. runs[RunOf(t)].status = "running"
    BY <1>1, <1>2 DEF FencingInv, ClaimsAreWorkedOn, Holds
  <2> HIDE DEF row
  <2> QED
    BY <1>1, <1>2, <2>1, <2>2, <2>3, <2>4, <2>5, LocalStep DEF Settled, Working, Awaiting
<1>3. CASE ~Holds(t)
  <2>1. runs' = [runs EXCEPT ![RunOf(t)] = runs[RunOf(t)]] /\ claims' = claims
    BY <1>1, <1>3 DEF Finish, FencingInv, TypeOK
  <2>2. /\ exec'[t].pc \in {"closing", "ended"}
        /\ \A u \in Tokens : u # t => exec'[u].pc = exec[u].pc
    BY <1>3, LeaveStep DEF Finish, FencingInv
  <2>3. runs[RunOf(t)].token # t
    BY <1>3 DEF Holds
  <2>4. runs[RunOf(t)].status # "absent"
    BY <1>1, ClaimedRowsExist DEF Working, Awaiting
  <2>5. runs[RunOf(t)].status = "running" <=> runs[RunOf(t)].token # NoToken
    BY <1>1 DEF FencingInv, ClaimsAreWorkedOn
  <2> QED
    BY <1>1, <2>1, <2>2, <2>3, <2>4, <2>5, LocalStep DEF Working, Awaiting
<1> QED
  BY <1>2, <1>3

\* A step that moves one execution on without touching the table.
LEMMA PcStep ==
  ASSUME FencingInv, TypeOK', NEW t \in Tokens, runs' = runs, claims' = claims,
         \A u \in Tokens : u # t => exec'[u].pc = exec[u].pc,
         exec[t].pc # "unused", exec'[t].pc \notin {"unused", "reporting"},
         Holds(t) => exec'[t].pc \in Owners
  PROVE  FencingInv'
<1>1. RunOf(t) \in RunIds /\ runs[RunOf(t)] \in Row
  BY TokenFacts DEF FencingInv, TypeOK
<1>2. runs' = [runs EXCEPT ![RunOf(t)] = runs[RunOf(t)]]
  BY <1>1 DEF FencingInv, TypeOK
<1>3. runs[RunOf(t)].status # "absent"
  BY ClaimedRowsExist
<1>4. runs[RunOf(t)].status = "running" <=> runs[RunOf(t)].token # NoToken
  BY <1>1 DEF FencingInv, ClaimsAreWorkedOn
<1>5. runs[RunOf(t)].token = t => exec'[t].pc \in Owners
  BY DEF Holds
<1> QED
  BY <1>1, <1>2, <1>3, <1>4, <1>5, LocalStep

\* The entry of executeClaim.
LEMMA BeginStep ==
  ASSUME FencingInv, TypeOK', NEW t \in Tokens, Begin(t)
  PROVE  FencingInv'
<1>1. /\ RunOf(t) \in RunIds /\ runs[RunOf(t)] \in Row /\ t # NoToken /\ now \in Nat
      /\ exec \in [Tokens -> Exec] /\ exec[t] \in Exec /\ exec[t].pc = "claimed"
      /\ claims' = claims
  BY TokenFacts DEF FencingInv, TypeOK, Begin
<1>2. PICK e :
        /\ exec' = [exec EXCEPT ![t] = e]
        /\ \/ e.pc = "ended" /\ runs' = IF Holds(t) THEN [runs EXCEPT ![RunOf(t)] =
                                             Completed(@, "cancelled", NoToken)] ELSE runs
           \/ e.pc = "released" /\ Holds(t) /\ runs' = [runs EXCEPT ![RunOf(t)] = Requeued(@)]
           \/ e.pc = "ended" /\ ~Holds(t) /\ runs' = runs
           \/ e.pc = "preparing" /\ runs' = runs
  <2>1. /\ Ended(exec[t], "ended", "none").pc = "ended"
        /\ Ended(exec[t], "released", "none").pc = "released"
    BY <1>1, EndedPc
  <2>2. [exec[t] EXCEPT !.pc = "preparing", !.hb = TRUE,
                        !.deadline = DeadlineOf(runs[RunOf(t)].spec)].pc = "preparing"
    BY <1>1 DEF Exec
  <2> QED
    BY <2>1, <2>2 DEF Begin
<1>3. exec'[t] = e /\ \A u \in Tokens : u # t => exec'[u] = exec[u]
  BY <1>1, <1>2, OneExecChanges
<1>4. CASE runs' = runs /\ (e.pc = "preparing" \/ (e.pc = "ended" /\ ~Holds(t)))
  BY <1>1, <1>3, <1>4, PcStep DEF Owners, InFlight, Working, Awaiting
<1>5. ASSUME NEW row \in Row, runs' = [runs EXCEPT ![RunOf(t)] = row], Holds(t),
             e.pc \in {"ended", "released"}, row.status \in {"cancelled", "queued"},
             row.token = NoToken, row.spec = runs[RunOf(t)].spec,
             row.session \in {NoToken, runs[RunOf(t)].session},
             row.report \in {NoToken, runs[RunOf(t)].report}
      PROVE  FencingInv'
  <2>1. runs[RunOf(t)].status = "running"
    BY <1>1, <1>5 DEF FencingInv, ClaimsAreWorkedOn, Holds
  <2> QED
    BY <1>1, <1>3, <1>5, <2>1, LocalStep DEF Settled
<1>6. CASE Holds(t) /\ e.pc = "ended" /\ runs' = [runs EXCEPT ![RunOf(t)] =
                                             Completed(@, "cancelled", NoToken)]
  <2> DEFINE row == Completed(runs[RunOf(t)], "cancelled", NoToken)
  <2>1. row \in Row
    BY <1>1, RowTypes DEF Settled
  <2>2. /\ row.spec = runs[RunOf(t)].spec /\ row.status = "cancelled" /\ row.token = NoToken
        /\ row.report = runs[RunOf(t)].report /\ row.session = runs[RunOf(t)].session
    BY <1>1 DEF Completed, Row
  <2>3. runs' = [runs EXCEPT ![RunOf(t)] = row]
    BY <1>6
  <2> HIDE DEF row
  <2> QED
    BY <1>5, <1>6, <2>1, <2>2, <2>3
<1>7. CASE Holds(t) /\ e.pc = "released" /\ runs' = [runs EXCEPT ![RunOf(t)] = Requeued(@)]
  <2> DEFINE row == Requeued(runs[RunOf(t)])
  <2>1. row \in Row
    BY <1>1, RowTypes
  <2>2. /\ row.spec = runs[RunOf(t)].spec /\ row.status = "queued" /\ row.token = NoToken
        /\ row.report = NoToken /\ row.session = NoToken
    BY <1>1 DEF Requeued, Row
  <2>3. runs' = [runs EXCEPT ![RunOf(t)] = row]
    BY <1>7
  <2> HIDE DEF row
  <2> QED
    BY <1>5, <1>7, <2>1, <2>2, <2>3
<1> QED
  BY <1>2, <1>4, <1>6, <1>7

\* Every other step of an execution.
LEMMA ExecuteStep ==
  ASSUME FencingInv, TypeOK', NEW t \in Tokens, Execute(t)
  PROVE  FencingInv'
<1>1. /\ RunOf(t) \in RunIds /\ runs[RunOf(t)] \in Row /\ t # NoToken
      /\ exec \in [Tokens -> Exec] /\ exec[t] \in Exec /\ TypeOK
  BY TokenFacts DEF FencingInv, TypeOK
<1>2. AbortStatus(t) \in Settled /\ "done" \in Settled /\ "failed" \in Settled
  BY DEF AbortStatus, Settled
<1>3. CASE Begin(t)
  BY <1>3, BeginStep
<1>4. CASE RequestBuilt(t)
  <2> DEFINE e == IF Overdue(t) THEN [exec[t] EXCEPT !.abort = "timeout"]
                  ELSE [exec[t] EXCEPT !.pc = "starting", !.sess = "starting"]
  <2>1. /\ exec' = [exec EXCEPT ![t] = e] /\ runs' = runs /\ claims' = claims
        /\ exec[t].pc = "preparing"
    BY <1>4 DEF RequestBuilt
  <2>2. e.pc \in {"preparing", "starting"}
    BY <1>1, <2>1 DEF Exec
  <2> HIDE DEF e
  <2> QED
    BY <1>1, <2>1, <2>2, OneExecChanges, PcStep DEF Owners, InFlight, Working, Awaiting
<1>5. CASE SessionStarted(t)
  <2>1. PICK e : /\ exec' = [exec EXCEPT ![t] = e] /\ e.pc \in {"starting", "sending"}
                 /\ claims' = claims /\ exec[t].pc = "starting"
                 /\ \/ runs' = runs
                    \/ /\ runs' = [runs EXCEPT ![RunOf(t)].session = t]
                       /\ Holds(t) /\ runs[RunOf(t)].status = "running"
    <3> DEFINE opened == [exec[t] EXCEPT !.sess = "open"]
    <3>1. exec[t].pc = "starting"
      BY <1>5 DEF SessionStarted
    <3>2. /\ [opened EXCEPT !.abort = "timeout"].pc = "starting"
          /\ [opened EXCEPT !.pc = "sending"].pc = "sending"
          /\ [opened EXCEPT !.abort = "cancelled"].pc = "starting"
      BY <1>1, <3>1 DEF Exec
    <3> QED
      BY <1>5, <3>1, <3>2 DEF SessionStarted
  <2>2. exec'[t] = e /\ \A u \in Tokens : u # t => exec'[u] = exec[u]
    BY <1>1, <2>1, OneExecChanges
  <2>3. CASE runs' = runs
    BY <2>1, <2>2, <2>3, PcStep DEF Owners, InFlight, Working, Awaiting
  <2>4. CASE /\ runs' = [runs EXCEPT ![RunOf(t)].session = t]
             /\ Holds(t) /\ runs[RunOf(t)].status = "running"
    <3> DEFINE row == [runs[RunOf(t)] EXCEPT !.session = t]
    <3>1. row \in Row
      BY <1>1 DEF Row
    <3>2. /\ row.spec = runs[RunOf(t)].spec /\ row.status = "running"
          /\ row.token = runs[RunOf(t)].token /\ row.token = t
          /\ row.report = runs[RunOf(t)].report /\ row.session = t
      BY <1>1, <2>4 DEF Row, Holds
    <3>3. runs' = [runs EXCEPT ![RunOf(t)] = row]
      BY <2>4
    <3> HIDE DEF row
    <3> QED
      BY <1>1, <2>1, <2>2, <2>4, <3>1, <3>2, <3>3, LocalStep
         DEF Owners, InFlight, Working, Awaiting, Settled
  <2> QED
    BY <2>1, <2>3, <2>4
<1>6. CASE LateStart(t)
  <2> DEFINE e == IF exec[t].pc = "ended" THEN Ended(exec[t], "ended", "late")
                  ELSE [exec[t] EXCEPT !.sess = "late"]
  <2>1. exec' = [exec EXCEPT ![t] = e] /\ runs' = runs /\ claims' = claims
    BY <1>6 DEF LateStart
  <2>2. e.pc = exec[t].pc
    BY <1>1, EndedPc DEF Exec
  <2> HIDE DEF e
  <2> QED
    BY <1>1, <2>1, <2>2, OneExecChanges, QuietStep
<1>7. CASE TurnFinished(t)
  <2>1. CASE Overdue(t)
    <3>1. exec' = [exec EXCEPT ![t].abort = "timeout"] /\ runs' = runs /\ claims' = claims
      BY <1>7, <2>1 DEF TurnFinished
    <3>2. \A u \in Tokens : exec'[u].pc = exec[u].pc
      BY <1>1, <3>1 DEF Exec
    <3> QED
      BY <3>1, <3>2, QuietStep
  <2>2. CASE ~Overdue(t)
    BY <1>2, <1>7, <2>2, FinishStep DEF TurnFinished, Working, Awaiting
  <2> QED
    BY <2>1, <2>2
<1>8. CASE StepFails(t)
  BY <1>2, <1>8, FinishStep DEF StepFails, Working
<1>9. CASE Unwind(t)
  <2>1. CASE exec[t].sess = "open"
    <3> DEFINE e == [exec[t] EXCEPT !.pc = "cleanup"]
    <3>1. /\ exec' = [exec EXCEPT ![t] = e] /\ runs' = runs /\ claims' = claims
          /\ exec[t].pc \in Awaiting
      BY <1>9, <2>1 DEF Unwind
    <3>2. e.pc = "cleanup"
      BY <1>1 DEF Exec
    <3> HIDE DEF e
    <3> QED
      BY <1>1, <3>1, <3>2, OneExecChanges, PcStep DEF Owners, InFlight, Working, Awaiting
  <2>2. CASE exec[t].sess # "open"
    BY <1>2, <1>9, <2>2, FinishStep DEF Unwind, Working
  <2> QED
    BY <2>1, <2>2
<1>10. CASE CleanedUp(t)
  BY <1>2, <1>10, FinishStep DEF CleanedUp, Working
<1>11. ASSUME NEW written \in BOOLEAN, Report(t, written)
       PROVE  FencingInv'
  <2>1. /\ exec'[t].pc \in {"closing", "ended"}
        /\ \A u \in Tokens : u # t => exec'[u].pc = exec[u].pc
        /\ exec[t].pc = "reporting" /\ claims' = claims
    BY <1>1, <1>11, LeaveStep DEF Report
  <2>2. runs[RunOf(t)].status \in Settled /\ runs[RunOf(t)].token = NoToken
    BY <1>1, <2>1 DEF FencingInv, ReporterSettledTheRow, ClaimsAreWorkedOn, Settled
  <2>3. CASE runs' = runs
    BY <1>1, <2>1, <2>2, <2>3, PcStep DEF Holds
  <2>4. CASE runs' = [runs EXCEPT ![RunOf(t)].report = t]
    <3> DEFINE row == [runs[RunOf(t)] EXCEPT !.report = t]
    <3>1. row \in Row
      BY <1>1 DEF Row
    <3>2. /\ row.spec = runs[RunOf(t)].spec /\ row.status = runs[RunOf(t)].status
          /\ row.token = NoToken
          /\ row.session = runs[RunOf(t)].session /\ row.report = t
      BY <1>1, <2>2 DEF Row
    <3>3. runs' = [runs EXCEPT ![RunOf(t)] = row]
      BY <2>4
    <3> HIDE DEF row
    <3> QED
      BY <1>1, <2>1, <2>2, <3>1, <3>2, <3>3, LocalStep DEF Settled
  <2> QED
    BY <1>11, <2>3, <2>4 DEF Report
<1>12. CASE Closed(t)
  <2>1. /\ exec'[t].pc \in {"closing", "ended"}
        /\ \A u \in Tokens : u # t => exec'[u].pc = exec[u].pc
        /\ exec[t].pc = "closing" /\ runs' = runs /\ claims' = claims
    BY <1>1, <1>12, LeaveStep DEF Closed
  <2>2. ~Holds(t)
    BY <1>1, <2>1 DEF FencingInv, ClaimsAreWorkedOn, Holds, InFlight, Working, Awaiting
  <2> QED
    BY <2>1, <2>2, PcStep
<1> QED
  BY <1>3, <1>4, <1>5, <1>6, <1>7, <1>8, <1>9, <1>10, <1>11, <1>12 DEF Execute

\* A tick: renewals keep every row but its lease, claims take rows that are
\* queued or expired, under tokens never used before.
LEMMA TickStep ==
  ASSUME FencingInv, TypeOK', NEW R \in Runners, Tick(R)
  PROVE  FencingInv'
<1> DEFINE renewed == RenewLocalClaims(R)
           checked == Aborted(exec, {t \in LocalClaims(R) : ~Holds(t)}, "cancelled")
<1>1. PICK C \in SUBSET {r \in RunIds : ClaimDue(renewed, r)} :
        /\ \A r \in C : claims[r] < MaxClaims
        /\ runs' = [r \in RunIds |->
                      IF r \in C THEN ClaimedRow(renewed[r], <<r, claims[r] + 1>>)
                      ELSE renewed[r]]
        /\ claims' = [r \in RunIds |-> IF r \in C THEN claims[r] + 1 ELSE claims[r]]
        /\ exec' = [t \in Tokens |->
                      IF RunOf(t) \in C /\ t[2] = claims[RunOf(t)] + 1
                      THEN NewExec(R, "claimed") ELSE checked[t]]
  BY DEF Tick
<1>2. \A t \in Tokens : checked[t].pc = exec[t].pc
  BY AbortedFacts DEF FencingInv, TypeOK
<1>3. NewExec(R, "claimed").pc = "claimed"
  BY DEF NewExec
<1>4. ASSUME NEW r \in RunIds
      PROVE  /\ renewed[r].spec = runs[r].spec
             /\ renewed[r].status = runs[r].status
             /\ renewed[r].token = runs[r].token
             /\ renewed[r].session = runs[r].session
             /\ renewed[r].report = runs[r].report
             /\ renewed[r] \in Row
  <2>1. runs[r] \in Row /\ now + Lease \in Nat
    BY ConstantsAssumption DEF FencingInv, TypeOK
  <2> QED
    BY <2>1 DEF RenewLocalClaims, Renewed, Row
<1> HIDE DEF renewed, checked
<1>5. ASSUME NEW r \in C
      PROVE  /\ r \in RunIds
             /\ runs[r].status \in {"queued", "running"}
             /\ runs'[r].spec = runs[r].spec
             /\ runs'[r].status = "running"
             /\ runs'[r].token = <<r, claims[r] + 1>>
             /\ runs'[r].session = NoToken
             /\ runs'[r].report = NoToken
             /\ claims'[r] = claims[r] + 1
             /\ <<r, claims[r] + 1>> \in Tokens
  <2>1. r \in RunIds /\ ClaimDue(renewed, r) /\ claims[r] < MaxClaims
    BY <1>1
  <2>2. claims[r] \in 0 .. MaxClaims
    BY <2>1 DEF FencingInv, TypeOK
  <2>3. <<r, claims[r] + 1>> \in Tokens
    BY <2>1, <2>2, TokenFacts, ConstantsAssumption
  <2>4. runs'[r] = ClaimedRow(renewed[r], <<r, claims[r] + 1>>) /\ claims'[r] = claims[r] + 1
    BY <1>1, <2>1
  <2>5. runs[r].status \in {"queued", "running"}
    BY <1>4, <2>1 DEF ClaimDue
  <2> QED
    BY <1>4, <2>1, <2>3, <2>4, <2>5 DEF ClaimedRow, Row
<1>6. ASSUME NEW r \in RunIds, r \notin C
      PROVE  /\ runs'[r].spec = runs[r].spec
             /\ runs'[r].status = runs[r].status
             /\ runs'[r].token = runs[r].token
             /\ runs'[r].session = runs[r].session
             /\ runs'[r].report = runs[r].report
             /\ claims'[r] = claims[r]
  BY <1>1, <1>4, <1>6
<1>7. ASSUME NEW t \in Tokens
      PROVE  /\ RunOf(t) \in C /\ t[2] = claims[RunOf(t)] + 1 => exec'[t].pc = "claimed"
             /\ ~(RunOf(t) \in C /\ t[2] = claims[RunOf(t)] + 1) => exec'[t].pc = exec[t].pc
  BY <1>1, <1>2, <1>3
<1>8. TokensAreFresh'
  <2> SUFFICES ASSUME NEW t \in Tokens
               PROVE  exec'[t].pc = "unused" <=> t[2] > claims'[RunOf(t)]
    BY DEF TokensAreFresh
  <2>1. RunOf(t) \in RunIds /\ t[2] \in 1 .. MaxClaims
    BY TokenFacts
  <2>2. claims[RunOf(t)] \in 0 .. MaxClaims
    BY <2>1 DEF FencingInv, TypeOK
  <2>3. exec[t].pc = "unused" <=> t[2] > claims[RunOf(t)]
    BY DEF FencingInv, TokensAreFresh
  <2>4. CASE RunOf(t) \in C
    <3>1. claims'[RunOf(t)] = claims[RunOf(t)] + 1
      BY <1>5, <2>4
    <3>2. CASE t[2] = claims[RunOf(t)] + 1
      <4>1. exec'[t].pc = "claimed"
        BY <1>7, <2>4, <3>2
      <4>2. ~(t[2] > claims'[RunOf(t)])
        BY <2>2, <3>1, <3>2, ConstantsAssumption
      <4> QED
        BY <4>1, <4>2
    <3>3. CASE t[2] # claims[RunOf(t)] + 1
      <4>1. exec'[t].pc = exec[t].pc
        BY <1>7, <3>3
      <4>2. t[2] > claims'[RunOf(t)] <=> t[2] > claims[RunOf(t)]
        BY <2>1, <2>2, <3>1, <3>3, ConstantsAssumption
      <4> QED
        BY <2>3, <4>1, <4>2
    <3> QED
      BY <3>2, <3>3
  <2>5. CASE RunOf(t) \notin C
    BY <1>6, <1>7, <2>1, <2>3, <2>5
  <2> QED
    BY <2>4, <2>5
<1>9. RowsHaveSpecs'
  <2> SUFFICES ASSUME NEW r \in RunIds
               PROVE  /\ runs'[r].status # "absent" => runs'[r].spec \in Specs
                      /\ claims'[r] > 0 => runs'[r].status # "absent"
    BY DEF RowsHaveSpecs
  <2> QED
    BY <1>5, <1>6 DEF FencingInv, RowsHaveSpecs
<1>10. ClaimsAreWorkedOn'
  <2> SUFFICES ASSUME NEW r \in RunIds
               PROVE  /\ runs'[r].status = "running" <=> runs'[r].token # NoToken
                      /\ runs'[r].token # NoToken =>
                           /\ runs'[r].token = <<r, claims'[r]>>
                           /\ exec'[<<r, claims'[r]>>].pc \in Owners
    BY DEF ClaimsAreWorkedOn, Owners
  <2>1. CASE r \in C
    <3>1. /\ <<r, claims[r] + 1>> # NoToken /\ RunOf(<<r, claims[r] + 1>>) = r
          /\ <<r, claims[r] + 1>>[2] = claims[r] + 1
      BY <1>5, <2>1, TokenFacts DEF RunOf
    <3>2. exec'[<<r, claims[r] + 1>>].pc = "claimed"
      BY <1>5, <1>7, <2>1, <3>1
    <3> QED
      BY <1>5, <2>1, <3>1, <3>2 DEF Owners, InFlight
  <2>2. CASE r \notin C
    <3>1. runs[r].token # NoToken => <<r, claims[r]>> \in Tokens
      BY DEF FencingInv, TypeOK, Row, ClaimsAreWorkedOn
    <3>2. RunOf(<<r, claims[r]>>) = r
      BY DEF RunOf
    <3> QED
      BY <1>6, <1>7, <2>2, <3>1, <3>2 DEF FencingInv, ClaimsAreWorkedOn, Owners
  <2> QED
    BY <2>1, <2>2
<1>11. SessionOfLatestClaim'
  BY <1>5, <1>6 DEF FencingInv, SessionOfLatestClaim
<1>12. ReportOfLatestClaim'
  BY <1>5, <1>6 DEF FencingInv, ReportOfLatestClaim
<1>13. ReporterSettledTheRow'
  <2> SUFFICES ASSUME NEW t \in Tokens, exec'[t].pc = "reporting"
               PROVE  /\ runs'[RunOf(t)].status \in Settled
                      /\ t = <<RunOf(t), claims'[RunOf(t)]>>
    BY DEF ReporterSettledTheRow
  <2>1. exec[t].pc = "reporting" /\ RunOf(t) \in RunIds
    BY <1>7, TokenFacts
  <2>2. runs[RunOf(t)].status \in Settled /\ t = <<RunOf(t), claims[RunOf(t)]>>
    BY <2>1 DEF FencingInv, ReporterSettledTheRow
  <2>3. RunOf(t) \notin C
    BY <1>5, <2>2 DEF Settled
  <2> QED
    BY <1>6, <2>1, <2>2, <2>3
<1> QED
  BY <1>8, <1>9, <1>10, <1>11, <1>12, <1>13 DEF FencingInv

\* Inserting a row and cancelling the queued rows of a removed spec.
LEMMA TableStep ==
  ASSUME FencingInv, TypeOK',
         \/ \E s \in Specs : RemoveSpec(s)
         \/ \E r \in RunIds, s \in Specs, due \in 0 .. MaxNow : EnqueueRun(r, s, due)
  PROVE  FencingInv'
<1>1. exec' = exec /\ claims' = claims
  BY DEF RemoveSpec, EnqueueRun
<1>2. ASSUME NEW q \in RunIds
      PROVE  \/ runs'[q] = runs[q]
             \/ /\ runs[q].status \in {"absent", "queued"}
                /\ runs'[q].status \in {"queued", "cancelled"}
                /\ runs'[q].spec \in Specs
                /\ runs'[q].token = NoToken /\ runs[q].token = NoToken
                /\ runs'[q].session \in {NoToken, runs[q].session}
                /\ runs'[q].report \in {NoToken, runs[q].report}
  <2>1. runs[q] \in Row
    BY DEF FencingInv, TypeOK
  <2>2. runs[q].status # "running" => runs[q].token = NoToken
    BY DEF FencingInv, ClaimsAreWorkedOn
  <2>3. ASSUME NEW s \in Specs, RemoveSpec(s)
        PROVE  \/ runs'[q] = runs[q]
               \/ /\ runs[q].status = "queued" /\ runs[q].spec = s
                  /\ runs'[q] = [runs[q] EXCEPT !.status = "cancelled"]
    BY <2>3 DEF RemoveSpec
  <2>4. ASSUME NEW r \in RunIds, NEW s \in Specs, NEW due \in 0 .. MaxNow, EnqueueRun(r, s, due)
        PROVE  \/ runs'[q] = runs[q]
               \/ /\ runs[q].status = "absent"
                  /\ runs'[q] = [NoRow EXCEPT !.spec = s, !.status = "queued", !.due = due]
    BY <2>4 DEF EnqueueRun, FencingInv, TypeOK
  <2>5. CASE /\ runs[q].status = "queued" /\ runs[q].spec \in Specs
             /\ runs'[q] = [runs[q] EXCEPT !.status = "cancelled"]
    BY <2>1, <2>2, <2>5 DEF Row
  <2>6. CASE /\ runs[q].status = "absent"
             /\ \E s \in Specs, due \in 0 .. MaxNow :
                  runs'[q] = [NoRow EXCEPT !.spec = s, !.status = "queued", !.due = due]
    <3>1. PICK s \in Specs, due \in 0 .. MaxNow :
            runs'[q] = [NoRow EXCEPT !.spec = s, !.status = "queued", !.due = due]
      BY <2>6
    <3>2. /\ runs'[q].status = "queued" /\ runs'[q].spec = s
          /\ runs'[q].token = NoToken /\ runs'[q].session = NoToken
          /\ runs'[q].report = NoToken
      BY <3>1 DEF NoRow
    <3>3. runs[q].token = NoToken
      BY <2>2, <2>6
    <3> QED
      BY <2>6, <3>2, <3>3
  <2>7. CASE \E s \in Specs : RemoveSpec(s)
    <3>1. PICK s \in Specs : RemoveSpec(s)
      BY <2>7
    <3> QED
      BY <2>3, <2>5, <3>1
  <2>8. CASE \E r \in RunIds, s \in Specs, due \in 0 .. MaxNow : EnqueueRun(r, s, due)
    <3>1. PICK r \in RunIds, s \in Specs, due \in 0 .. MaxNow : EnqueueRun(r, s, due)
      BY <2>8
    <3>2. \/ runs'[q] = runs[q]
          \/ /\ runs[q].status = "absent"
             /\ runs'[q] = [NoRow EXCEPT !.spec = s, !.status = "queued", !.due = due]
      BY <2>4, <3>1
    <3> QED
      BY <2>6, <3>2
  <2> QED
    BY <2>7, <2>8
<1>3. TokensAreFresh'
  BY <1>1 DEF FencingInv, TokensAreFresh
<1>4. RowsHaveSpecs'
  BY <1>1, <1>2 DEF FencingInv, RowsHaveSpecs
<1>5. ClaimsAreWorkedOn'
  BY <1>1, <1>2 DEF FencingInv, ClaimsAreWorkedOn
<1>6. SessionOfLatestClaim'
  BY <1>1, <1>2 DEF FencingInv, SessionOfLatestClaim
<1>7. ReportOfLatestClaim'
  BY <1>1, <1>2 DEF FencingInv, ReportOfLatestClaim, Settled
<1>8. ReporterSettledTheRow'
  <2>1. \A t \in Tokens : RunOf(t) \in RunIds
    BY TokenFacts
  <2> QED
    BY <1>1, <1>2, <2>1 DEF FencingInv, ReporterSettledTheRow, Settled
<1> QED
  BY <1>3, <1>4, <1>5, <1>6, <1>7, <1>8 DEF FencingInv

\* The invariant holds initially.
LEMMA FencingInit == Init => FencingInv
<1> SUFFICES ASSUME Init
             PROVE  FencingInv
  OBVIOUS
<1>1. TypeOK
  BY InitTypes
<1>2. /\ \A t \in Tokens : exec[t].pc = "unused"
      /\ \A r \in RunIds : runs[r] = NoRow /\ claims[r] = 0
  BY DEF Init, NewExec
<1>3. TokensAreFresh
  <2>1. \A t \in Tokens : RunOf(t) \in RunIds /\ t[2] > 0
    BY TokenFacts, ConstantsAssumption
  <2> QED
    BY <1>2, <2>1 DEF TokensAreFresh
<1>4. RowsHaveSpecs /\ ClaimsAreWorkedOn /\ SessionOfLatestClaim /\ ReportOfLatestClaim
  BY <1>2 DEF RowsHaveSpecs, ClaimsAreWorkedOn, SessionOfLatestClaim, ReportOfLatestClaim, NoRow
<1>5. ReporterSettledTheRow
  BY <1>2 DEF ReporterSettledTheRow
<1> QED
  BY <1>1, <1>3, <1>4, <1>5 DEF FencingInv

\* Every step preserves it.
LEMMA FencingNext ==
  ASSUME FencingInv, [Next]_vars
  PROVE  FencingInv'
<1>1. TypeOK'
  BY NextTypes DEF FencingInv
<1>2. exec \in [Tokens -> Exec]
  BY DEF FencingInv, TypeOK
<1>3. CASE UNCHANGED vars
  BY <1>1, <1>3, QuietStep DEF vars
<1>4. CASE Advance
  BY <1>1, <1>4, QuietStep DEF Advance
<1>5. ASSUME NEW s \in Specs, ToggleSpec(s)
      PROVE  FencingInv'
  BY <1>1, <1>5, QuietStep DEF ToggleSpec
<1>6. ASSUME NEW s \in Specs, RemoveSpec(s)
      PROVE  FencingInv'
  BY <1>1, <1>6, TableStep
<1>7. ASSUME NEW r \in RunIds, NEW s \in Specs, NEW due \in 0 .. MaxNow, EnqueueRun(r, s, due)
      PROVE  FencingInv'
  BY <1>1, <1>7, TableStep
<1>8. ASSUME NEW R \in Runners, Tick(R)
      PROVE  FencingInv'
  BY <1>1, <1>8, TickStep
<1>9. ASSUME NEW R \in Runners, Stop(R)
      PROVE  FencingInv'
  <2>1. \A u \in Tokens : exec'[u].pc = exec[u].pc
    BY <1>2, <1>9, AbortedFacts DEF Stop
  <2> QED
    BY <1>1, <1>9, <2>1, QuietStep DEF Stop
<1>10. ASSUME NEW R \in Runners, Stopped(R) \/ Start(R)
       PROVE  FencingInv'
  BY <1>1, <1>10, QuietStep DEF Stopped, Start
<1>11. ASSUME NEW R \in Runners, Crash(R)
       PROVE  FencingInv'
  <2>1. ASSUME NEW u \in Tokens
        PROVE  \/ exec'[u].pc = exec[u].pc
               \/ exec[u].pc \in InFlight /\ exec'[u].pc = "dead"
    <3>1. Ended(exec[u], exec[u].pc, "none").pc = exec[u].pc
      BY <1>2, EndedPc
    <3>2. NewExec(None, "dead").pc = "dead"
      BY DEF NewExec
    <3> QED
      BY <1>11, <3>1, <3>2 DEF Crash
  <2> QED
    BY <1>1, <1>11, <2>1, QuietStep DEF Crash
<1>12. ASSUME NEW t \in Tokens, Heartbeat(t)
       PROVE  FencingInv'
  <2>1. CASE Holds(t)
    <3> DEFINE row == Renewed(runs[RunOf(t)])
    <3>1. RunOf(t) \in RunIds /\ now + Lease \in Nat /\ t # NoToken
      BY TokenFacts, ConstantsAssumption DEF FencingInv, TypeOK
    <3>2. runs[RunOf(t)] \in Row
      BY <3>1 DEF FencingInv, TypeOK
    <3>3. /\ row \in Row
          /\ row.spec = runs[RunOf(t)].spec /\ row.status = runs[RunOf(t)].status
          /\ row.token = runs[RunOf(t)].token /\ row.session = runs[RunOf(t)].session
          /\ row.report = runs[RunOf(t)].report
      BY <3>1, <3>2 DEF Renewed, Row
    <3>4. runs[RunOf(t)].status = "running" /\ runs[RunOf(t)].token = t
      BY <2>1, <3>1 DEF FencingInv, ClaimsAreWorkedOn, Holds
    <3>5. exec[t].pc \in Working
      BY <1>12 DEF Heartbeat
    <3>6. runs' = [runs EXCEPT ![RunOf(t)] = row] /\ claims' = claims /\ exec' = exec
      BY <1>12, <2>1 DEF Heartbeat
    <3> HIDE DEF row
    <3>7. row.status # "absent" /\ row.status \notin Settled
      BY <3>3, <3>4 DEF Settled
    <3>8. /\ exec'[t].pc \in Owners /\ exec[t].pc # "unused"
          /\ exec'[t].pc \notin {"unused", "reporting"}
      BY <3>6, <3>5 DEF Owners, InFlight, Working, Awaiting
    <3> QED
      BY <1>1, <3>1, <3>3, <3>4, <3>6, <3>7, <3>8, LocalStep DEF Holds
  <2>2. CASE ~Holds(t)
    <3> DEFINE stopped == [exec EXCEPT ![t].hb = FALSE]
    <3>1. [exec[t] EXCEPT !.hb = FALSE] \in Exec /\ [exec[t] EXCEPT !.hb = FALSE].pc = exec[t].pc
      BY <1>2 DEF Exec
    <3>2. stopped \in [Tokens -> Exec] /\ \A u \in Tokens : stopped[u].pc = exec[u].pc
      BY <1>2, <3>1
    <3>3. exec' = Aborted(stopped, {active[exec[t].runner][RunOf(t)]}, "cancelled")
      BY <1>12, <2>2 DEF Heartbeat
    <3> HIDE DEF stopped
    <3>4. \A u \in Tokens : exec'[u].pc = exec[u].pc
      BY <3>2, <3>3, AbortedFacts
    <3> QED
      BY <1>1, <1>12, <2>2, <3>4, QuietStep DEF Heartbeat
  <2> QED
    BY <2>1, <2>2
<1>13. ASSUME NEW t \in Tokens, DeadlineFires(t)
       PROVE  FencingInv'
  <2>1. \A u \in Tokens : exec'[u].pc = exec[u].pc
    BY <1>2, <1>13 DEF DeadlineFires, Exec
  <2> QED
    BY <1>1, <1>13, <2>1, QuietStep DEF DeadlineFires
<1>14. ASSUME NEW t \in Tokens, Execute(t)
       PROVE  FencingInv'
  BY <1>1, <1>14, ExecuteStep
<1> QED
  BY <1>3, <1>4, <1>5, <1>6, <1>7, <1>8, <1>9, <1>10, <1>11, <1>12, <1>13, <1>14 DEF Next

\* The invariant holds in every reachable state.
LEMMA FencingAlways == Spec => []FencingInv
<1>1. FencingInv /\ [Next]_vars => FencingInv'
  BY FencingNext
<1> QED
  BY FencingInit, <1>1, PTL DEF Spec

\* Type correctness of the run queue and its runners.
THEOREM TypeCorrectness == Spec => []TypeOK
<1>1. FencingInv => TypeOK
  BY DEF FencingInv
<1> QED
  BY FencingAlways, <1>1, PTL

\* No exit of executeClaim leaves a claim behind: a running row belongs to its
\* latest claim and to an execution that has not returned, or whose process died.
THEOREM ClaimsWorkedOn == Spec => []ClaimsAreWorkedOn
<1>1. FencingInv => ClaimsAreWorkedOn
  BY DEF FencingInv
<1> QED
  BY FencingAlways, <1>1, PTL

\* Session and report of a row were written by its latest claim, whatever
\* superseded workers do.
THEOREM LatestClaimWrites == Spec => []ResultsOfLatestClaim
<1>1. FencingInv => ResultsOfLatestClaim
  BY DEF FencingInv, ResultsOfLatestClaim
<1> QED
  BY FencingAlways, <1>1, PTL

-----------------------------------------------------------------------------
(* What a step may do to a row.                                            *)

\* An execution writes only its own run's row, under its token or, for the
\* report, by its id; it gives its claim up only by moving on.
LEMMA ExecuteWrites ==
  ASSUME FencingInv, NEW t \in Tokens, Execute(t), NEW r \in RunIds
  PROVE  \/ runs'[r] = runs[r]
         \/ r = RunOf(t) /\ runs'[r] = [runs[r] EXCEPT !.report = t]
         \/ r = RunOf(t) /\ Holds(t) /\ (runs'[r].token = t \/ exec'[t].pc # exec[t].pc)
<1>1. /\ RunOf(t) \in RunIds /\ runs \in [RunIds -> Row] /\ runs[RunOf(t)] \in Row
      /\ exec \in [Tokens -> Exec] /\ exec[t] \in Exec
  BY TokenFacts DEF FencingInv, TypeOK
<1>2. ASSUME NEW status, NEW sess, Finish(t, status, sess), exec[t].pc \in Working
      PROVE  \/ runs'[r] = runs[r]
             \/ r = RunOf(t) /\ Holds(t) /\ exec'[t].pc # exec[t].pc
  <2>1. CASE ~Holds(t)
    BY <1>2, <2>1 DEF Finish
  <2>2. CASE Holds(t)
    <3> DEFINE e == [exec[t] EXCEPT !.pc = "reporting", !.sess = sess]
    <3>1. exec' = [exec EXCEPT ![t] = e]
      BY <1>2, <2>2 DEF Finish
    <3>2. e.pc = "reporting"
      BY <1>1 DEF Exec
    <3> HIDE DEF e
    <3>3. exec'[t].pc # exec[t].pc
      BY <1>1, <1>2, <3>1, <3>2, OneExecChanges DEF Working, Awaiting
    <3>4. r # RunOf(t) => runs'[r] = runs[r]
      BY <1>1, <1>2, <2>2 DEF Finish
    <3> QED
      BY <2>2, <3>3, <3>4
  <2> QED
    BY <2>1, <2>2
<1>3. CASE Begin(t)
  <2>1. exec[t].pc = "claimed"
    BY <1>3 DEF Begin
  <2>2. ~Holds(t) => runs' = runs
    BY <1>3 DEF Begin
  <2>3. r # RunOf(t) => runs'[r] = runs[r]
    BY <1>1, <1>3 DEF Begin
  <2>4. runs' = runs \/ exec'[t].pc # exec[t].pc
    <3>1. /\ Ended(exec[t], "ended", "none").pc = "ended"
          /\ Ended(exec[t], "released", "none").pc = "released"
      BY <1>1, EndedPc
    <3> QED
      BY <1>1, <1>3, <2>1, <3>1 DEF Begin
  <2> QED
    BY <2>2, <2>3, <2>4
<1>4. CASE SessionStarted(t)
  <2>1. \/ runs' = runs
        \/ Holds(t) /\ runs' = [runs EXCEPT ![RunOf(t)].session = t]
    BY <1>4 DEF SessionStarted
  <2> QED
    BY <1>1, <2>1 DEF Holds, Row
<1>5. CASE RequestBuilt(t) \/ LateStart(t) \/ Closed(t)
  BY <1>5 DEF RequestBuilt, LateStart, Closed
<1>6. CASE TurnFinished(t)
  BY <1>2, <1>6 DEF TurnFinished, Working, Awaiting
<1>7. CASE StepFails(t)
  BY <1>2, <1>7 DEF StepFails, Working
<1>8. CASE Unwind(t)
  BY <1>2, <1>8 DEF Unwind, Working
<1>9. CASE CleanedUp(t)
  BY <1>2, <1>9 DEF CleanedUp, Working
<1>10. ASSUME NEW written \in BOOLEAN, Report(t, written)
       PROVE  \/ runs'[r] = runs[r]
              \/ r = RunOf(t) /\ runs'[r] = [runs[r] EXCEPT !.report = t]
  BY <1>1, <1>10 DEF Report
<1> QED
  BY <1>3, <1>4, <1>5, <1>6, <1>7, <1>8, <1>9, <1>10 DEF Execute

\* A tick renews the leases of rows held by local claims, and claims rows that
\* are queued or whose lease has run out.
LEMMA TickWrites ==
  ASSUME FencingInv, NEW R \in Runners, Tick(R), NEW r \in RunIds
  PROVE  \/ runs'[r] = runs[r]
         \/ runs[r].status = "queued"
         \/ runs[r].status = "running" /\ runs'[r].token = runs[r].token
         \/ /\ runs[r].status = "running" /\ runs[r].until <= now
            /\ claims'[r] = claims[r] + 1
<1> DEFINE renewed == RenewLocalClaims(R)
<1>1. PICK C \in SUBSET {q \in RunIds : ClaimDue(renewed, q)} :
        /\ runs' = [q \in RunIds |->
                      IF q \in C THEN ClaimedRow(renewed[q], <<q, claims[q] + 1>>)
                      ELSE renewed[q]]
        /\ claims' = [q \in RunIds |-> IF q \in C THEN claims[q] + 1 ELSE claims[q]]
  BY DEF Tick
<1>2. runs[r] \in Row /\ now \in Nat /\ now + Lease \in Nat /\ now + Lease > now
  BY ConstantsAssumption DEF FencingInv, TypeOK
<1>3. renewed[r] = runs[r] \/ (runs[r].status = "running" /\ renewed[r] = Renewed(runs[r]))
  <2>1. ASSUME NEW t \in LocalClaims(R), RunOf(t) = r, Holds(t)
        PROVE  runs[r].status = "running"
    <3>1. t \in Tokens
      BY DEF LocalClaims
    <3>2. runs[r].token # NoToken
      BY <2>1, <3>1, TokenFacts DEF Holds
    <3> QED
      BY <3>2 DEF FencingInv, ClaimsAreWorkedOn
  <2> QED
    BY <2>1 DEF RenewLocalClaims
<1>4. /\ Renewed(runs[r]).token = runs[r].token
      /\ Renewed(runs[r]).status = runs[r].status
      /\ Renewed(runs[r]).until > now
  BY <1>2 DEF Renewed, Row
<1> HIDE DEF renewed
<1>5. CASE r \notin C
  BY <1>1, <1>3, <1>4, <1>5
<1>6. CASE r \in C
  <2>1. ClaimDue(renewed, r) /\ claims'[r] = claims[r] + 1
    BY <1>1, <1>6
  <2>2. CASE renewed[r] = runs[r]
    BY <2>1, <2>2 DEF ClaimDue
  <2>3. CASE renewed[r] = Renewed(runs[r]) /\ runs[r].status = "running"
    <3>1. Renewed(runs[r]).until \in Int
      BY <1>2 DEF Renewed, Row
    <3> QED
      BY <1>2, <1>4, <2>1, <2>3, <3>1 DEF ClaimDue
  <2> QED
    BY <1>3, <2>2, <2>3
<1> QED
  BY <1>5, <1>6

\* A heartbeat renews at most the row of its own claim.
LEMMA HeartbeatWrites ==
  ASSUME FencingInv, NEW t \in Tokens, Heartbeat(t), NEW r \in RunIds
  PROVE  \/ runs'[r] = runs[r]
         \/ runs[r].status = "running" /\ runs'[r].token = runs[r].token
<1>1. RunOf(t) \in RunIds /\ t # NoToken /\ runs \in [RunIds -> Row] /\ runs[r] \in Row
  BY TokenFacts DEF FencingInv, TypeOK
<1>2. CASE ~Holds(t)
  BY <1>2 DEF Heartbeat
<1>3. CASE Holds(t)
  <2>1. runs' = [runs EXCEPT ![RunOf(t)] = Renewed(@)]
    BY <1>3 DEF Heartbeat
  <2>2. Renewed(runs[r]).token = runs[r].token
    BY <1>1 DEF Renewed, Row
  <2>3. r = RunOf(t) => runs[r].status = "running"
    BY <1>1, <1>3 DEF Holds, FencingInv, ClaimsAreWorkedOn
  <2> QED
    BY <1>1, <2>1, <2>2, <2>3
<1> QED
  BY <1>2, <1>3

\* The steps outside ticks, heartbeats and executions.
LEMMA OtherWrites ==
  ASSUME FencingInv, NEW r \in RunIds,
         \/ UNCHANGED vars
         \/ Advance
         \/ \E s \in Specs : ToggleSpec(s) \/ RemoveSpec(s)
         \/ \E q \in RunIds, s \in Specs, due \in 0 .. MaxNow : EnqueueRun(q, s, due)
         \/ \E R \in Runners : Stop(R) \/ Stopped(R) \/ Start(R) \/ Crash(R)
         \/ \E t \in Tokens : DeadlineFires(t)
  PROVE  runs'[r] = runs[r] \/ runs[r].status \in {"absent", "queued"}
BY DEF FencingInv, TypeOK, vars, Advance, ToggleSpec, RemoveSpec, EnqueueRun, Stop, Stopped,
       Start, Crash, DeadlineFires

\* A settled run is final: no late worker, expired lease, crash or restart runs
\* it again or changes anything of its row but the report.
THEOREM SettledForever == Spec => SettledIsFinal
<1>1. ASSUME FencingInv, [Next]_vars, NEW r \in RunIds, runs[r].status \in Settled
      PROVE  runs'[r] = [runs[r] EXCEPT !.report = runs'[r].report]
  <2>1. /\ runs[r] \in Row /\ runs[r].status \notin {"absent", "queued", "running"}
        /\ runs[r].token = NoToken
    BY <1>1 DEF FencingInv, TypeOK, ClaimsAreWorkedOn, Settled
  <2>2. CASE runs'[r] = runs[r]
    BY <2>1, <2>2 DEF Row
  <2>3. ASSUME NEW t, runs'[r] = [runs[r] EXCEPT !.report = t]
        PROVE  runs'[r] = [runs[r] EXCEPT !.report = runs'[r].report]
    BY <2>1, <2>3 DEF Row
  <2>4. ASSUME NEW t \in Tokens, RunOf(t) = r
        PROVE  ~Holds(t)
    BY <2>1, <2>4, TokenFacts DEF Holds
  <2>5. ASSUME NEW t \in Tokens, Execute(t)
        PROVE  runs'[r] = [runs[r] EXCEPT !.report = runs'[r].report]
    BY <1>1, <2>2, <2>3, <2>4, <2>5, ExecuteWrites
  <2>6. ASSUME NEW t \in Tokens, Heartbeat(t)
        PROVE  runs'[r] = runs[r]
    BY <1>1, <2>1, <2>6, HeartbeatWrites
  <2>7. ASSUME NEW R \in Runners, Tick(R)
        PROVE  runs'[r] = runs[r]
    BY <1>1, <2>1, <2>7, TickWrites
  <2> QED
    BY <1>1, <2>1, <2>2, <2>5, <2>6, <2>7, OtherWrites DEF Next
<1>2. FencingInv /\ [Next]_vars =>
        \A r \in RunIds : runs[r].status \in Settled =>
          runs'[r] = [runs[r] EXCEPT !.report = runs'[r].report]
  BY <1>1
<1> QED
  BY FencingAlways, <1>2, PTL DEF Spec, SettledIsFinal

\* A claim is lost only by its own execution's step or, once its lease has run
\* out, to a new claim of the row.
THEOREM LeaseProtects == Spec => ClaimEndsByOwnerOrExpiry
<1>1. ASSUME FencingInv, [Next]_vars, NEW t \in Tokens, Holds(t), runs'[RunOf(t)].token # t
      PROVE  \/ exec'[t].pc # exec[t].pc
             \/ runs[RunOf(t)].until <= now /\ claims'[RunOf(t)] = claims[RunOf(t)] + 1
  <2> DEFINE r == RunOf(t)
  <2>1. /\ r \in RunIds /\ runs[r] \in Row /\ t # NoToken
        /\ runs[r].token = t /\ runs[r].status = "running" /\ runs'[r] # runs[r]
    <3>1. r \in RunIds /\ t # NoToken
      BY TokenFacts
    <3>2. runs[r] \in Row /\ runs[r].token = t /\ runs'[r] # runs[r]
      BY <1>1, <3>1 DEF FencingInv, TypeOK, Holds
    <3>3. runs[r].status = "running"
      BY <1>1, <3>1, <3>2 DEF FencingInv, ClaimsAreWorkedOn
    <3> QED
      BY <3>1, <3>2, <3>3
  <2>2. ASSUME NEW u \in Tokens, Execute(u)
        PROVE  exec'[t].pc # exec[t].pc
    <3>1. CASE runs'[r] = [runs[r] EXCEPT !.report = u]
      BY <1>1, <2>1, <3>1 DEF Row
    <3>2. CASE r = RunOf(u) /\ Holds(u) /\ (runs'[r].token = u \/ exec'[u].pc # exec[u].pc)
      BY <1>1, <2>1, <3>2 DEF Holds
    <3> QED
      BY <1>1, <2>1, <2>2, <3>1, <3>2, ExecuteWrites
  <2>3. ASSUME NEW u \in Tokens, Heartbeat(u)
        PROVE  FALSE
    BY <1>1, <2>1, <2>3, HeartbeatWrites
  <2>4. ASSUME NEW R \in Runners, Tick(R)
        PROVE  runs[r].until <= now /\ claims'[r] = claims[r] + 1
    BY <1>1, <2>1, <2>4, TickWrites
  <2> QED
    BY <1>1, <2>1, <2>2, <2>3, <2>4, OtherWrites DEF Next
<1>2. FencingInv /\ [Next]_vars =>
        \A t \in Tokens : Holds(t) /\ runs'[RunOf(t)].token # t =>
          \/ exec'[t].pc # exec[t].pc
          \/ runs[RunOf(t)].until <= now /\ claims'[RunOf(t)] = claims[RunOf(t)] + 1
  BY <1>1
<1> QED
  BY FencingAlways, <1>2, PTL DEF Spec, ClaimEndsByOwnerOrExpiry

-----------------------------------------------------------------------------
(* What one execution does.                                                *)

\* The claim recorded in the row of r stays what it is.
SameClaim(r) ==
  /\ runs'[r].status = runs[r].status /\ runs'[r].token = runs[r].token
  /\ runs'[r].until = runs[r].until /\ runs'[r].spec = runs[r].spec
  /\ runs'[r].attempts = runs[r].attempts

\* It goes on, or an answer reaches it that it no longer waits for.
Goes(t) ==
  /\ exec'[t].pc = exec[t].pc \/ {exec[t].pc, exec'[t].pc} \subseteq Working
  /\ exec[t].pc \in InFlight => exec'[t].runner = exec[t].runner
  /\ SameClaim(RunOf(t)) /\ active' = active

\* It is entered.
Enters(t) ==
  /\ exec[t].pc = "claimed" /\ exec'[t].pc = "preparing" /\ exec'[t].runner = exec[t].runner
  /\ runs' = runs /\ active' = [active EXCEPT ![exec[t].runner][RunOf(t)] = t]

\* It hands its row back undone.
HandsBack(t) ==
  /\ exec[t].pc = "claimed" /\ exec'[t].pc = "released" /\ Holds(t)
  /\ runs'[RunOf(t)] = Requeued(runs[RunOf(t)]) /\ active' = active

\* It settles its row.
Settles(t) ==
  /\ Holds(t) /\ active' = active
  /\ \/ exec[t].pc = "claimed" /\ exec'[t].pc = "ended"
     \/ /\ exec[t].pc \in Working /\ exec'[t].pc = "reporting"
        /\ exec'[t].runner = exec[t].runner
  /\ runs'[RunOf(t)].status \in Settled /\ runs'[RunOf(t)].spec = runs[RunOf(t)].spec
  /\ runs'[RunOf(t)].attempts = runs[RunOf(t)].attempts

\* It has been superseded.
GivesUp(t) ==
  /\ exec[t].pc \in Working \cup {"claimed"} /\ exec'[t].pc \in {"closing", "ended"}
  /\ ~Holds(t) /\ runs' = runs

\* It reports, closes its session and returns.
Returns(t) ==
  /\ exec[t].pc \in {"reporting", "closing"} /\ SameClaim(RunOf(t))
  /\ \/ /\ exec[t].pc = "reporting" /\ exec'[t].pc = "closing"
        /\ exec'[t].runner = exec[t].runner /\ active' = active
     \/ /\ exec'[t].pc = "ended"
        /\ active' = [active EXCEPT ![exec[t].runner][RunOf(t)] = NoToken]

\* What a step of the execution of claim t does: one of these.
Moves(t) ==
  /\ UNCHANGED <<now, specs, claims>>
  /\ \A u \in Tokens : u # t => exec'[u] = exec[u]
  /\ \A r \in RunIds : r # RunOf(t) => runs'[r] = runs[r]
  /\ Goes(t) \/ Enters(t) \/ HandsBack(t) \/ Settles(t) \/ GivesUp(t) \/ Returns(t)

\* The finally block.
LEMMA LeaveMoves ==
  ASSUME TypeOK, NEW t \in Tokens, NEW sess, Leave(t, sess)
  PROVE  /\ \A u \in Tokens : u # t => exec'[u] = exec[u]
         /\ \/ /\ exec'[t].pc = "closing" /\ exec'[t].runner = exec[t].runner /\ active' = active
            \/ /\ exec'[t].pc = "ended"
               /\ active' = [active EXCEPT ![exec[t].runner][RunOf(t)] = NoToken]
<1>1. exec \in [Tokens -> Exec] /\ exec[t] \in Exec
  BY DEF TypeOK
<1>2. CASE sess = "open"
  <2> DEFINE e == [exec[t] EXCEPT !.pc = "closing", !.sess = sess, !.hb = FALSE]
  <2>1. exec' = [exec EXCEPT ![t] = e] /\ active' = active
    BY <1>2 DEF Leave
  <2>2. e.pc = "closing" /\ e.runner = exec[t].runner
    BY <1>1 DEF Exec
  <2> HIDE DEF e
  <2> QED BY <1>1, <2>1, <2>2, OneExecChanges
<1>3. CASE sess # "open"
  <2>1. /\ exec' = [exec EXCEPT ![t] = Ended(exec[t], "ended", sess)]
        /\ active' = [active EXCEPT ![exec[t].runner][RunOf(t)] = NoToken]
    BY <1>3 DEF Leave
  <2> QED BY <1>1, <2>1, EndedPc, OneExecChanges
<1> QED BY <1>2, <1>3

\* completeRun.
LEMMA FinishMoves ==
  ASSUME TypeOK, NEW t \in Tokens, NEW status \in Settled, NEW sess,
         Finish(t, status, sess), exec[t].pc \in Working
  PROVE  Moves(t)
<1>1. RunOf(t) \in RunIds /\ runs[RunOf(t)] \in Row /\ exec[t] \in Exec
      /\ exec \in [Tokens -> Exec] /\ runs \in [RunIds -> Row]
  BY TokenFacts DEF TypeOK
<1>2. CASE Holds(t)
  <2> DEFINE e == [exec[t] EXCEPT !.pc = "reporting", !.sess = sess]
             row == Completed(runs[RunOf(t)], status,
                              IF sess \in {"open", "closed"} THEN t ELSE NoToken)
  <2>1. e.pc = "reporting" /\ e.runner = exec[t].runner
    BY <1>1 DEF Exec
  <2>2. row.status = status /\ row.spec = runs[RunOf(t)].spec
        /\ row.attempts = runs[RunOf(t)].attempts
    BY <1>1 DEF Completed, Row
  <2>3. /\ exec' = [exec EXCEPT ![t] = e] /\ runs' = [runs EXCEPT ![RunOf(t)] = row]
        /\ active' = active /\ UNCHANGED <<now, specs, claims>>
    BY <1>2 DEF Finish
  <2> HIDE DEF e, row
  <2>4. exec'[t] = e /\ \A u \in Tokens : u # t => exec'[u] = exec[u]
    BY <1>1, <2>3, OneExecChanges
  <2>5. runs'[RunOf(t)] = row /\ \A r \in RunIds : r # RunOf(t) => runs'[r] = runs[r]
    BY <1>1, <2>3
  <2> QED BY <1>2, <2>1, <2>2, <2>3, <2>4, <2>5 DEF Moves, Settles
<1>3. CASE ~Holds(t)
  <2>1. runs' = runs /\ UNCHANGED <<now, specs, claims>> /\ Leave(t, sess)
    BY <1>3 DEF Finish
  <2>2. exec'[t].pc \in {"closing", "ended"} /\ \A u \in Tokens : u # t => exec'[u] = exec[u]
    BY <2>1, LeaveMoves
  <2> QED BY <1>3, <2>1, <2>2 DEF Moves, GivesUp
<1> QED BY <1>2, <1>3

\* An execution that goes on without touching the table.
LEMMA GoesOn ==
  ASSUME TypeOK, NEW t \in Tokens, NEW e, exec' = [exec EXCEPT ![t] = e],
         UNCHANGED <<now, specs, runs, claims, active>>,
         e.pc = exec[t].pc \/ {exec[t].pc, e.pc} \subseteq Working,
         exec[t].pc \in InFlight => e.runner = exec[t].runner
  PROVE  Moves(t)
<1>1. exec \in [Tokens -> Exec]
  BY DEF TypeOK
<1>2. exec'[t] = e /\ \A u \in Tokens : u # t => exec'[u] = exec[u]
  BY <1>1, OneExecChanges
<1> QED BY <1>2 DEF Moves, Goes, SameClaim

\* The synchronous entry.
LEMMA BeginMoves ==
  ASSUME TypeOK, NEW t \in Tokens, Begin(t) PROVE Moves(t)
<1>1. /\ RunOf(t) \in RunIds /\ runs[RunOf(t)] \in Row /\ runs \in [RunIds -> Row]
      /\ exec \in [Tokens -> Exec] /\ exec[t] \in Exec /\ exec[t].pc = "claimed"
      /\ UNCHANGED <<now, specs, claims>>
  BY TokenFacts DEF TypeOK, Begin
<1> DEFINE e == [exec[t] EXCEPT !.pc = "preparing", !.hb = TRUE,
                                !.deadline = DeadlineOf(runs[RunOf(t)].spec)]
           done == Completed(runs[RunOf(t)], "cancelled", NoToken)
<1>2. /\ Ended(exec[t], "ended", "none").pc = "ended"
      /\ Ended(exec[t], "released", "none").pc = "released"
  BY <1>1, EndedPc
<1>3. e.pc = "preparing" /\ e.runner = exec[t].runner
  BY <1>1 DEF Exec
<1>4. done.status = "cancelled" /\ done.spec = runs[RunOf(t)].spec
      /\ done.attempts = runs[RunOf(t)].attempts
  BY <1>1 DEF Completed, Row
<1>5. \/ /\ exec' = [exec EXCEPT ![t] = Ended(exec[t], "ended", "none")] /\ active' = active
         /\ \/ Holds(t) /\ runs' = [runs EXCEPT ![RunOf(t)] = done]
            \/ ~Holds(t) /\ runs' = runs
      \/ /\ exec' = [exec EXCEPT ![t] = Ended(exec[t], "released", "none")] /\ active' = active
         /\ Holds(t) /\ runs' = [runs EXCEPT ![RunOf(t)] = Requeued(runs[RunOf(t)])]
      \/ /\ exec' = [exec EXCEPT ![t] = e] /\ runs' = runs
         /\ active' = [active EXCEPT ![exec[t].runner][RunOf(t)] = t]
  BY DEF Begin
<1> HIDE DEF e, done
<1>6. CASE /\ exec' = [exec EXCEPT ![t] = Ended(exec[t], "ended", "none")] /\ active' = active
           /\ Holds(t) /\ runs' = [runs EXCEPT ![RunOf(t)] = done]
  <2>1. runs'[RunOf(t)] = done /\ \A r \in RunIds : r # RunOf(t) => runs'[r] = runs[r]
    BY <1>1, <1>6
  <2>2. exec'[t].pc = "ended" /\ \A u \in Tokens : u # t => exec'[u] = exec[u]
    BY <1>1, <1>2, <1>6, OneExecChanges
  <2>3. Settles(t)
    BY <1>1, <1>4, <1>6, <2>1, <2>2 DEF Settles, Settled
  <2> QED BY <1>1, <2>1, <2>2, <2>3 DEF Moves
<1>7. CASE /\ exec' = [exec EXCEPT ![t] = Ended(exec[t], "ended", "none")]
           /\ ~Holds(t) /\ runs' = runs
  <2>2. exec'[t].pc = "ended" /\ \A u \in Tokens : u # t => exec'[u] = exec[u]
    BY <1>1, <1>2, <1>7, OneExecChanges
  <2> QED BY <1>1, <1>7, <2>2 DEF Moves, GivesUp
<1>8. CASE /\ exec' = [exec EXCEPT ![t] = Ended(exec[t], "released", "none")] /\ active' = active
           /\ Holds(t) /\ runs' = [runs EXCEPT ![RunOf(t)] = Requeued(runs[RunOf(t)])]
  <2>1. /\ runs'[RunOf(t)] = Requeued(runs[RunOf(t)])
        /\ \A r \in RunIds : r # RunOf(t) => runs'[r] = runs[r]
    BY <1>1, <1>8
  <2>2. exec'[t].pc = "released" /\ \A u \in Tokens : u # t => exec'[u] = exec[u]
    BY <1>1, <1>2, <1>8, OneExecChanges
  <2> QED BY <1>1, <1>8, <2>1, <2>2 DEF Moves, HandsBack
<1>9. CASE /\ exec' = [exec EXCEPT ![t] = e] /\ runs' = runs
           /\ active' = [active EXCEPT ![exec[t].runner][RunOf(t)] = t]
  <2>1. exec'[t] = e /\ \A u \in Tokens : u # t => exec'[u] = exec[u]
    BY <1>1, <1>9, OneExecChanges
  <2> QED BY <1>1, <1>3, <1>9, <2>1 DEF Moves, Enters
<1> QED BY <1>5, <1>6, <1>7, <1>8, <1>9

\* Each stretch of executeClaim is one of these moves.
LEMMA ExecuteMoves ==
  ASSUME TypeOK, NEW t \in Tokens, Execute(t) PROVE Moves(t)
<1>1. /\ RunOf(t) \in RunIds /\ runs[RunOf(t)] \in Row /\ runs \in [RunIds -> Row]
      /\ exec \in [Tokens -> Exec] /\ exec[t] \in Exec
  BY TokenFacts DEF TypeOK
<1>2. AbortStatus(t) \in Settled /\ "done" \in Settled /\ "failed" \in Settled
  BY DEF AbortStatus, Settled
<1>3. CASE Begin(t)
  BY <1>3, BeginMoves
<1>4. CASE RequestBuilt(t)
  <2> DEFINE e == IF Overdue(t) THEN [exec[t] EXCEPT !.abort = "timeout"]
                  ELSE [exec[t] EXCEPT !.pc = "starting", !.sess = "starting"]
  <2>1. /\ exec' = [exec EXCEPT ![t] = e] /\ UNCHANGED <<now, specs, runs, claims, active>>
        /\ exec[t].pc = "preparing"
    BY <1>4 DEF RequestBuilt
  <2>2. e.pc \in {"preparing", "starting"} /\ e.runner = exec[t].runner
    BY <1>1, <2>1 DEF Exec
  <2> HIDE DEF e
  <2> QED BY <2>1, <2>2, GoesOn DEF Working, Awaiting
<1>5. CASE SessionStarted(t)
  <2> DEFINE opened == [exec[t] EXCEPT !.sess = "open"]
  <2>1. exec[t].pc = "starting"
    BY <1>5 DEF SessionStarted
  <2>2. PICK e : /\ exec' = [exec EXCEPT ![t] = e] /\ e.pc \in {"starting", "sending"}
                 /\ e.runner = exec[t].runner
                 /\ UNCHANGED <<now, specs, claims, active>>
                 /\ runs' = runs \/ runs' = [runs EXCEPT ![RunOf(t)].session = t]
    <3>1. /\ [opened EXCEPT !.abort = "timeout"].pc = "starting"
          /\ [opened EXCEPT !.pc = "sending"].pc = "sending"
          /\ [opened EXCEPT !.abort = "cancelled"].pc = "starting"
          /\ [opened EXCEPT !.abort = "timeout"].runner = exec[t].runner
          /\ [opened EXCEPT !.pc = "sending"].runner = exec[t].runner
          /\ [opened EXCEPT !.abort = "cancelled"].runner = exec[t].runner
      BY <1>1, <2>1 DEF Exec
    <3> QED BY <1>5, <3>1 DEF SessionStarted
  <2>3. exec'[t] = e /\ \A u \in Tokens : u # t => exec'[u] = exec[u]
    BY <1>1, <2>2, OneExecChanges
  <2>4. SameClaim(RunOf(t)) /\ \A r \in RunIds : r # RunOf(t) => runs'[r] = runs[r]
    <3>1. CASE runs' = runs
      BY <3>1 DEF SameClaim
    <3>2. CASE runs' = [runs EXCEPT ![RunOf(t)].session = t]
      <4>1. runs'[RunOf(t)] = [runs[RunOf(t)] EXCEPT !.session = t]
        BY <1>1, <3>2
      <4> QED BY <1>1, <3>2, <4>1 DEF SameClaim, Row
    <3> QED BY <2>2, <3>1, <3>2
  <2>5. Goes(t)
    BY <2>1, <2>2, <2>3, <2>4 DEF Goes, Working, Awaiting
  <2> QED BY <2>2, <2>3, <2>4, <2>5 DEF Moves
<1>6. CASE LateStart(t)
  <2> DEFINE e == IF exec[t].pc = "ended" THEN Ended(exec[t], "ended", "late")
                  ELSE [exec[t] EXCEPT !.sess = "late"]
  <2>1. exec' = [exec EXCEPT ![t] = e] /\ UNCHANGED <<now, specs, runs, claims, active>>
    BY <1>6 DEF LateStart
  <2>2. e.pc = exec[t].pc
    BY <1>1, EndedPc DEF Exec
  <2>3. exec[t].pc \in InFlight => e.runner = exec[t].runner
    BY <1>1 DEF Exec, InFlight, Working, Awaiting
  <2> HIDE DEF e
  <2> QED BY <2>1, <2>2, <2>3, GoesOn
<1>7. CASE TurnFinished(t)
  <2>1. CASE Overdue(t)
    <3> DEFINE e == [exec[t] EXCEPT !.abort = "timeout"]
    <3>1. exec' = [exec EXCEPT ![t] = e] /\ UNCHANGED <<now, specs, runs, claims, active>>
      BY <1>7, <2>1 DEF TurnFinished
    <3>2. e.pc = exec[t].pc /\ e.runner = exec[t].runner
      BY <1>1 DEF Exec
    <3> HIDE DEF e
    <3> QED BY <3>1, <3>2, GoesOn
  <2>2. CASE ~Overdue(t)
    BY <1>2, <1>7, <2>2, FinishMoves DEF TurnFinished, Working, Awaiting
  <2> QED BY <2>1, <2>2
<1>8. CASE StepFails(t)
  BY <1>2, <1>8, FinishMoves DEF StepFails, Working
<1>9. CASE Unwind(t)
  <2>1. CASE exec[t].sess = "open"
    <3> DEFINE e == [exec[t] EXCEPT !.pc = "cleanup"]
    <3>1. /\ exec' = [exec EXCEPT ![t] = e] /\ UNCHANGED <<now, specs, runs, claims, active>>
          /\ exec[t].pc \in Awaiting
      BY <1>9, <2>1 DEF Unwind
    <3>2. e.pc = "cleanup" /\ e.runner = exec[t].runner
      BY <1>1 DEF Exec
    <3> HIDE DEF e
    <3> QED BY <3>1, <3>2, GoesOn DEF Working
  <2>2. CASE exec[t].sess # "open"
    BY <1>2, <1>9, <2>2, FinishMoves DEF Unwind, Working
  <2> QED BY <2>1, <2>2
<1>10. CASE CleanedUp(t)
  BY <1>2, <1>10, FinishMoves DEF CleanedUp, Working
<1>11. ASSUME NEW written \in BOOLEAN, Report(t, written) PROVE Moves(t)
  <2>1. exec[t].pc = "reporting" /\ Leave(t, exec[t].sess) /\ UNCHANGED <<now, specs, claims>>
        /\ (runs' = runs \/ runs' = [runs EXCEPT ![RunOf(t)].report = t])
    BY <1>11 DEF Report
  <2>2. SameClaim(RunOf(t)) /\ \A r \in RunIds : r # RunOf(t) => runs'[r] = runs[r]
    <3>1. CASE runs' = runs
      BY <3>1 DEF SameClaim
    <3>2. CASE runs' = [runs EXCEPT ![RunOf(t)].report = t]
      <4>1. runs'[RunOf(t)] = [runs[RunOf(t)] EXCEPT !.report = t]
        BY <1>1, <3>2
      <4> QED BY <1>1, <3>2, <4>1 DEF SameClaim, Row
    <3> QED BY <2>1, <3>1, <3>2
  <2>3. Returns(t) /\ \A u \in Tokens : u # t => exec'[u] = exec[u]
    BY <2>1, <2>2, LeaveMoves DEF Returns
  <2> QED BY <2>1, <2>2, <2>3 DEF Moves
<1>12. CASE Closed(t)
  <2>1. exec[t].pc = "closing" /\ Leave(t, "closed") /\ UNCHANGED <<now, specs, runs, claims>>
    BY <1>12 DEF Closed
  <2>2. /\ exec' = [exec EXCEPT ![t] = Ended(exec[t], "ended", "closed")]
        /\ active' = [active EXCEPT ![exec[t].runner][RunOf(t)] = NoToken]
    BY <2>1 DEF Leave
  <2>3. exec'[t].pc = "ended" /\ \A u \in Tokens : u # t => exec'[u] = exec[u]
    BY <1>1, <2>2, EndedPc, OneExecChanges
  <2> QED BY <2>1, <2>2, <2>3 DEF Moves, Returns, SameClaim
<1> QED
  BY <1>3, <1>4, <1>5, <1>6, <1>7, <1>8, <1>9, <1>10, <1>11, <1>12 DEF Execute

-----------------------------------------------------------------------------
(* What happens around the executions.                                     *)

\* A row that waits is inserted or cancelled.
Waits(r) ==
  /\ runs[r].status \in {"absent", "queued"} /\ runs'[r].status \in {"queued", "cancelled"}
  /\ \/ runs'[r].attempts = runs[r].attempts
     \/ runs[r].status = "absent" /\ runs'[r].attempts = 0

\* The lease of a row that is worked on is renewed.
Renews(r) ==
  /\ \E t \in Tokens : RunOf(t) = r /\ Holds(t) /\ exec[t].pc \in Working
  /\ runs'[r] = Renewed(runs[r])

\* A step beside the executions and the claims: timers, specs, inserts, renewals, stops.
Aside ==
  /\ UNCHANGED <<claims, active>> /\ now' >= now
  /\ \A t \in Tokens : exec'[t].pc = exec[t].pc /\ exec'[t].runner = exec[t].runner
  /\ \A r \in RunIds : SameClaim(r) \/ Waits(r) \/ Renews(r)

\* A process dies with what it was doing.
Dies(R) ==
  /\ UNCHANGED <<now, runs, claims>>
  /\ active' = [active EXCEPT ![R] = [r \in RunIds |-> NoToken]]
  /\ \A t \in Tokens :
       IF exec[t].runner = R /\ exec[t].pc \in InFlight THEN exec'[t].pc = "dead"
       ELSE /\ exec'[t].pc = exec[t].pc
            /\ exec[t].pc \in InFlight => exec'[t].runner = exec[t].runner

\* Everything that happens is a tick, a crash, a move of an execution, or aside of them.
LEMMA StepKinds ==
  ASSUME TypeOK, [Next]_vars
  PROVE  \/ Aside
         \/ \E R \in Runners : Tick(R)
         \/ \E R \in Runners : Dies(R)
         \/ \E t \in Tokens : Execute(t) /\ Moves(t)
<1>1. exec \in [Tokens -> Exec] /\ runs \in [RunIds -> Row] /\ now \in Nat
  BY DEF TypeOK
<1>2. CASE UNCHANGED vars
  BY <1>1, <1>2 DEF vars, Aside, SameClaim
<1>3. CASE Advance
  BY <1>1, <1>3 DEF Advance, Aside, SameClaim
<1>4. ASSUME NEW s \in Specs, ToggleSpec(s) PROVE Aside
  BY <1>1, <1>4 DEF ToggleSpec, Aside, SameClaim
<1>5. ASSUME NEW s \in Specs, RemoveSpec(s) PROVE Aside
  <2>1. ASSUME NEW r \in RunIds PROVE SameClaim(r) \/ Waits(r)
    <3>1. CASE runs[r].spec = s /\ runs[r].status = "queued"
      <4>1. runs'[r] = [runs[r] EXCEPT !.status = "cancelled"] /\ runs[r] \in Row
        BY <1>1, <1>5, <3>1 DEF RemoveSpec
      <4> QED BY <3>1, <4>1 DEF Waits, Row
    <3>2. CASE ~(runs[r].spec = s /\ runs[r].status = "queued")
      BY <1>5, <3>2 DEF RemoveSpec, SameClaim
    <3> QED BY <3>1, <3>2
  <2> QED BY <1>1, <1>5, <2>1 DEF RemoveSpec, Aside
<1>6. ASSUME NEW r \in RunIds, NEW s \in Specs, NEW due \in 0 .. MaxNow, EnqueueRun(r, s, due)
      PROVE  Aside
  <2> DEFINE row == [NoRow EXCEPT !.spec = s, !.status = "queued", !.due = due]
  <2>1. row.status = "queued" /\ row.attempts = 0
    BY DEF NoRow
  <2>2. runs' = [runs EXCEPT ![r] = row] /\ runs[r].status = "absent"
    BY <1>6 DEF EnqueueRun
  <2> HIDE DEF row
  <2>3. ASSUME NEW q \in RunIds PROVE SameClaim(q) \/ Waits(q)
    <3>1. CASE q = r
      BY <1>1, <2>1, <2>2, <3>1 DEF Waits
    <3>2. CASE q # r
      BY <1>1, <2>2, <3>2 DEF SameClaim
    <3> QED BY <3>1, <3>2
  <2> QED BY <1>1, <1>6, <2>3 DEF EnqueueRun, Aside
<1>7. ASSUME NEW R \in Runners, Stop(R) PROVE Aside
  <2>1. \A u \in Tokens : exec'[u].pc = exec[u].pc /\ exec'[u].runner = exec[u].runner
    BY <1>1, <1>7, AbortedFacts DEF Stop
  <2> QED BY <1>1, <1>7, <2>1 DEF Stop, Aside, SameClaim
<1>8. ASSUME NEW R \in Runners, Stopped(R) \/ Start(R) PROVE Aside
  BY <1>1, <1>8 DEF Stopped, Start, Aside, SameClaim
<1>9. ASSUME NEW R \in Runners, Crash(R) PROVE Dies(R)
  <2>1. ASSUME NEW t \in Tokens
        PROVE  IF exec[t].runner = R /\ exec[t].pc \in InFlight THEN exec'[t].pc = "dead"
               ELSE /\ exec'[t].pc = exec[t].pc
                    /\ exec[t].pc \in InFlight => exec'[t].runner = exec[t].runner
    <3>1. Ended(exec[t], exec[t].pc, "none").pc = exec[t].pc
      BY <1>1, EndedPc
    <3>2. NewExec(None, "dead").pc = "dead"
      BY DEF NewExec
    <3> QED BY <1>9, <3>1, <3>2 DEF Crash
  <2> QED BY <1>9, <2>1 DEF Crash, Dies
<1>10. ASSUME NEW t \in Tokens, Heartbeat(t) PROVE Aside
  <2>1. CASE Holds(t)
    <3>1. RunOf(t) \in RunIds
      BY TokenFacts
    <3>2. runs' = [runs EXCEPT ![RunOf(t)] = Renewed(runs[RunOf(t)])] /\ exec[t].pc \in Working
          /\ UNCHANGED <<now, claims, exec, active>>
      BY <1>10, <2>1 DEF Heartbeat
    <3>3. ASSUME NEW r \in RunIds PROVE SameClaim(r) \/ Renews(r)
      BY <1>1, <2>1, <3>1, <3>2 DEF SameClaim, Renews
    <3> QED BY <1>1, <3>2, <3>3 DEF Aside
  <2>2. CASE ~Holds(t)
    <3> DEFINE stopped == [exec EXCEPT ![t].hb = FALSE]
    <3>1. [exec[t] EXCEPT !.hb = FALSE] \in Exec /\ [exec[t] EXCEPT !.hb = FALSE].pc = exec[t].pc
          /\ [exec[t] EXCEPT !.hb = FALSE].runner = exec[t].runner
      BY <1>1 DEF Exec
    <3>2. /\ stopped \in [Tokens -> Exec]
          /\ \A u \in Tokens : stopped[u].pc = exec[u].pc /\ stopped[u].runner = exec[u].runner
      BY <1>1, <3>1
    <3>3. exec' = Aborted(stopped, {active[exec[t].runner][RunOf(t)]}, "cancelled")
          /\ UNCHANGED <<now, claims, runs, active>>
      BY <1>10, <2>2 DEF Heartbeat
    <3> HIDE DEF stopped
    <3>4. \A u \in Tokens : exec'[u].pc = exec[u].pc /\ exec'[u].runner = exec[u].runner
      BY <3>2, <3>3, AbortedFacts
    <3>5. now' >= now /\ UNCHANGED <<claims, active>>
      BY <1>1, <3>3
    <3>6. \A r \in RunIds : SameClaim(r)
      BY <3>3 DEF SameClaim
    <3> QED BY <3>4, <3>5, <3>6 DEF Aside
  <2> QED BY <2>1, <2>2
<1>11. ASSUME NEW t \in Tokens, DeadlineFires(t) PROVE Aside
  <2> DEFINE e == [exec[t] EXCEPT !.abort = "timeout"]
  <2>1. e.pc = exec[t].pc /\ e.runner = exec[t].runner
    BY <1>1 DEF Exec
  <2>2. exec' = [exec EXCEPT ![t] = e] /\ UNCHANGED <<now, runs, claims, active>>
    BY <1>11 DEF DeadlineFires
  <2> HIDE DEF e
  <2>3. \A u \in Tokens : exec'[u].pc = exec[u].pc /\ exec'[u].runner = exec[u].runner
    BY <1>1, <2>1, <2>2, OneExecChanges
  <2> QED BY <1>1, <2>2, <2>3 DEF Aside, SameClaim
<1>12. ASSUME NEW t \in Tokens, Execute(t) PROVE Execute(t) /\ Moves(t)
  BY <1>12, ExecuteMoves
<1> QED
  BY <1>2, <1>3, <1>4, <1>5, <1>6, <1>7, <1>8, <1>9, <1>10, <1>11, <1>12 DEF Next

\* What a tick does: the rows of C are claimed anew, the others at most renewed.
TickOf(R, C) ==
  LET renewed == RenewLocalClaims(R)
  IN /\ C \subseteq {r \in RunIds : ClaimDue(renewed, r)} /\ IsClaimBatch(renewed, C)
     /\ \A r \in C : runs'[r] = ClaimedRow(renewed[r], <<r, claims[r] + 1>>)
                     /\ claims'[r] = claims[r] + 1 /\ claims[r] + 1 \in 1 .. MaxClaims
     /\ \A r \in RunIds \ C : runs'[r] = renewed[r] /\ claims'[r] = claims[r]
     /\ \A t \in Tokens :
          IF RunOf(t) \in C /\ t[2] = claims[RunOf(t)] + 1
          THEN exec'[t].pc = "claimed" /\ exec'[t].runner = R
          ELSE exec'[t].pc = exec[t].pc /\ exec'[t].runner = exec[t].runner
     /\ UNCHANGED <<now, active>>

\* Every tick is one.
LEMMA TickIs ==
  ASSUME TypeOK, NEW R \in Runners, Tick(R)
  PROVE  /\ \E C : TickOf(R, C)
         /\ \A t \in Tokens : exec[t].runner = R => exec[t].pc # "claimed"
<1> DEFINE renewed == RenewLocalClaims(R)
           checked == Aborted(exec, {t \in LocalClaims(R) : ~Holds(t)}, "cancelled")
<1>1. PICK C \in SUBSET {r \in RunIds : ClaimDue(renewed, r)} :
        /\ IsClaimBatch(renewed, C)
        /\ \A r \in C : claims[r] < MaxClaims
        /\ runs' = [r \in RunIds |->
                      IF r \in C THEN ClaimedRow(renewed[r], <<r, claims[r] + 1>>)
                      ELSE renewed[r]]
        /\ claims' = [r \in RunIds |-> IF r \in C THEN claims[r] + 1 ELSE claims[r]]
        /\ exec' = [t \in Tokens |->
                      IF RunOf(t) \in C /\ t[2] = claims[RunOf(t)] + 1
                      THEN NewExec(R, "claimed") ELSE checked[t]]
  BY DEF Tick
<1>2. \A t \in Tokens : checked[t].pc = exec[t].pc /\ checked[t].runner = exec[t].runner
  BY AbortedFacts DEF TypeOK
<1>3. NewExec(R, "claimed").pc = "claimed" /\ NewExec(R, "claimed").runner = R
  BY DEF NewExec
<1>4. \A r \in C : claims[r] + 1 \in 1 .. MaxClaims
  BY <1>1, ConstantsAssumption DEF TypeOK
<1>5. UNCHANGED <<now, active>> /\ \A t \in Tokens : exec[t].runner = R => exec[t].pc # "claimed"
  BY DEF Tick
<1> HIDE DEF renewed, checked
<1>6. \A r \in C : r \in RunIds
  BY <1>1
<1>7. TickOf(R, C)
  BY <1>1, <1>2, <1>3, <1>4, <1>5, <1>6 DEF TickOf, renewed
<1> QED BY <1>5, <1>7

\* A renewal changes the lease alone.
LEMMA RenewalRows ==
  ASSUME TypeOK, NEW R \in Runners, NEW r \in RunIds, NEW row, row = RenewLocalClaims(R)[r]
  PROVE  /\ row.status = runs[r].status /\ row.token = runs[r].token
         /\ row.spec = runs[r].spec /\ row.attempts = runs[r].attempts /\ row.due = runs[r].due
         /\ row \in Row
         /\ row.until = runs[r].until \/ row.until = now + Lease
         /\ row # runs[r] => \E t \in LocalClaims(R) : RunOf(t) = r /\ Holds(t)
         /\ (\E t \in LocalClaims(R) : RunOf(t) = r /\ Holds(t)) => row.until = now + Lease
<1>1. runs[r] \in Row /\ now \in Nat
  BY DEF TypeOK
<1>2. row = IF \E t \in LocalClaims(R) : RunOf(t) = r /\ Holds(t) THEN Renewed(runs[r])
            ELSE runs[r]
  BY DEF RenewLocalClaims
<1>3. now + Lease \in Nat
  BY <1>1, ConstantsAssumption
<1> QED BY <1>1, <1>2, <1>3 DEF Renewed, Row

-----------------------------------------------------------------------------
(* With one runner, whoever works on a run holds its row.                  *)

\* One CronRunner uses the database.  With two, a runner whose timers stall loses its lease
\* to the other, and works on beside it until its next heartbeat.
OneRunner == \A P, Q \in Runners : P = Q

\* Who works on a run holds its row and is registered for it; who closes a session has
\* settled the row.
HolderInv ==
  \A t \in Tokens :
    /\ exec[t].pc \in InFlight => exec[t].runner \in Runners
    /\ exec[t].pc \in Working \cup {"claimed"} => Holds(t)
    /\ exec[t].pc \in Working => active[exec[t].runner][RunOf(t)] = t
    /\ exec[t].pc = "closing" => runs[RunOf(t)].status \in Settled

\* activeRuns names executions of this runner that are in flight.
ActiveInv ==
  \A R \in Runners, r \in RunIds : active[R][r] # NoToken =>
    /\ RunOf(active[R][r]) = r /\ exec[active[R][r]].runner = R
    /\ exec[active[R][r]].pc \in InFlight \ {"claimed"}

SoleInv == HolderInv /\ ActiveInv

\* Two claims of one run never both hold its row, and a settled row is held by none.
LEMMA HoldsAlone ==
  ASSUME FencingInv, NEW t \in Tokens, Holds(t)
  PROVE  /\ \A u \in Tokens : RunOf(u) = RunOf(t) /\ Holds(u) => u = t
         /\ runs[RunOf(t)].status = "running" /\ runs[RunOf(t)].status \notin Settled
         /\ t = <<RunOf(t), claims[RunOf(t)]>> /\ RunOf(t) \in RunIds
<1>1. RunOf(t) \in RunIds /\ t # NoToken
  BY TokenFacts
<1>2. runs[RunOf(t)].status = "running" /\ t = <<RunOf(t), claims[RunOf(t)]>>
  BY <1>1 DEF Holds, FencingInv, ClaimsAreWorkedOn
<1> QED BY <1>1, <1>2 DEF Holds, Settled

\* The states of an execution, told apart.
LEMMA Pcs ==
  /\ "claimed" \in InFlight /\ "closing" \in InFlight /\ "reporting" \in InFlight
  /\ Working \subseteq InFlight /\ "preparing" \in Working
  /\ \A pc \in {"claimed", "reporting", "closing", "ended", "released", "dead", "unused"} :
       pc \notin Working
  /\ \A pc \in {"ended", "released", "dead", "unused"} : pc \notin InFlight
  /\ InFlight = Working \cup {"claimed", "reporting", "closing"}
BY DEF InFlight, Working, Awaiting

\* Renewals and cancellations leave the holders alone.
LEMMA SoleAside ==
  ASSUME FencingInv, SoleInv, Aside PROVE SoleInv'
<1>1. ASSUME NEW r \in RunIds
      PROVE  runs'[r].token = runs[r].token \/ runs[r].token = NoToken
  <2>1. CASE Waits(r)
    BY <2>1 DEF Waits, FencingInv, ClaimsAreWorkedOn
  <2>2. CASE Renews(r)
    BY <2>2 DEF Renews, Renewed, FencingInv, TypeOK, Row
  <2> QED BY <2>1, <2>2 DEF Aside, SameClaim
<1>2. ASSUME NEW r \in RunIds, runs[r].status \in Settled
      PROVE  runs'[r].status \in Settled
  <2>1. ~Waits(r)
    BY <1>2 DEF Waits, Settled
  <2>2. ~Renews(r)
    BY <1>2, HoldsAlone DEF Renews
  <2> QED BY <1>2, <2>1, <2>2 DEF Aside, SameClaim
<1>3. \A t \in Tokens : t # NoToken /\ RunOf(t) \in RunIds
  BY TokenFacts
<1>4. \A t \in Tokens : Holds(t) => Holds(t)'
  BY <1>1, <1>3 DEF Holds
<1>5. /\ active' = active
      /\ \A t \in Tokens : exec'[t].pc = exec[t].pc /\ exec'[t].runner = exec[t].runner
  BY DEF Aside
<1>6. HolderInv'
  BY <1>2, <1>3, <1>4, <1>5 DEF SoleInv, HolderInv
<1>7. ActiveInv'
  <2>1. \A R \in Runners, r \in RunIds : active[R][r] \in Tokens \cup {NoToken}
    BY DEF FencingInv, TypeOK
  <2> QED BY <1>5, <2>1 DEF SoleInv, ActiveInv
<1> QED BY <1>6, <1>7 DEF SoleInv

\* With its process, everything in flight is gone.
LEMMA SoleDies ==
  ASSUME FencingInv, SoleInv, OneRunner, NEW R \in Runners, Dies(R) PROVE SoleInv'
<1>1. ASSUME NEW t \in Tokens PROVE exec'[t].pc \notin InFlight
  BY <1>1, Pcs DEF Dies, SoleInv, HolderInv, OneRunner
<1>2. ASSUME NEW Q \in Runners, NEW r \in RunIds PROVE active'[Q][r] = NoToken
  <2>1. Q = R
    BY DEF OneRunner
  <2> QED BY <2>1 DEF Dies, FencingInv, TypeOK
<1>3. HolderInv'
  BY <1>1, Pcs DEF HolderInv
<1> QED BY <1>2, <1>3 DEF SoleInv, ActiveInv

\* An execution disturbs no other one.
LEMMA SoleMoves ==
  ASSUME FencingInv, SoleInv, OneRunner, NEW t \in Tokens, Moves(t) PROVE SoleInv'
<1> DEFINE r == RunOf(t)
           R == exec[t].runner
<1>1. /\ r \in RunIds /\ t # NoToken
      /\ \A u \in Tokens : RunOf(u) \in RunIds /\ u # NoToken
      /\ active \in [Runners -> [RunIds -> Tokens \cup {NoToken}]]
  BY TokenFacts DEF FencingInv, TypeOK
<1>2. \A u \in Tokens : u # t => exec'[u] = exec[u]
  BY DEF Moves
<1>3. \A q \in RunIds : q # r => runs'[q] = runs[q]
  BY DEF Moves
<1>4. ~GivesUp(t)
  BY DEF GivesUp, SoleInv, HolderInv
\* The execution itself.
<1>5. /\ exec'[t].pc \in InFlight => exec'[t].runner = R /\ R \in Runners
      /\ exec'[t].pc \in Working \cup {"claimed"} => Holds(t)'
      /\ exec'[t].pc \in Working => active'[R][r] = t
      /\ exec'[t].pc = "closing" => runs'[r].status \in Settled
  <2>1. CASE Goes(t)
    BY <1>1, <2>1, Pcs DEF Goes, SameClaim, SoleInv, HolderInv, Holds
  <2>2. CASE Enters(t)
    BY <1>1, <2>2, Pcs DEF Enters, SoleInv, HolderInv, Holds
  <2>3. CASE HandsBack(t)
    BY <2>3, Pcs DEF HandsBack
  <2>4. CASE Settles(t)
    BY <1>1, <2>4, Pcs DEF Settles, SoleInv, HolderInv
  <2>5. CASE Returns(t)
    BY <1>1, <2>5, Pcs DEF Returns, SameClaim, SoleInv, HolderInv, FencingInv,
       ReporterSettledTheRow
  <2> QED BY <1>4, <2>1, <2>2, <2>3, <2>4, <2>5 DEF Moves
\* The other executions of the same run.
<1>6. ASSUME NEW u \in Tokens, u # t, RunOf(u) = r
      PROVE  /\ exec[u].pc \in Working \cup {"claimed"} =>
                  Holds(u)' /\ active'[exec[u].runner][r] = active[exec[u].runner][r]
             /\ exec[u].pc = "closing" => runs'[r].status \in Settled
  <2>1. CASE Goes(t)
    BY <1>1, <1>6, <2>1 DEF Goes, SameClaim, SoleInv, HolderInv, Holds
  <2>2. CASE Enters(t)
    <3>1. Holds(t)
      BY <2>2 DEF Enters, SoleInv, HolderInv
    <3>2. exec[u].pc \notin Working \cup {"claimed"}
      BY <1>6, <3>1, HoldsAlone DEF SoleInv, HolderInv
    <3> QED BY <1>6, <2>2, <3>2 DEF Enters, SoleInv, HolderInv
  <2>3. CASE HandsBack(t) \/ Settles(t)
    <3>1. Holds(t)
      BY <2>3 DEF HandsBack, Settles
    <3>2. exec[u].pc \notin Working \cup {"claimed"}
      BY <1>6, <3>1, HoldsAlone DEF SoleInv, HolderInv
    <3>3. exec[u].pc # "closing"
      BY <1>6, <3>1, HoldsAlone DEF SoleInv, HolderInv
    <3> QED BY <3>2, <3>3
  <2>4. CASE Returns(t)
    <3>1. runs[r].status \in Settled
      BY <1>1, <2>4 DEF Returns, SoleInv, HolderInv, FencingInv, ReporterSettledTheRow
    <3>2. exec[u].pc \notin Working \cup {"claimed"}
      BY <1>6, <3>1, HoldsAlone DEF SoleInv, HolderInv
    <3> QED BY <3>1, <3>2, <2>4 DEF Returns, SameClaim
  <2> QED BY <1>4, <2>1, <2>2, <2>3, <2>4 DEF Moves
<1>7. ASSUME NEW Q \in Runners, NEW q \in RunIds, q # r PROVE active'[Q][q] = active[Q][q]
  <2>1. CASE active' = active
    BY <2>1
  <2>2. CASE active' = [active EXCEPT ![R][r] = t]
    BY <1>1, <1>7, <2>2
  <2>3. CASE active' = [active EXCEPT ![R][r] = NoToken]
    BY <1>1, <1>7, <2>3
  <2> QED
    BY <1>4, <2>1, <2>2, <2>3 DEF Moves, Goes, Enters, HandsBack, Settles, Returns
<1>8. HolderInv'
  <2>1. ASSUME NEW u \in Tokens
        PROVE  /\ exec'[u].pc \in InFlight => exec'[u].runner \in Runners
               /\ exec'[u].pc \in Working \cup {"claimed"} => Holds(u)'
               /\ exec'[u].pc \in Working => active'[exec'[u].runner][RunOf(u)] = u
               /\ exec'[u].pc = "closing" => runs'[RunOf(u)].status \in Settled
    <3>1. CASE u = t
      BY <1>5, <3>1, Pcs
    <3>2. CASE u # t /\ RunOf(u) = r
      BY <1>2, <1>6, <3>2 DEF SoleInv, HolderInv
    <3>3. CASE RunOf(u) # r
      <4>1. runs'[RunOf(u)] = runs[RunOf(u)] /\ exec'[u] = exec[u]
        BY <1>1, <1>2, <1>3, <3>3
      <4>2. exec[u].pc \in Working =>
              active'[exec[u].runner][RunOf(u)] = active[exec[u].runner][RunOf(u)]
        BY <1>1, <1>7, <3>3, Pcs DEF SoleInv, HolderInv
      <4> QED BY <4>1, <4>2 DEF SoleInv, HolderInv, Holds
    <3> QED BY <3>1, <3>2, <3>3
  <2> QED BY <2>1 DEF HolderInv
<1>9. ActiveInv'
  <2>1. ASSUME NEW Q \in Runners, NEW q \in RunIds, active'[Q][q] # NoToken
        PROVE  /\ RunOf(active'[Q][q]) = q /\ exec'[active'[Q][q]].runner = Q
               /\ exec'[active'[Q][q]].pc \in InFlight \ {"claimed"}
    <3> DEFINE u == active[Q][q]
    <3>1. u \in Tokens \cup {NoToken}
      BY <1>1
    <3>2. CASE active'[Q][q] = u /\ u # t
      BY <1>2, <2>1, <3>1, <3>2 DEF SoleInv, ActiveInv
    <3>3. CASE active'[Q][q] = u /\ u = t
      <4>1. q = r /\ R = Q /\ exec[t].pc \in InFlight \ {"claimed"}
        BY <2>1, <3>3 DEF SoleInv, ActiveInv
      <4>2. CASE Goes(t)
        BY <3>3, <4>1, <4>2, Pcs DEF Goes
      <4>3. CASE Enters(t) \/ HandsBack(t)
        BY <4>1, <4>3 DEF Enters, HandsBack
      <4>4. CASE Settles(t)
        BY <3>3, <4>1, <4>4, Pcs DEF Settles
      <4>5. CASE Returns(t)
        <5>1. active' # [active EXCEPT ![R][r] = NoToken]
          BY <1>1, <2>1, <4>1
        <5> QED BY <3>3, <4>1, <4>5, <5>1, Pcs DEF Returns
      <4> QED BY <1>4, <4>2, <4>3, <4>4, <4>5 DEF Moves
    <3>4. CASE active'[Q][q] # u
      <4>1. Enters(t) \/ active' = [active EXCEPT ![R][r] = NoToken]
        BY <1>4, <3>4 DEF Moves, Goes, HandsBack, Settles, Returns
      <4>2. active' # [active EXCEPT ![R][r] = NoToken]
        BY <1>1, <2>1, <3>4
      <4>3. /\ active' = [active EXCEPT ![R][r] = t]
            /\ exec'[t].pc = "preparing" /\ exec'[t].runner = R
        BY <4>1, <4>2 DEF Enters
      <4>4. Q = R /\ q = r /\ active'[Q][q] = t
        BY <1>1, <3>4, <4>3
      <4> QED BY <4>3, <4>4, Pcs
    <3> QED BY <3>2, <3>3, <3>4
  <2> QED BY <2>1 DEF ActiveInv
<1> QED BY <1>8, <1>9 DEF SoleInv

\* Whoever works on a row renews its lease first: no tick takes such a row.
LEMMA TickSpares ==
  ASSUME FencingInv, SoleInv, OneRunner, NEW R \in Runners, NEW t \in Tokens,
         exec[t].pc \in Working
  PROVE  /\ RenewLocalClaims(R)[RunOf(t)].until > now
         /\ ~ClaimDue(RenewLocalClaims(R), RunOf(t))
<1>1. exec[t].runner = R /\ Holds(t) /\ active[R][RunOf(t)] = t
  BY Pcs DEF SoleInv, HolderInv, OneRunner
<1>2. t \in LocalClaims(R)
  BY <1>1 DEF LocalClaims
<1> DEFINE row == RenewLocalClaims(R)[RunOf(t)]
<1>3. RunOf(t) \in RunIds /\ runs[RunOf(t)].status = "running"
  BY <1>1, HoldsAlone
<1>4. row.status = "running" /\ row.until = now + Lease
  BY <1>1, <1>2, <1>3, RenewalRows DEF FencingInv
<1>5. now + Lease > now /\ now \in Nat /\ now + Lease \in Nat
  BY ConstantsAssumption DEF FencingInv, TypeOK
<1> HIDE DEF row
<1>6. row.until > now /\ ~(row.until <= now)
  BY <1>4, <1>5
<1> QED BY <1>4, <1>6 DEF ClaimDue, row

\* A tick hands out fresh claims, of rows nobody works on.
LEMMA SoleTick ==
  ASSUME FencingInv, SoleInv, OneRunner, NEW R \in Runners, Tick(R) PROVE SoleInv'
<1>1. PICK C : TickOf(R, C)
  BY TickIs DEF FencingInv
<1>2. \A t \in Tokens : exec[t].pc # "claimed"
  BY TickIs, Pcs DEF FencingInv, SoleInv, HolderInv, OneRunner
<1>3. TypeOK /\ C \subseteq RunIds /\ active' = active
  BY <1>1 DEF TickOf, FencingInv
<1>4. \A t \in Tokens : t = <<RunOf(t), t[2]>> /\ RunOf(t) \in RunIds
  BY TokenFacts
<1>5. ASSUME NEW t \in Tokens, exec[t].pc # "unused"
      PROVE  exec'[t].pc = exec[t].pc /\ exec'[t].runner = exec[t].runner
  <2>1. ~(t[2] > claims[RunOf(t)])
    BY <1>5 DEF FencingInv, TokensAreFresh
  <2>2. claims[RunOf(t)] \in Int
    BY <1>4 DEF FencingInv, TypeOK
  <2>3. t[2] \in Int
    BY TokenFacts
  <2>4. t[2] # claims[RunOf(t)] + 1
    BY <2>1, <2>2, <2>3
  <2> QED BY <1>1, <2>4 DEF TickOf
<1>6. ASSUME NEW t \in Tokens, exec[t].pc = "unused"
      PROVE  \/ exec'[t].pc = "unused"
             \/ exec'[t].pc = "claimed" /\ exec'[t].runner = R /\ Holds(t)'
  <2>1. CASE RunOf(t) \in C /\ t[2] = claims[RunOf(t)] + 1
    <3> DEFINE row == RenewLocalClaims(R)[RunOf(t)]
    <3>1. exec'[t].pc = "claimed" /\ exec'[t].runner = R /\ runs'[RunOf(t)] = ClaimedRow(row, t)
      BY <1>1, <1>4, <2>1 DEF TickOf
    <3>2. row \in Row
      BY <1>3, <2>1, RenewalRows
    <3> HIDE DEF row
    <3>3. ClaimedRow(row, t).token = t
      BY <3>2 DEF ClaimedRow, Row
    <3> QED BY <3>1, <3>3 DEF Holds
  <2>2. CASE ~(RunOf(t) \in C /\ t[2] = claims[RunOf(t)] + 1)
    BY <1>1, <1>6, <2>2 DEF TickOf
  <2> QED BY <2>1, <2>2
<1>7. ASSUME NEW t \in Tokens, exec[t].pc \in Working PROVE Holds(t)'
  <2>1. RunOf(t) \notin C /\ RunOf(t) \in RunIds
    BY <1>1, <1>4, <1>7, TickSpares DEF TickOf
  <2>2. runs'[RunOf(t)].token = runs[RunOf(t)].token
    BY <1>1, <1>3, <2>1, RenewalRows DEF TickOf
  <2>3. Holds(t)
    BY <1>7 DEF SoleInv, HolderInv
  <2> QED BY <2>2, <2>3 DEF Holds
<1>8. ASSUME NEW r \in RunIds, runs[r].status \in Settled PROVE runs'[r].status \in Settled
  <2>1. RenewLocalClaims(R)[r].status = runs[r].status
    BY <1>3, RenewalRows
  <2>2. r \notin C
    BY <1>1, <1>8, <2>1 DEF TickOf, ClaimDue, Settled
  <2> QED BY <1>1, <1>8, <2>1, <2>2 DEF TickOf
<1>9. HolderInv'
  <2>1. ASSUME NEW t \in Tokens, exec[t].pc # "unused"
        PROVE  /\ exec'[t].pc \in InFlight => exec'[t].runner \in Runners
               /\ exec'[t].pc \in Working \cup {"claimed"} => Holds(t)'
               /\ exec'[t].pc \in Working => active'[exec'[t].runner][RunOf(t)] = t
               /\ exec'[t].pc = "closing" => runs'[RunOf(t)].status \in Settled
    BY <1>2, <1>3, <1>4, <1>5, <1>7, <1>8, <2>1 DEF SoleInv, HolderInv
  <2>2. ASSUME NEW t \in Tokens, exec[t].pc = "unused"
        PROVE  /\ exec'[t].pc \in InFlight => exec'[t].runner \in Runners
               /\ exec'[t].pc \in Working \cup {"claimed"} => Holds(t)'
               /\ exec'[t].pc \in Working => active'[exec'[t].runner][RunOf(t)] = t
               /\ exec'[t].pc = "closing" => runs'[RunOf(t)].status \in Settled
    BY <1>6, <2>2, Pcs
  <2> QED BY <2>1, <2>2 DEF HolderInv
<1>10. ActiveInv'
  <2>1. ASSUME NEW Q \in Runners, NEW r \in RunIds, active[Q][r] # NoToken
        PROVE  exec[active[Q][r]].pc # "unused" /\ active[Q][r] \in Tokens
    BY <2>1, Pcs DEF SoleInv, ActiveInv, FencingInv, TypeOK
  <2> QED BY <1>3, <1>5, <2>1 DEF SoleInv, ActiveInv
<1> QED BY <1>9, <1>10 DEF SoleInv

\* Nothing is in flight at first.
LEMMA SoleInit == Init => SoleInv
<1> SUFFICES ASSUME Init PROVE SoleInv
  OBVIOUS
<1>1. \A t \in Tokens : exec[t].pc = "unused"
  BY DEF Init, NewExec
<1>2. \A R \in Runners, r \in RunIds : active[R][r] = NoToken
  BY DEF Init
<1> QED BY <1>1, <1>2, Pcs DEF SoleInv, HolderInv, ActiveInv

\* Every step preserves it.
LEMMA SoleNext ==
  ASSUME FencingInv, SoleInv, OneRunner, [Next]_vars PROVE SoleInv'
BY StepKinds, SoleAside, SoleDies, SoleMoves, SoleTick DEF FencingInv

\* With one runner, whoever works on a run holds its row and is registered for it.
LEMMA SoleAlways == OneRunner /\ Spec => [](FencingInv /\ SoleInv)
<1>1. OneRunner /\ FencingInv /\ SoleInv /\ [Next]_vars => SoleInv'
  BY SoleNext
<1>2. OneRunner => OneRunner'
  BY DEF OneRunner
<1> QED
  BY FencingInit, FencingNext, SoleInit, <1>1, <1>2, PTL DEF Spec

\* With one runner, two executions never work on one run without one of them being told to stop.
THEOREM OneWorker == OneRunner /\ Spec => []OneWorkerPerRun
<1>1. FencingInv /\ SoleInv => OneWorkerPerRun
  <2> SUFFICES ASSUME FencingInv, SoleInv, NEW t \in Tokens, NEW u \in Tokens,
                      RunOf(t) = RunOf(u), t # u,
                      exec[t].pc \in Awaiting, exec[u].pc \in Awaiting
               PROVE  FALSE
    BY DEF OneWorkerPerRun
  <2>1. Holds(t) /\ Holds(u)
    BY DEF SoleInv, HolderInv, Working
  <2> QED BY <2>1, HoldsAlone
<1> QED
  BY SoleAlways, <1>1, PTL

-----------------------------------------------------------------------------
(* With one runner, the capacity is respected.                             *)

\* The rows whose capacity is taken: their lease is live, or their execution is alive and
\* will renew it.  Live leases alone are not inductive: a lease may run out while its owner
\* works on, and be renewed after others were claimed.
Kept == {r \in RunIds : /\ runs[r].status = "running"
                        /\ runs[r].until > now \/ exec[runs[r].token].pc # "dead"}
KeptOf(s) == {r \in Kept : runs[r].spec = s}

KeptWithin ==
  /\ Cardinality(Kept) <= Capacity
  /\ \A s \in Specs : Cardinality(KeptOf(s)) <= SpecCapacity(s)

\* Sets of rows are finite, and subsets are no larger.
LEMMA FiniteRuns ==
  /\ IsFiniteSet(RunIds)
  /\ \A S, T : T \subseteq RunIds /\ S \subseteq T =>
       /\ IsFiniteSet(S) /\ Cardinality(S) \in Nat /\ Cardinality(T) \in Nat
       /\ Cardinality(S) <= Cardinality(T)
<1>1. IsFiniteSet(RunIds)
  BY ConstantsAssumption, FS_Interval DEF RunIds
<1>2. ASSUME NEW T, T \subseteq RunIds PROVE IsFiniteSet(T) /\ Cardinality(T) \in Nat
  <2>1. T \in SUBSET RunIds
    BY <1>2
  <2>2. IsFiniteSet(T)
    BY <1>1, <2>1, FS_Subset
  <2> QED BY <2>2, FS_CardinalityType
<1>3. ASSUME NEW T, NEW S, T \subseteq RunIds, S \subseteq T
      PROVE  Cardinality(S) <= Cardinality(T)
  <2>1. IsFiniteSet(T) /\ S \in SUBSET T
    BY <1>2, <1>3
  <2> QED BY <2>1, FS_Subset
<1>4. ASSUME NEW T, NEW S, T \subseteq RunIds, S \subseteq T PROVE S \subseteq RunIds
  BY <1>4
<1> QED BY <1>1, <1>2, <1>3, <1>4

\* The capacities are at least one.
LEMMA CapacityNumbers ==
  /\ Capacity \in Nat /\ Capacity >= 1
  /\ \A s \in Specs : SpecCapacity(s) \in Nat /\ SpecCapacity(s) >= 1
BY ConstantsAssumption DEF Capacity, SpecCapacity, AtLeastOne

\* Some row of a batch is claimed after all the others.
LEMMA LastClaimed ==
  ASSUME NEW rs \in [RunIds -> Row], NEW W \in SUBSET RunIds, W # {}
  PROVE  \E w \in W : \A q \in W : q # w => ClaimedBefore(rs, q, w)
<1>1. IsFiniteSet(W)
  BY FiniteRuns
<1>2. \A r \in RunIds : rs[r].due \in Nat /\ r \in Nat
  BY TokenFacts DEF Row
<1> DEFINE Above(w) == {q \in W : ClaimedBefore(rs, w, q)}
           Aboves == {Above(w) : w \in W}
           R == StrictSubsetOrdering(W)
<1>3. IsWellFoundedOn(R, SUBSET W)
  BY <1>1, FS_StrictSubsetOrderingWellFounded, FS_FiniteSubsetsOfFinite
<1>4. Aboves \subseteq SUBSET W /\ Aboves # {}
  <2>1. \A w \in W : Above(w) \in Aboves /\ Above(w) \subseteq W
    OBVIOUS
  <2>2. PICK w \in W : TRUE
    OBVIOUS
  <2> HIDE DEF Above
  <2> QED BY <2>1, <2>2
<1>5. PICK A \in Aboves : \A B \in Aboves : ~(<<B, A>> \in R)
  <2> HIDE DEF Aboves, R
  <2> QED BY <1>3, <1>4, WFMin
<1>6. PICK w \in W : A = Above(w)
  BY <1>5
<1>7. ASSUME NEW q \in W, ClaimedBefore(rs, w, q) PROVE FALSE
  <2>1. ~ClaimedBefore(rs, q, q)
    BY <1>2 DEF ClaimedBefore
  <2>2. \A p \in W : ClaimedBefore(rs, q, p) => ClaimedBefore(rs, w, p)
    BY <1>2, <1>7 DEF ClaimedBefore
  <2>3. Above(q) \subseteq Above(w) /\ q \in Above(w) /\ q \notin Above(q)
    BY <1>7, <2>1, <2>2
  <2>4. <<Above(q), Above(w)>> \in R
    BY <2>3 DEF StrictSubsetOrdering
  <2>5. Above(q) \in Aboves
    OBVIOUS
  <2> QED BY <2>4, <2>5, <1>5, <1>6
<1>8. ASSUME NEW q \in W, q # w PROVE ClaimedBefore(rs, q, w)
  <2>1. ~ClaimedBefore(rs, w, q)
    BY <1>7
  <2> QED BY <1>2, <1>8, <2>1 DEF ClaimedBefore
<1> QED BY <1>8

\* A row found running names its claim.
LEMMA RunningToken ==
  ASSUME FencingInv, NEW r \in RunIds, runs[r].status = "running"
  PROVE  /\ runs[r].token \in Tokens /\ RunOf(runs[r].token) = r /\ Holds(runs[r].token)
         /\ exec[runs[r].token].pc \in Working \cup {"claimed", "dead"}
<1>1. runs[r].token # NoToken /\ runs[r].token \in Tokens \cup {NoToken}
  BY DEF FencingInv, ClaimsAreWorkedOn, TypeOK, Row
<1>2. /\ runs[r].token = <<r, claims[r]>>
      /\ exec[<<r, claims[r]>>].pc \in (InFlight \ {"reporting", "closing"}) \cup {"dead"}
  BY <1>1 DEF FencingInv, ClaimsAreWorkedOn
<1>3. RunOf(runs[r].token) = r
  BY <1>2 DEF RunOf
<1> QED BY <1>1, <1>2, <1>3 DEF Holds, InFlight

\* A step that takes no new capacity.
LEMMA KeptShrinks ==
  ASSUME KeptWithin, \A r \in RunIds : r \in Kept' => r \in Kept /\ runs'[r].spec = runs[r].spec
  PROVE  KeptWithin'
<1>1. Kept' \subseteq Kept /\ Kept \subseteq RunIds
  BY DEF Kept
<1>2. /\ Cardinality(Kept') <= Cardinality(Kept)
      /\ Cardinality(Kept') \in Nat /\ Cardinality(Kept) \in Nat
  BY <1>1, FiniteRuns
<1>3. Cardinality(Kept') <= Capacity
  BY <1>2, CapacityNumbers DEF KeptWithin
<1>4. ASSUME NEW s \in Specs PROVE Cardinality(KeptOf(s)') <= SpecCapacity(s)
  <2>1. KeptOf(s)' \subseteq KeptOf(s) /\ KeptOf(s) \subseteq RunIds /\ KeptOf(s)' \subseteq RunIds
    BY <1>1 DEF KeptOf
  <2>2. Cardinality(KeptOf(s)') <= Cardinality(KeptOf(s)) /\ Cardinality(KeptOf(s)') \in Nat
        /\ Cardinality(KeptOf(s)) \in Nat
    BY <2>1, FiniteRuns
  <2> QED BY <2>2, CapacityNumbers DEF KeptWithin
<1>5. Capacity' = Capacity /\ \A s \in Specs : SpecCapacity(s)' = SpecCapacity(s)
  BY DEF Capacity, SpecCapacity, AtLeastOne
<1> QED BY <1>3, <1>4, <1>5 DEF KeptWithin

\* No step aside takes capacity.
LEMMA KeptAside ==
  ASSUME FencingInv, TypeOK', Aside, KeptWithin PROVE KeptWithin'
<1>1. ASSUME NEW r \in RunIds, r \in Kept' PROVE r \in Kept /\ runs'[r].spec = runs[r].spec
  <2>1. runs'[r].status = "running" /\ (runs'[r].until > now' \/ exec'[runs'[r].token].pc # "dead")
    BY <1>1 DEF Kept
  <2>2. /\ now' >= now /\ now \in Int /\ now' \in Int /\ runs[r].until \in Int /\ runs[r] \in Row
        /\ \A t \in Tokens : exec'[t].pc = exec[t].pc
    BY DEF Aside, FencingInv, TypeOK, Row
  <2>3. CASE SameClaim(r)
    <3>1. runs[r].status = "running" /\ runs[r].token \in Tokens
      BY <2>1, <2>3, RunningToken DEF SameClaim
    <3>2. CASE runs'[r].until > now'
      <4>1. runs[r].until > now
        <5> QED BY <2>2, <2>3, <3>2 DEF SameClaim
      <4> QED BY <2>3, <3>1, <4>1 DEF Kept, SameClaim
    <3>3. CASE exec'[runs'[r].token].pc # "dead"
      BY <2>2, <2>3, <3>1, <3>3 DEF Kept, SameClaim
    <3> QED BY <2>1, <3>2, <3>3
  <2>4. CASE Waits(r)
    BY <2>1, <2>4 DEF Waits
  <2>5. CASE Renews(r)
    <3>1. PICK t \in Tokens : RunOf(t) = r /\ Holds(t) /\ exec[t].pc \in Working
      BY <2>5 DEF Renews
    <3>2. runs[r].status = "running" /\ runs[r].token = t
      BY <3>1, HoldsAlone DEF Holds
    <3>3. runs'[r].spec = runs[r].spec
      BY <2>2, <2>5 DEF Renews, Renewed, Row
    <3> QED BY <3>1, <3>2, <3>3, Pcs DEF Kept
  <2> QED BY <2>3, <2>4, <2>5 DEF Aside
<1> QED BY <1>1, KeptShrinks

\* Nor does a crash.
LEMMA KeptDies ==
  ASSUME FencingInv, NEW R \in Runners, Dies(R), KeptWithin PROVE KeptWithin'
<1>1. ASSUME NEW r \in RunIds, r \in Kept' PROVE r \in Kept /\ runs'[r].spec = runs[r].spec
  <2>1. runs' = runs /\ now' = now
    BY DEF Dies
  <2>2. runs[r].status = "running" /\ (runs[r].until > now \/ exec'[runs[r].token].pc # "dead")
    BY <1>1, <2>1 DEF Kept
  <2>3. runs[r].token \in Tokens
    BY <2>2, RunningToken
  <2>4. exec'[runs[r].token].pc # "dead" => exec[runs[r].token].pc # "dead"
    BY <2>3, Pcs DEF Dies
  <2> QED BY <2>1, <2>2, <2>4 DEF Kept
<1> QED BY <1>1, KeptShrinks

\* Nor does an execution.
LEMMA KeptMoves ==
  ASSUME FencingInv, NEW t \in Tokens, Moves(t), KeptWithin PROVE KeptWithin'
<1>1. now' = now /\ RunOf(t) \in RunIds
  BY TokenFacts DEF Moves
<1>2. exec'[t].pc # "dead" => exec[t].pc # "dead"
  BY Pcs DEF Moves, Goes, Enters, HandsBack, Settles, GivesUp, Returns
<1>3. ASSUME NEW r \in RunIds, r \in Kept' PROVE r \in Kept /\ runs'[r].spec = runs[r].spec
  <2>1. runs'[r].status = "running" /\ (runs'[r].until > now \/ exec'[runs'[r].token].pc # "dead")
    BY <1>1, <1>3 DEF Kept
  <2>2. CASE SameClaim(r)
    <3>1. runs[r].status = "running" /\ runs[r].token \in Tokens /\ runs'[r].token = runs[r].token
          /\ runs'[r].until = runs[r].until /\ runs'[r].spec = runs[r].spec
      BY <2>1, <2>2, RunningToken DEF SameClaim
    <3>2. exec'[runs[r].token].pc # "dead" => exec[runs[r].token].pc # "dead"
      BY <1>2, <3>1 DEF Moves
    <3> QED BY <2>1, <3>1, <3>2 DEF Kept
  <2>3. CASE ~SameClaim(r)
    <3>1. r = RunOf(t)
      BY <2>3 DEF Moves, SameClaim
    <3>2. HandsBack(t) \/ Settles(t)
      BY <2>3, <3>1 DEF Moves, Goes, Enters, GivesUp, Returns, SameClaim
    <3>3. runs[r] \in Row
      BY DEF FencingInv, TypeOK
    <3>4. CASE HandsBack(t)
      BY <2>1, <3>1, <3>3, <3>4 DEF HandsBack, Requeued, Row
    <3>5. CASE Settles(t)
      BY <2>1, <3>1, <3>5 DEF Settles, Settled
    <3> QED BY <3>2, <3>4, <3>5
  <2> QED BY <2>2, <2>3
<1> QED BY <1>3, KeptShrinks

\* A row whose capacity is taken after a tick was claimed by it or has a live lease once the
\* local claims are renewed; and those leases took their capacity before.
LEMMA KeptByTick ==
  ASSUME FencingInv, SoleInv, OneRunner, NEW R \in Runners, NEW C, TickOf(R, C),
         \A t \in Tokens : exec[t].pc # "claimed", NEW rs, rs = RenewLocalClaims(R)
  PROVE  /\ Kept' \subseteq LiveRuns(rs) \cup C
         /\ LiveRuns(rs) \subseteq Kept
         /\ \A r \in RunIds : rs[r].spec = runs[r].spec /\ runs'[r].spec = runs[r].spec
         /\ rs \in [RunIds -> Row] /\ C \subseteq RunIds
<1>1. /\ TypeOK /\ now' = now /\ C \subseteq RunIds
      /\ \A r \in C : runs'[r] = ClaimedRow(rs[r], <<r, claims[r] + 1>>)
      /\ \A r \in RunIds \ C : runs'[r] = rs[r]
  BY DEF TickOf, FencingInv
<1>2. ASSUME NEW r \in RunIds
      PROVE  /\ rs[r] \in Row /\ rs[r].spec = runs[r].spec /\ rs[r].status = runs[r].status
             /\ rs[r].token = runs[r].token
             /\ rs[r] # runs[r] => \E t \in LocalClaims(R) : RunOf(t) = r /\ Holds(t)
  <2> DEFINE row == rs[r]
  <2>1. row = RenewLocalClaims(R)[r]
    OBVIOUS
  <2> HIDE DEF row
  <2>2. /\ row \in Row /\ row.spec = runs[r].spec /\ row.status = runs[r].status
        /\ row.token = runs[r].token
        /\ row # runs[r] => \E t \in LocalClaims(R) : RunOf(t) = r /\ Holds(t)
    BY <1>1, <2>1, RenewalRows
  <2> QED BY <2>2 DEF row
<1>3. rs \in [RunIds -> Row]
  <2>1. rs = [r \in RunIds |-> rs[r]]
    BY DEF RenewLocalClaims
  <2> QED BY <1>2, <2>1
<1>4. ASSUME NEW r \in RunIds PROVE runs'[r].spec = runs[r].spec
  <2>1. \A t : \A row \in Row : ClaimedRow(row, t).spec = row.spec
    BY DEF ClaimedRow, Row
  <2>2. CASE r \in C
    <3>1. PICK t : runs'[r] = ClaimedRow(rs[r], t)
      BY <1>1, <2>2
    <3>2. rs[r] \in Row /\ rs[r].spec = runs[r].spec
      BY <1>2
    <3>3. ClaimedRow(rs[r], t).spec = rs[r].spec
      BY <2>1, <3>2
    <3> QED BY <3>1, <3>2, <3>3
  <2>3. CASE r \notin C
    BY <1>1, <1>2, <2>3
  <2> QED BY <2>2, <2>3
<1>5. ASSUME NEW r \in Kept', r \notin C PROVE r \in LiveRuns(rs)
  <2>1. r \in RunIds /\ runs'[r] = rs[r] /\ runs'[r].status = "running"
        /\ (runs'[r].until > now \/ exec'[runs'[r].token].pc # "dead")
    BY <1>1, <1>5 DEF Kept
  <2>2. runs[r].status = "running" /\ runs'[r].token = runs[r].token
    BY <1>2, <2>1
  <2> DEFINE t == runs[r].token
  <2>3. t \in Tokens /\ RunOf(t) = r /\ exec[t].pc \in Working \cup {"dead"}
    BY <1>5, <2>1, <2>2, RunningToken, TokenFacts
  <2>4. exec'[t].pc = exec[t].pc \/ RunOf(t) \in C
    BY <2>3 DEF TickOf
  <2>5. CASE exec[t].pc \in Working
    <3>1. RenewLocalClaims(R)[r].until > now
      <4>1. RenewLocalClaims(R)[RunOf(t)].until > now
        BY <2>3, <2>5, TickSpares
      <4> QED BY <2>3, <4>1
    <3> QED BY <2>1, <3>1 DEF LiveRuns, Live
  <2>6. CASE exec[t].pc = "dead"
    <3>1. rs[r].until > now
      BY <1>5, <2>1, <2>2, <2>3, <2>4, <2>6
    <3> QED BY <2>1, <3>1 DEF LiveRuns, Live
  <2> QED BY <2>3, <2>5, <2>6
<1>6. ASSUME NEW r \in LiveRuns(rs) PROVE r \in Kept
  <2>1. r \in RunIds /\ rs[r].status = "running" /\ rs[r].until > now
    BY DEF LiveRuns, Live
  <2>2. runs[r].status = "running"
    BY <1>2, <2>1
  <2>3. CASE rs[r] = runs[r]
    BY <2>1, <2>2, <2>3 DEF Kept
  <2>4. CASE rs[r] # runs[r]
    <3>1. PICK t \in LocalClaims(R) : RunOf(t) = r /\ Holds(t)
      BY <1>2, <2>1, <2>4
    <3>2. t \in Tokens /\ active[R][r] = t /\ t # NoToken /\ runs[r].token = t
      BY <3>1, TokenFacts DEF LocalClaims, Holds
    <3>3. exec[t].pc \in InFlight
      BY <2>1, <3>2 DEF SoleInv, ActiveInv
    <3> QED BY <2>1, <2>2, <3>2, <3>3, Pcs DEF Kept
  <2> QED BY <2>3, <2>4
<1> QED BY <1>1, <1>2, <1>3, <1>4, <1>5, <1>6

\* What was claimed fits beside the live leases.
LEMMA BatchFits ==
  ASSUME NEW rs \in [RunIds -> Row], NEW C \in SUBSET {r \in RunIds : ClaimDue(rs, r)},
         IsClaimBatch(rs, C), C # {}
  PROVE  Cardinality(LiveRuns(rs)) + Cardinality(C) <= Capacity
<1>1. PICK w \in C : \A q \in C : q # w => ClaimedBefore(rs, q, w)
  BY LastClaimed
<1> DEFINE taken == {q \in C : ClaimedBefore(rs, q, w)}
<1>2. Cardinality(LiveRuns(rs)) + Cardinality(taken) < Capacity
  BY <1>1 DEF IsClaimBatch
<1>3. C \ {w} \subseteq taken /\ taken \subseteq RunIds /\ C \subseteq RunIds
      /\ LiveRuns(rs) \subseteq RunIds
  BY <1>1 DEF LiveRuns
<1> HIDE DEF taken
<1>4. /\ Cardinality(C \ {w}) <= Cardinality(taken) /\ Cardinality(taken) \in Nat
      /\ Cardinality(C) \in Nat /\ IsFiniteSet(C) /\ Cardinality(LiveRuns(rs)) \in Nat
  BY <1>3, FiniteRuns
<1>5. Cardinality(C \ {w}) = Cardinality(C) - 1
  BY <1>1, <1>4, FS_RemoveElement
<1> QED BY <1>2, <1>4, <1>5, CapacityNumbers

\* And so it does for each spec.
LEMMA BatchFitsSpec ==
  ASSUME NEW rs \in [RunIds -> Row], NEW C \in SUBSET {r \in RunIds : ClaimDue(rs, r)},
         IsClaimBatch(rs, C), NEW s \in Specs, NEW D, D = {r \in C : rs[r].spec = s}, D # {}
  PROVE  Cardinality(LiveRunsOf(rs, s)) + Cardinality(D) <= SpecCapacity(s)
<1>1. D \in SUBSET RunIds
  OBVIOUS
<1>2. PICK w \in D : \A q \in D : q # w => ClaimedBefore(rs, q, w)
  BY <1>1, LastClaimed
<1> DEFINE taken == {q \in {p \in C : ClaimedBefore(rs, p, w)} : rs[q].spec = rs[w].spec}
<1>3. Cardinality(LiveRunsOf(rs, rs[w].spec)) + Cardinality(taken) < SpecCapacity(rs[w].spec)
  BY <1>2 DEF IsClaimBatch
<1>4. rs[w].spec = s
  BY <1>2
<1>5. D \ {w} \subseteq taken /\ taken \subseteq RunIds /\ LiveRunsOf(rs, s) \subseteq RunIds
  BY <1>2, <1>4 DEF LiveRunsOf, LiveRuns
<1> HIDE DEF taken
<1>6. /\ Cardinality(D \ {w}) <= Cardinality(taken) /\ Cardinality(taken) \in Nat
      /\ Cardinality(D) \in Nat /\ IsFiniteSet(D) /\ Cardinality(LiveRunsOf(rs, s)) \in Nat
  BY <1>1, <1>5, FiniteRuns
<1>7. Cardinality(D \ {w}) = Cardinality(D) - 1
  BY <1>2, <1>6, FS_RemoveElement
<1>8. Cardinality(LiveRunsOf(rs, s)) + Cardinality(taken) < SpecCapacity(s)
  BY <1>3, <1>4
<1> QED BY <1>6, <1>7, <1>8, CapacityNumbers

\* The union of two sets of rows has at most as many rows as they have together.
LEMMA UnionBound ==
  ASSUME NEW S \in SUBSET RunIds, NEW T \in SUBSET RunIds, NEW U, U \subseteq S \cup T
  PROVE  Cardinality(U) <= Cardinality(S) + Cardinality(T)
<1>1. /\ IsFiniteSet(S) /\ IsFiniteSet(T) /\ Cardinality(S) \in Nat /\ Cardinality(T) \in Nat
      /\ Cardinality(S \cap T) \in Nat
  BY FiniteRuns
<1>2. Cardinality(S \cup T) = Cardinality(S) + Cardinality(T) - Cardinality(S \cap T)
  BY <1>1, FS_Union
<1>3. S \cup T \subseteq RunIds
  OBVIOUS
<1>4. Cardinality(U) <= Cardinality(S \cup T) /\ Cardinality(U) \in Nat
  BY <1>3, FiniteRuns
<1> QED BY <1>1, <1>2, <1>4

\* A tick takes no more than there is.
LEMMA KeptTick ==
  ASSUME FencingInv, SoleInv, OneRunner, NEW R \in Runners, Tick(R), KeptWithin
  PROVE  KeptWithin'
<1>1. PICK C : TickOf(R, C)
  BY TickIs DEF FencingInv
<1>2. \A t \in Tokens : exec[t].pc # "claimed"
  BY TickIs, Pcs DEF FencingInv, SoleInv, HolderInv, OneRunner
<1>3. PICK rs : rs = RenewLocalClaims(R)
  OBVIOUS
<1>4. /\ Kept' \subseteq LiveRuns(rs) \cup C /\ LiveRuns(rs) \subseteq Kept
      /\ \A r \in RunIds : rs[r].spec = runs[r].spec /\ runs'[r].spec = runs[r].spec
      /\ rs \in [RunIds -> Row] /\ C \subseteq RunIds
  BY <1>1, <1>2, <1>3, KeptByTick
<1>5. C \in SUBSET {r \in RunIds : ClaimDue(rs, r)} /\ IsClaimBatch(rs, C)
  BY <1>1, <1>3 DEF TickOf
<1>6. /\ Kept \subseteq RunIds /\ Kept' \subseteq RunIds
      /\ Cardinality(Kept) \in Nat /\ Cardinality(Kept') \in Nat
  <2>1. Kept \subseteq RunIds /\ Kept' \subseteq RunIds
    BY DEF Kept
  <2> QED BY <2>1, FiniteRuns
<1>7. Cardinality(Kept') <= Capacity
  <2>1. CASE C = {}
    <3>1. Kept' \subseteq Kept
      BY <1>4, <2>1
    <3>2. Cardinality(Kept') <= Cardinality(Kept)
      BY <1>6, <3>1, FiniteRuns
    <3> QED BY <1>6, <3>2, CapacityNumbers DEF KeptWithin
  <2>2. CASE C # {}
    <3>1. Cardinality(LiveRuns(rs)) + Cardinality(C) <= Capacity
      BY <1>4, <1>5, <2>2, BatchFits
    <3>2. LiveRuns(rs) \in SUBSET RunIds /\ C \in SUBSET RunIds
      BY <1>4 DEF LiveRuns
    <3>3. Cardinality(Kept') <= Cardinality(LiveRuns(rs)) + Cardinality(C)
      BY <1>4, <3>2, UnionBound
    <3>4. Cardinality(LiveRuns(rs)) \in Nat /\ Cardinality(C) \in Nat
      BY <3>2, FiniteRuns
    <3> QED BY <1>6, <3>1, <3>3, <3>4, CapacityNumbers
  <2> QED BY <2>1, <2>2
<1>8. ASSUME NEW s \in Specs PROVE Cardinality(KeptOf(s)') <= SpecCapacity(s)
  <2> DEFINE D == {r \in C : rs[r].spec = s}
  <2>1. /\ KeptOf(s)' \subseteq LiveRunsOf(rs, s) \cup D
        /\ LiveRunsOf(rs, s) \subseteq KeptOf(s)
        /\ KeptOf(s) \subseteq RunIds /\ KeptOf(s)' \subseteq RunIds
    BY <1>4, <1>6 DEF KeptOf, LiveRunsOf
  <2>2. /\ Cardinality(KeptOf(s)) \in Nat /\ Cardinality(KeptOf(s)') \in Nat
        /\ Cardinality(KeptOf(s)) <= SpecCapacity(s)
    BY <2>1, FiniteRuns DEF KeptWithin
  <2>3. CASE D = {}
    <3>1. KeptOf(s)' \subseteq KeptOf(s)
      BY <2>1, <2>3
    <3>2. Cardinality(KeptOf(s)') <= Cardinality(KeptOf(s))
      BY <2>1, <3>1, FiniteRuns
    <3> QED BY <2>2, <3>2, CapacityNumbers
  <2>4. CASE D # {}
    <3>1. Cardinality(LiveRunsOf(rs, s)) + Cardinality(D) <= SpecCapacity(s)
      BY <1>4, <1>5, <2>4, BatchFitsSpec
    <3>2. LiveRunsOf(rs, s) \in SUBSET RunIds /\ D \in SUBSET RunIds
      BY <1>4 DEF LiveRunsOf, LiveRuns
    <3> HIDE DEF D
    <3>3. Cardinality(KeptOf(s)') <= Cardinality(LiveRunsOf(rs, s)) + Cardinality(D)
      BY <2>1, <3>2, UnionBound
    <3>4. Cardinality(LiveRunsOf(rs, s)) \in Nat /\ Cardinality(D) \in Nat
      BY <3>2, FiniteRuns
    <3> QED BY <2>2, <3>1, <3>3, <3>4, CapacityNumbers
  <2> QED BY <2>3, <2>4
<1>9. Capacity' = Capacity /\ \A s \in Specs : SpecCapacity(s)' = SpecCapacity(s)
  BY DEF Capacity, SpecCapacity, AtLeastOne
<1> QED BY <1>7, <1>8, <1>9 DEF KeptWithin

\* No capacity is taken at first.
LEMMA KeptInit == Init => KeptWithin
<1> SUFFICES ASSUME Init PROVE KeptWithin
  OBVIOUS
<1>1. Kept = {} /\ \A s \in Specs : KeptOf(s) = {}
  BY DEF Init, NoRow, Kept, KeptOf
<1> QED BY <1>1, FS_EmptySet, CapacityNumbers DEF KeptWithin

\* Every step keeps within it.
LEMMA KeptNext ==
  ASSUME FencingInv, SoleInv, OneRunner, [Next]_vars, KeptWithin PROVE KeptWithin'
<1>1. TypeOK /\ TypeOK'
  BY FencingNext DEF FencingInv
<1> QED BY <1>1, StepKinds, KeptAside, KeptDies, KeptMoves, KeptTick

\* Live leases are among the rows whose capacity is taken.
LEMMA KeptCovers == KeptWithin => CapacityRespected
<1> SUFFICES ASSUME KeptWithin PROVE CapacityRespected
  OBVIOUS
<1>1. LiveRuns(runs) \subseteq Kept /\ Kept \subseteq RunIds
  BY DEF LiveRuns, Live, Kept
<1>2. Cardinality(LiveRuns(runs)) <= Capacity
  <2>1. /\ Cardinality(LiveRuns(runs)) <= Cardinality(Kept)
        /\ Cardinality(LiveRuns(runs)) \in Nat /\ Cardinality(Kept) \in Nat
    BY <1>1, FiniteRuns
  <2> QED BY <2>1, CapacityNumbers DEF KeptWithin
<1>3. ASSUME NEW s \in Specs PROVE Cardinality(LiveRunsOf(runs, s)) <= SpecCapacity(s)
  <2>1. LiveRunsOf(runs, s) \subseteq KeptOf(s) /\ KeptOf(s) \subseteq RunIds
    BY <1>1 DEF LiveRunsOf, KeptOf
  <2>2. /\ Cardinality(LiveRunsOf(runs, s)) <= Cardinality(KeptOf(s))
        /\ Cardinality(LiveRunsOf(runs, s)) \in Nat /\ Cardinality(KeptOf(s)) \in Nat
    BY <2>1, FiniteRuns
  <2> QED BY <2>2, CapacityNumbers DEF KeptWithin
<1> QED BY <1>2, <1>3 DEF CapacityRespected

-----------------------------------------------------------------------------
(* With any number of runners, attempts count dispatched claims.           *)

\* The claims of r that count as attempts.
Dispatched(r) == {t \in Tokens : RunOf(t) = r /\ exec[t].pc \notin {"unused", "released"}}

\* A row has finitely many claims.
LEMMA DispatchedFinite ==
  \A r : /\ IsFiniteSet(Dispatched(r)) /\ Cardinality(Dispatched(r)) \in Nat
         /\ IsFiniteSet(Dispatched(r)') /\ Cardinality(Dispatched(r)') \in Nat
<1>1. IsFiniteSet(Tokens)
  <2>1. IsFiniteSet(RunIds) /\ IsFiniteSet(1 .. MaxClaims)
    BY ConstantsAssumption, FS_Interval DEF RunIds
  <2> QED BY <2>1, FS_Product DEF Tokens
<1>2. \A S \in SUBSET Tokens : IsFiniteSet(S) /\ Cardinality(S) \in Nat
  BY <1>1, FS_Subset, FS_CardinalityType
<1>3. \A r : Dispatched(r) \in SUBSET Tokens /\ Dispatched(r)' \in SUBSET Tokens
  BY DEF Dispatched
<1> QED BY <1>2, <1>3

\* A step that changes neither the attempts of r nor which of its claims were dispatched.
LEMMA SameAttempts ==
  ASSUME NEW r \in RunIds, runs[r].attempts = Cardinality(Dispatched(r)),
         runs'[r].attempts = runs[r].attempts,
         \A t \in Tokens : RunOf(t) = r =>
           (exec'[t].pc \in {"unused", "released"} <=> exec[t].pc \in {"unused", "released"})
  PROVE  runs'[r].attempts = Cardinality(Dispatched(r)')
<1>1. Dispatched(r)' = Dispatched(r)
  BY DEF Dispatched
<1> QED BY <1>1

\* Inserting a row starts at zero, a renewal counts nothing.
LEMMA AttemptsAside ==
  ASSUME FencingInv, Aside, NEW r \in RunIds, runs[r].attempts = Cardinality(Dispatched(r))
  PROVE  runs'[r].attempts = Cardinality(Dispatched(r)')
<1>1. \A t \in Tokens : exec'[t].pc = exec[t].pc
  BY DEF Aside
<1>2. CASE runs'[r].attempts = runs[r].attempts
  BY <1>1, <1>2, SameAttempts
<1>3. CASE runs[r].status = "absent" /\ runs'[r].attempts = 0
  <2>1. claims[r] \in Nat /\ ~(claims[r] > 0)
    BY <1>3 DEF FencingInv, TypeOK, RowsHaveSpecs
  <2>2. \A t \in Tokens : RunOf(t) = r => exec[t].pc = "unused"
    BY <2>1, TokenFacts DEF FencingInv, TokensAreFresh
  <2>3. Dispatched(r)' = {}
    BY <1>1, <2>2 DEF Dispatched
  <2> QED BY <1>3, <2>3, FS_EmptySet
<1>4. Renews(r) => runs'[r].attempts = runs[r].attempts
  BY DEF Renews, Renewed, FencingInv, TypeOK, Row
<1> QED BY <1>2, <1>3, <1>4 DEF Aside, SameClaim, Waits

\* Only handing back a claim takes an attempt back.
LEMMA AttemptsMoves ==
  ASSUME FencingInv, NEW t \in Tokens, Moves(t), NEW r \in RunIds,
         runs[r].attempts = Cardinality(Dispatched(r))
  PROVE  runs'[r].attempts = Cardinality(Dispatched(r)')
<1>1. \A u \in Tokens : u # t => exec'[u] = exec[u]
  BY DEF Moves
<1>2. CASE r # RunOf(t)
  <2>1. runs'[r] = runs[r]
    BY <1>2 DEF Moves
  <2> QED BY <1>1, <1>2, <2>1, SameAttempts
<1>3. CASE r = RunOf(t) /\ ~HandsBack(t)
  <2>1. runs'[r].attempts = runs[r].attempts
    BY <1>3 DEF Moves, Goes, Enters, Settles, GivesUp, Returns, SameClaim
  <2>2. exec'[t].pc \in {"unused", "released"} <=> exec[t].pc \in {"unused", "released"}
    BY <1>3, Pcs DEF Moves, Goes, Enters, Settles, GivesUp, Returns
  <2> QED BY <1>1, <2>1, <2>2, SameAttempts
<1>4. CASE r = RunOf(t) /\ HandsBack(t)
  <2>1. exec[t].pc = "claimed" /\ exec'[t].pc = "released" /\ runs'[r] = Requeued(runs[r])
    BY <1>4 DEF HandsBack
  <2>2. t \in Dispatched(r) /\ Dispatched(r)' = Dispatched(r) \ {t}
    BY <1>1, <1>4, <2>1 DEF Dispatched
  <2>3. Cardinality(Dispatched(r)') = Cardinality(Dispatched(r)) - 1
        /\ Cardinality(Dispatched(r)') \in Nat /\ Cardinality(Dispatched(r)) \in Nat
    BY <2>2, DispatchedFinite, FS_RemoveElement
  <2>4. runs[r].attempts > 0
    BY <2>3
  <2>5. runs[r] \in Row
    BY DEF FencingInv, TypeOK
  <2>6. runs'[r].attempts = runs[r].attempts - 1
    BY <2>1, <2>4, <2>5 DEF Requeued, Row
  <2> QED BY <2>3, <2>6
<1> QED BY <1>2, <1>3, <1>4

\* A claim counts one attempt.
LEMMA AttemptsTick ==
  ASSUME FencingInv, NEW R \in Runners, Tick(R), NEW r \in RunIds,
         runs[r].attempts = Cardinality(Dispatched(r))
  PROVE  runs'[r].attempts = Cardinality(Dispatched(r)')
<1>1. PICK C : TickOf(R, C)
  BY TickIs DEF FencingInv
<1>2. PICK row : row = RenewLocalClaims(R)[r]
  OBVIOUS
<1>3. row \in Row /\ row.attempts = runs[r].attempts /\ claims[r] \in Nat
  BY <1>2, RenewalRows DEF FencingInv, TypeOK
<1>4. CASE r \notin C
  <2>1. runs'[r] = row
    BY <1>1, <1>2, <1>4 DEF TickOf
  <2>2. \A t \in Tokens : RunOf(t) = r => exec'[t].pc = exec[t].pc
    BY <1>1, <1>4 DEF TickOf
  <2> QED BY <1>3, <2>1, <2>2, SameAttempts
<1>5. CASE r \in C
  <2> DEFINE t == <<r, claims[r] + 1>>
  <2>1. runs'[r] = ClaimedRow(row, t) /\ claims[r] + 1 \in 1 .. MaxClaims
    BY <1>1, <1>2, <1>5 DEF TickOf
  <2>2. t \in Tokens /\ RunOf(t) = r /\ t[2] = claims[r] + 1
    BY <2>1, TokenFacts
  <2>3. exec[t].pc = "unused" /\ exec'[t].pc = "claimed"
    <3>1. t[2] > claims[RunOf(t)]
      BY <1>3, <2>2
    <3>2. exec[t].pc = "unused"
      BY <2>2, <3>1 DEF FencingInv, TokensAreFresh
    <3>3. exec'[t].pc = "claimed"
      BY <1>1, <1>5, <2>2 DEF TickOf
    <3> QED BY <3>2, <3>3
  <2>4. ASSUME NEW u \in Tokens, RunOf(u) = r, u # t PROVE exec'[u].pc = exec[u].pc
    <3>1. u[2] # claims[r] + 1
      BY <2>4, TokenFacts
    <3> QED BY <1>1, <2>4, <3>1 DEF TickOf
  <2> HIDE DEF t
  <2>5. t \notin Dispatched(r) /\ Dispatched(r)' = Dispatched(r) \cup {t}
    BY <2>2, <2>3, <2>4 DEF Dispatched
  <2>6. Cardinality(Dispatched(r)') = Cardinality(Dispatched(r)) + 1
    BY <2>5, DispatchedFinite, FS_AddElement
  <2>7. ClaimedRow(row, t).attempts = row.attempts + 1
    BY <1>3 DEF ClaimedRow, Row
  <2> QED BY <1>3, <2>1, <2>6, <2>7
<1> QED BY <1>4, <1>5

\* Every step keeps the count.
LEMMA AttemptsNext ==
  ASSUME FencingInv, [Next]_vars, AttemptsCountDispatches PROVE AttemptsCountDispatches'
<1>1. TypeOK
  BY DEF FencingInv
<1>2. ASSUME NEW r \in RunIds PROVE runs'[r].attempts = Cardinality(Dispatched(r)')
  <2>1. runs[r].attempts = Cardinality(Dispatched(r))
    BY DEF AttemptsCountDispatches, Dispatched
  <2>2. CASE Aside
    BY <2>1, <2>2, AttemptsAside
  <2>3. ASSUME NEW R \in Runners, Dies(R)
        PROVE  runs'[r].attempts = Cardinality(Dispatched(r)')
    <3>1. runs'[r].attempts = runs[r].attempts
      BY <2>3 DEF Dies
    <3>2. \A t \in Tokens : exec'[t].pc \in {"unused", "released"} <=>
                             exec[t].pc \in {"unused", "released"}
      BY <2>3, Pcs DEF Dies
    <3> QED BY <2>1, <3>1, <3>2, SameAttempts
  <2> QED BY <1>1, <2>1, <2>2, <2>3, StepKinds, AttemptsMoves, AttemptsTick
<1> QED BY <1>2 DEF AttemptsCountDispatches, Dispatched

\* No row has attempts at first.
LEMMA AttemptsInit == Init => AttemptsCountDispatches
<1> SUFFICES ASSUME Init PROVE AttemptsCountDispatches
  OBVIOUS
<1>1. ASSUME NEW r \in RunIds PROVE runs[r].attempts = 0 /\ Dispatched(r) = {}
  BY DEF Init, NoRow, NewExec, Dispatched
<1> QED BY <1>1, FS_EmptySet DEF AttemptsCountDispatches, Dispatched

\* attempt_count counts the dispatched claims of a row, with any number of runners: a claim
\* handed back by a stopping runner is no attempt, and no attempt is counted twice.
THEOREM AttemptsAreDispatches == Spec => []AttemptsCountDispatches
<1>1. FencingInv /\ AttemptsCountDispatches /\ [Next]_vars => AttemptsCountDispatches'
  BY AttemptsNext
<1> QED BY FencingAlways, AttemptsInit, <1>1, PTL DEF Spec

\* With one runner the live leases never exceed the global and per-spec capacity, and
\* attempt_count counts the dispatched claims.
THEOREM CapacityIsKept == OneRunner /\ Spec => []DispatchInv
<1>1. OneRunner /\ FencingInv /\ SoleInv /\ KeptWithin /\ [Next]_vars => KeptWithin'
  BY KeptNext
<1>2. OneRunner => OneRunner'
  BY DEF OneRunner
<1>3. FencingInv /\ KeptWithin /\ AttemptsCountDispatches => DispatchInv
  BY KeptCovers DEF FencingInv, DispatchInv
<1> QED
  BY SoleAlways, KeptInit, <1>1, <1>2, <1>3, AttemptsAreDispatches, PTL DEF Spec

-----------------------------------------------------------------------------
(* What an abort is the end of.                                            *)

\* What an execution makes of its row once it was aborted.
Ending(t) ==
  /\ exec'[t].pc # "sending" \/ exec'[t].pc = exec[t].pc
  /\ Holds(t) => runs'[RunOf(t)].status # "done"

\* completeRun does not turn a failure into a success.
LEMMA FinishEnds ==
  ASSUME FencingInv, NEW t \in Tokens, NEW status \in {"failed", "cancelled"}, NEW sess,
         Finish(t, status, sess)
  PROVE  Ending(t)
<1>1. RunOf(t) \in RunIds /\ runs[RunOf(t)] \in Row /\ runs \in [RunIds -> Row]
      /\ exec \in [Tokens -> Exec] /\ exec[t] \in Exec /\ TypeOK
  BY TokenFacts DEF FencingInv, TypeOK
<1>2. CASE Holds(t)
  <2> DEFINE e == [exec[t] EXCEPT !.pc = "reporting", !.sess = sess]
             row == Completed(runs[RunOf(t)], status,
                              IF sess \in {"open", "closed"} THEN t ELSE NoToken)
  <2>1. e.pc = "reporting"
    BY <1>1 DEF Exec
  <2>2. row.status = status
    BY <1>1 DEF Completed, Row
  <2>3. exec' = [exec EXCEPT ![t] = e] /\ runs' = [runs EXCEPT ![RunOf(t)] = row]
    BY <1>2 DEF Finish
  <2> HIDE DEF e, row
  <2>4. exec'[t] = e /\ runs'[RunOf(t)] = row
    BY <1>1, <2>3, OneExecChanges
  <2> QED BY <2>1, <2>2, <2>4 DEF Ending
<1>3. CASE ~Holds(t)
  <2>1. Leave(t, sess)
    BY <1>3 DEF Finish
  <2> QED BY <1>1, <1>3, <2>1, LeaveMoves DEF Ending
<1> QED BY <1>2, <1>3

\* An aborted execution starts no turn and does not succeed.
LEMMA AbortedEnds ==
  ASSUME FencingInv, NEW t \in Tokens, exec[t].abort # "no", Execute(t)
  PROVE  Ending(t)
<1>1. RunOf(t) \in RunIds /\ runs[RunOf(t)] \in Row /\ runs \in [RunIds -> Row]
      /\ exec \in [Tokens -> Exec] /\ exec[t] \in Exec /\ TypeOK
  BY TokenFacts DEF FencingInv, TypeOK
<1>2. AbortStatus(t) \in {"failed", "cancelled"}
  BY DEF AbortStatus
<1>3. Holds(t) => runs[RunOf(t)].status = "running"
  BY HoldsAlone
<1>4. CASE Begin(t)
  <2>1. Moves(t) /\ exec[t].pc = "claimed"
    BY <1>1, <1>4, BeginMoves DEF Begin
  <2>2. exec'[t].pc # "sending"
    BY <2>1, Pcs DEF Moves, Goes, Enters, HandsBack, Settles, GivesUp, Returns
  <2>3. Completed(runs[RunOf(t)], "cancelled", NoToken).status = "cancelled"
        /\ Requeued(runs[RunOf(t)]).status = "queued"
    BY <1>1 DEF Completed, Requeued, Row
  <2>4. Holds(t) => runs'[RunOf(t)].status # "done"
    <3>1. \/ runs' = runs
          \/ runs' = [runs EXCEPT ![RunOf(t)] = Completed(runs[RunOf(t)], "cancelled", NoToken)]
          \/ runs' = [runs EXCEPT ![RunOf(t)] = Requeued(runs[RunOf(t)])]
      BY <1>4 DEF Begin
    <3> QED BY <1>1, <1>3, <2>3, <3>1
  <2> QED BY <2>2, <2>4 DEF Ending
<1>5. CASE RequestBuilt(t) \/ SessionStarted(t) \/ TurnFinished(t) \/ StepFails(t)
  BY <1>5 DEF RequestBuilt, SessionStarted, TurnFinished, StepFails
<1>6. CASE LateStart(t)
  <2> DEFINE e == IF exec[t].pc = "ended" THEN Ended(exec[t], "ended", "late")
                  ELSE [exec[t] EXCEPT !.sess = "late"]
  <2>1. exec' = [exec EXCEPT ![t] = e] /\ runs' = runs
    BY <1>6 DEF LateStart
  <2>2. e.pc = exec[t].pc
    BY <1>1, EndedPc DEF Exec
  <2> HIDE DEF e
  <2>3. exec'[t].pc = exec[t].pc
    BY <1>1, <2>1, <2>2, OneExecChanges
  <2> QED BY <1>3, <2>1, <2>3 DEF Ending
<1>7. CASE Unwind(t)
  <2>1. CASE exec[t].sess = "open"
    <3> DEFINE e == [exec[t] EXCEPT !.pc = "cleanup"]
    <3>1. exec' = [exec EXCEPT ![t] = e] /\ runs' = runs
      BY <1>7, <2>1 DEF Unwind
    <3>2. e.pc = "cleanup"
      BY <1>1 DEF Exec
    <3> HIDE DEF e
    <3>3. exec'[t].pc = "cleanup"
      BY <1>1, <3>1, <3>2, OneExecChanges
    <3> QED BY <1>3, <3>1, <3>3 DEF Ending
  <2>2. CASE exec[t].sess # "open"
    BY <1>2, <1>7, <2>2, FinishEnds DEF Unwind
  <2> QED BY <2>1, <2>2
<1>8. CASE CleanedUp(t)
  BY <1>2, <1>8, FinishEnds DEF CleanedUp
<1>9. CASE Closed(t) \/ \E written \in BOOLEAN : Report(t, written)
  <2>1. PICK sess : Leave(t, sess)
    BY <1>9 DEF Closed, Report
  <2>2. exec'[t].pc \in {"closing", "ended"}
    BY <1>1, <2>1, LeaveMoves
  <2>3. Holds(t) => exec[t].pc # "reporting"
    BY <1>1, <1>3 DEF FencingInv, ReporterSettledTheRow, Settled
  <2>4. Holds(t) => runs' = runs
    BY <1>9, <2>3 DEF Closed, Report
  <2> QED BY <1>3, <2>2, <2>4 DEF Ending
<1> QED BY <1>4, <1>5, <1>6, <1>7, <1>8, <1>9 DEF Execute

\* Nothing else starts a turn or settles the row of an execution.
LEMMA OthersEnd ==
  ASSUME FencingInv, NEW t \in Tokens, exec[t].abort # "no", [Next]_vars
  PROVE  Ending(t)
<1>1. RunOf(t) \in RunIds /\ TypeOK /\ runs[RunOf(t)] \in Row
  BY TokenFacts DEF FencingInv, TypeOK
<1>2. Holds(t) => runs[RunOf(t)].status = "running"
  BY HoldsAlone
<1>3. CASE Aside
  <2>1. exec'[t].pc = exec[t].pc
    BY <1>3 DEF Aside
  <2>2. Renews(RunOf(t)) => runs'[RunOf(t)].status = runs[RunOf(t)].status
    BY <1>1 DEF Renews, Renewed, Row
  <2>3. Holds(t) => runs'[RunOf(t)].status # "done"
    BY <1>1, <1>2, <1>3, <2>2 DEF Aside, SameClaim, Waits
  <2> QED BY <2>1, <2>3 DEF Ending
<1>4. ASSUME NEW R \in Runners, Tick(R) PROVE Ending(t)
  <2>1. PICK C : TickOf(R, C)
    BY <1>1, <1>4, TickIs
  <2>2. exec'[t].pc \in {"claimed", exec[t].pc}
    BY <2>1 DEF TickOf
  <2>3. PICK row : row = RenewLocalClaims(R)[RunOf(t)]
    OBVIOUS
  <2>4. row \in Row /\ row.status = runs[RunOf(t)].status
    BY <1>1, <2>3, RenewalRows
  <2>5. \E u : runs'[RunOf(t)] \in {row, ClaimedRow(row, u)}
    BY <1>1, <2>1, <2>3 DEF TickOf
  <2>6. \A u : ClaimedRow(row, u).status = "running"
    BY <2>4 DEF ClaimedRow, Row
  <2> QED BY <1>2, <2>2, <2>4, <2>5, <2>6 DEF Ending
<1>5. ASSUME NEW R \in Runners, Dies(R) PROVE Ending(t)
  BY <1>2, <1>5 DEF Dies, Ending
<1>6. ASSUME NEW u \in Tokens, u # t, Execute(u), Moves(u) PROVE Ending(t)
  <2>1. exec'[t] = exec[t]
    BY <1>6 DEF Moves
  <2>2. ASSUME Holds(t) PROVE runs'[RunOf(t)].status # "done"
    <3>1. ~(RunOf(t) = RunOf(u) /\ Holds(u))
      BY <1>6, <2>2, HoldsAlone
    <3>2. \/ runs'[RunOf(t)] = runs[RunOf(t)]
          \/ runs'[RunOf(t)] = [runs[RunOf(t)] EXCEPT !.report = u]
      BY <1>1, <1>6, <3>1, ExecuteWrites
    <3>3. [runs[RunOf(t)] EXCEPT !.report = u].status = runs[RunOf(t)].status
      BY <1>1 DEF Row
    <3> QED BY <1>2, <2>2, <3>2, <3>3
  <2> QED BY <2>1, <2>2 DEF Ending
<1> QED BY <1>1, <1>3, <1>4, <1>5, <1>6, StepKinds, AbortedEnds

\* Once an execution was aborted, because its claim was lost, its runner stops or its deadline
\* passed, it never sends a turn and never records its run as done.
THEOREM AbortIsKept == Spec => AbortedNeverSucceeds
<1>1. FencingInv /\ [Next]_vars =>
        \A t \in Tokens : exec[t].abort # "no" =>
          /\ exec[t].pc # "sending" => exec'[t].pc # "sending"
          /\ Holds(t) => runs'[RunOf(t)].status # "done"
  BY OthersEnd DEF Ending
<1> QED BY FencingAlways, <1>1, PTL DEF Spec, AbortedNeverSucceeds

=============================================================================
