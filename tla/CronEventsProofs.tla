-------------------------- MODULE CronEventsProofs --------------------------
(***************************************************************************)
(* Proofs about CronEvents, for every number of events, keys and specs,    *)
(* all settings of the specs, any clock and any wait for the database.     *)
(***************************************************************************)
EXTENDS CronEvents, FiniteSetTheorems, WellFoundedInduction, TLAPS

(***************************************************************************)
(* The inductive invariant.  A run is made with its own event; its trigger *)
(* is the event merged into it last, of the same key; it is due after the  *)
(* debounce time of every event it answers for, and begins when it is due. *)
(* What the windows are measured from, the receipt of the trigger, lies at *)
(* most MaxSkew before the receipt of the run's own event.                 *)
(***************************************************************************)

\* A delivery waits for at most MaxSkew, and nothing is received in the future.
DeliveriesAreRecent ==
  /\ \A d \in inbox : d[2] <= now /\ now - d[2] <= MaxSkew
  /\ \A e \in Events : log[e].at <= now

\* Of an event that is not logged nothing is known.
UnloggedIsBlank == \A e \in Events : Logged(e) \/ log[e] = NotLogged

\* A run exists only for an event that is logged and was given it.
RunsHaveEvents ==
  \A s \in Specs, r \in Events :
    IF runs[s][r].st = "none" THEN runs[s][r] = NoRun ELSE Logged(r)

\* The trigger of a run was given to it, is of its event's key, and was received at most
\* MaxSkew before its event.
TriggersAreGiven ==
  \A s \in Specs : \A r \in Made(s) :
    LET f == runs[s][r].trigger
    IN /\ f \in Events /\ Logged(f)
       /\ log[f].what[s] = "queued" /\ key[f] = key[r]
       /\ log[r].at <= log[f].at + MaxSkew

\* An event that was given a run is waited for by it.
RunsWaitForEvents ==
  \A e \in Events, s \in Specs : log[e].what[s] = "queued" =>
    LET r == log[e].run[s]
    IN r \in Made(s) /\ runs[s][r].due >= log[e].at + conf[s].debounce

\* A run that has begun was due.
RunsBeginWhenDue ==
  \A s \in Specs, r \in Events : runs[s][r].began # None => runs[s][r].began >= runs[s][r].due

\* All of it.
EventsInv ==
  /\ TypeOK
  /\ LoggedIsDecided
  /\ DeliveriesAreRecent
  /\ UnloggedIsBlank
  /\ RunsHaveEvents
  /\ TriggersAreGiven
  /\ RunsWaitForEvents
  /\ RunsBeginWhenDue
  /\ RunsApart
  /\ SuppressedForCause

-----------------------------------------------------------------------------
(* The run an event is merged into.                                        *)

\* Among finitely many values one is largest.
LEMMA LargestExists ==
  ASSUME NEW W, IsFiniteSet(W), W # {}, NEW f \in [W -> Nat]
  PROVE  \E w \in W : \A q \in W : f[q] <= f[w]
<1> DEFINE Above(w) == {q \in W : f[q] > f[w]}
           Aboves == {Above(w) : w \in W}
           R == StrictSubsetOrdering(W)
<1>1. IsWellFoundedOn(R, SUBSET W)
  BY FS_StrictSubsetOrderingWellFounded, FS_FiniteSubsetsOfFinite
<1>2. Aboves \subseteq SUBSET W /\ Aboves # {}
  <2>1. \A w \in W : Above(w) \in Aboves /\ Above(w) \subseteq W
    OBVIOUS
  <2>2. PICK w \in W : TRUE
    OBVIOUS
  <2> HIDE DEF Above
  <2> QED BY <2>1, <2>2
<1>3. PICK A \in Aboves : \A B \in Aboves : ~(<<B, A>> \in R)
  <2> HIDE DEF Aboves, R
  <2> QED BY <1>1, <1>2, WFMin
<1>4. PICK w \in W : A = Above(w)
  BY <1>3
<1>5. ASSUME NEW q \in W, f[q] > f[w] PROVE FALSE
  <2>1. Above(q) \subseteq Above(w) /\ q \in Above(w) /\ q \notin Above(q)
    BY <1>5
  <2>2. <<Above(q), Above(w)>> \in R
    BY <2>1 DEF StrictSubsetOrdering
  <2>3. Above(q) \in Aboves
    OBVIOUS
  <2> QED BY <2>2, <2>3, <1>3, <1>4
<1>6. \A q \in W : f[q] <= f[w]
  BY <1>5
<1> QED BY <1>6

\* findQueuedEventRunForDedupe finds a run if one waits.
LEMMA LastDueWaits ==
  ASSUME TypeOK, NEW s \in Specs, NEW k, Waiting(s, k) # {}
  PROVE  LastDue(s, k) \in Waiting(s, k)
<1> DEFINE W == Waiting(s, k)
           f == [r \in W |-> runs[s][r].due]
<1>1. W \in SUBSET Events
  BY DEF Waiting, Made
<1>2. IsFiniteSet(W)
  BY <1>1, ConstantsAssumption, FS_Subset
<1>3. f \in [W -> Nat]
  BY <1>1 DEF TypeOK, RunRecords
<1>4. PICK w \in W : \A q \in W : f[q] <= f[w]
  BY <1>2, <1>3, LargestExists
<1>5. \A q \in W : runs[s][q].due <= runs[s][w].due
  BY <1>4
<1> HIDE DEF W
<1> QED BY <1>5 DEF LastDue, W

-----------------------------------------------------------------------------
(* Acceptance of an event.                                                 *)

\* What acceptance writes for a spec that the event was not given a run of: the reason is
\* a run made for another event.
Declined(s, e, t) ==
  /\ log'[e].what[s] \in {"unmatched", "window", "cooldown"}
  /\ runs'[s] = runs[s]
  /\ log'[e].what[s] = "window" =>
       \E r \in Made(s) : TriggerKey(s, r) = key[e] /\ TriggerAt(s, r) >= t - conf[s].window
  /\ log'[e].what[s] = "cooldown" =>
       \E r \in Made(s) : TriggerAt(s, r) >= t - conf[s].cooldown

\* What it writes for a spec whose waiting run r takes the event.
MergedInto(s, e, t, r) ==
  /\ r \in Made(s) /\ runs[s][r].st = "queued" /\ TriggerKey(s, r) = key[e]
  /\ log'[e].what[s] = "queued" /\ log'[e].run[s] = r
  /\ \E due \in Nat :
       /\ due >= runs[s][r].due /\ due >= t + conf[s].debounce
       /\ runs'[s] = [runs[s] EXCEPT ![r] =
                        [st |-> "queued", trigger |-> e, due |-> due, began |-> None]]

\* What it writes for a spec that makes a new run: no run was made within the windows.
NewlyMade(s, e, t) ==
  /\ conf[s].window > 0 =>
       \A r \in Made(s) : TriggerKey(s, r) = key[e] => TriggerAt(s, r) < t - conf[s].window
  /\ conf[s].cooldown > 0 => \A r \in Made(s) : TriggerAt(s, r) < t - conf[s].cooldown
  /\ log'[e].what[s] = "queued" /\ log'[e].run[s] = e
  /\ \E due \in Nat :
       /\ due >= t + conf[s].debounce
       /\ runs'[s] = [runs[s] EXCEPT ![e] =
                        [st |-> "queued", trigger |-> e, due |-> due, began |-> None]]

\* The first acceptance of event e, received at time t.
Accepts(e, t) ==
  /\ log' \in [Events -> [at : {None} \cup Times, what : [Specs -> Outcomes],
                          run : [Specs -> {None} \cup Events]]]
  /\ runs' \in [Specs -> [Events -> RunRecords]]
  /\ log'[e].at = t /\ \A f \in Events \ {e} : log'[f] = log[f]
  /\ \A s \in Specs :
       \/ Declined(s, e, t)
       \/ \E r \in Events : MergedInto(s, e, t, r)
       \/ NewlyMade(s, e, t)

\* The row that acceptance writes for a spec that gives the event a run.
LEMMA MaterializedRow ==
  ASSUME TypeOK, NEW s \in Specs, NEW e \in Events, NEW t \in Times, NEW r \in Events,
         RunFor(s, e) = r, runs[s][r].began = None
  PROVE  \E due \in Nat :
           /\ due >= runs[s][r].due /\ due >= t + conf[s].debounce
           /\ Materialized(s, e, t) = [runs[s] EXCEPT ![r] =
                [st |-> "queued", trigger |-> e, due |-> due, began |-> None]]
<1> DEFINE new == t + conf[s].debounce
           due == DueAfter(runs[s][r].due, new)
<1>1. runs[s] \in [Events -> RunRecords] /\ runs[s][r].due \in Nat
  BY DEF TypeOK, RunRecords
<1>2. new \in Nat
  BY ConstantsAssumption DEF TypeOK, Times
<1>3. due \in Nat /\ due >= runs[s][r].due /\ due >= new
  BY <1>1, <1>2 DEF DueAfter, Larger
<1>4. Materialized(s, e, t) = [runs[s] EXCEPT ![r] =
                [st |-> "queued", trigger |-> e, due |-> due, began |-> None]]
  BY DEF Materialized
<1> QED BY <1>3, <1>4

\* eventTransaction, spec by spec: declined, merged into a waiting run, or given its own.
LEMMA AcceptWrites ==
  ASSUME EventsInv, NEW e \in Events, NEW t \in Times, Accept(e, t), ~Logged(e)
  PROVE  Accepts(e, t)
<1> DEFINE fate == [s \in Specs |-> Fate(s, key[e], t)]
           entry == [at |-> t, what |-> fate,
                     run |-> [s \in Specs |-> IF fate[s] = "queued" THEN RunFor(s, e) ELSE None]]
<1>1. /\ log' = [log EXCEPT ![e] = entry]
      /\ runs' = [s \in Specs |-> IF fate[s] = "queued" THEN Materialized(s, e, t) ELSE runs[s]]
  BY DEF Accept
<1>2. TypeOK /\ RunsHaveEvents
  BY DEF EventsInv
<1>3. \A s \in Specs : fate[s] \in Outcomes \ {"received"}
  BY DEF Fate, Outcomes
<1>4. ASSUME NEW s \in Specs
      PROVE  /\ RunFor(s, e) \in Events
             /\ runs[s][RunFor(s, e)].began = None
             /\ Merges(s, key[e]) => RunFor(s, e) \in Waiting(s, key[e])
             /\ ~Merges(s, key[e]) => RunFor(s, e) = e
  <2>1. CASE Merges(s, key[e])
    <3>1. RunFor(s, e) \in Waiting(s, key[e])
      BY <2>1, <1>2, LastDueWaits DEF Merges, RunFor
    <3> QED BY <2>1, <3>1, <1>2 DEF Waiting, Made, TypeOK
  <2>2. CASE ~Merges(s, key[e])
    BY <2>2, <1>2 DEF RunFor, RunsHaveEvents, NoRun
  <2> QED BY <2>1, <2>2
<1>5. log' \in [Events -> [at : {None} \cup Times, what : [Specs -> Outcomes],
                            run : [Specs -> {None} \cup Events]]]
  <2>1. entry \in [at : {None} \cup Times, what : [Specs -> Outcomes],
                    run : [Specs -> {None} \cup Events]]
    BY <1>3, <1>4
  <2> HIDE DEF entry
  <2> QED BY <1>1, <1>2, <2>1 DEF TypeOK
<1>6. log'[e] = entry /\ \A f \in Events \ {e} : log'[f] = log[f]
  <2> HIDE DEF entry
  <2> QED BY <1>1, <1>2 DEF TypeOK
<1>7. ASSUME NEW s \in Specs
      PROVE  Declined(s, e, t) \/ (\E r \in Events : MergedInto(s, e, t, r)) \/ NewlyMade(s, e, t)
  <2>1. log'[e].what[s] = Fate(s, key[e], t)
    BY <1>6
  <2>2. CASE fate[s] # "queued"
    <3>1. runs'[s] = runs[s]
      BY <1>1, <2>2
    <3>2. Fate(s, key[e], t) \in {"unmatched", "window", "cooldown"}
      BY <1>3, <2>2 DEF Outcomes
    <3>3. Fate(s, key[e], t) = "window" => RecentOfKey(s, key[e], t - conf[s].window)
      BY DEF Fate
    <3>4. Fate(s, key[e], t) = "cooldown" => Recent(s, t - conf[s].cooldown)
      BY DEF Fate
    <3> QED BY <2>1, <3>1, <3>2, <3>3, <3>4 DEF Declined, RecentOfKey, Recent
  <2>3. CASE fate[s] = "queued"
    <3>1. PICK r \in Events : r = RunFor(s, e)
      BY <1>4
    <3>2. runs[s][r].began = None
      BY <1>4, <3>1
    <3>3. PICK due \in Nat :
            /\ due >= runs[s][r].due /\ due >= t + conf[s].debounce
            /\ Materialized(s, e, t) = [runs[s] EXCEPT ![r] =
                 [st |-> "queued", trigger |-> e, due |-> due, began |-> None]]
      BY <1>2, <3>1, <3>2, MaterializedRow
    <3>4. runs'[s] = [runs[s] EXCEPT ![r] =
                 [st |-> "queued", trigger |-> e, due |-> due, began |-> None]]
      BY <1>1, <2>3, <3>3
    <3>5. log'[e].what[s] = "queued" /\ log'[e].run[s] = r
      BY <1>6, <2>3, <3>1
    <3>6. CASE Merges(s, key[e])
      BY <3>1, <3>3, <3>4, <3>5, <3>6, <1>4 DEF MergedInto, Waiting
    <3>7. CASE ~Merges(s, key[e])
      <4>1. on[s]
        BY <2>3 DEF Fate
      <4>2. conf[s].window > 0 => ~RecentOfKey(s, key[e], t - conf[s].window)
        BY <2>3, <3>7, <4>1 DEF Fate
      <4>3. conf[s].cooldown > 0 => ~Recent(s, t - conf[s].cooldown)
        BY <2>3, <3>7, <4>1, <4>2 DEF Fate
      <4>4. r = e
        BY <3>1, <3>7, <1>4
      <4>5. \A q \in Made(s) : TriggerAt(s, q) \in Int
        BY <1>2 DEF EventsInv, TriggersAreGiven, TriggerAt, TypeOK, Times, None
      <4>6. t - conf[s].window \in Int /\ t - conf[s].cooldown \in Int
        BY <1>2, ConstantsAssumption DEF TypeOK, Times
      <4> QED BY <3>3, <3>4, <3>5, <4>2, <4>3, <4>4, <4>5, <4>6
              DEF NewlyMade, RecentOfKey, Recent
    <3> QED BY <3>6, <3>7
  <2> QED BY <2>2, <2>3
<1>8. runs' \in [Specs -> [Events -> RunRecords]]
  <2>1. ASSUME NEW s \in Specs PROVE runs'[s] \in [Events -> RunRecords]
    <3>1. runs[s] \in [Events -> RunRecords]
      BY <1>2 DEF TypeOK
    <3>2. \A due \in Nat : [st |-> "queued", trigger |-> e, due |-> due, began |-> None] \in RunRecords
      BY DEF RunRecords, RunStages
    <3> QED BY <3>1, <3>2, <1>7 DEF Declined, MergedInto, NewlyMade
  <2> QED BY <2>1, <1>1
<1> QED BY <1>5, <1>6, <1>7, <1>8 DEF Accepts

\* A row after acceptance: as it was, or waiting for the accepted event.
Changed(s, e, t, r) ==
  /\ runs'[s][r].st = "queued" /\ runs'[s][r].trigger = e /\ runs'[s][r].began = None
  /\ runs'[s][r].due >= runs[s][r].due /\ runs'[s][r].due >= t + conf[s].debounce
  /\ log'[e].what[s] = "queued" /\ log'[e].run[s] = r
  /\ \/ r \in Made(s) /\ TriggerKey(s, r) = key[e]
     \/ r = e /\ NewlyMade(s, e, t)

\* Acceptance changes no row but the one that answers for the event, and never makes a run
\* due earlier.
LEMMA AcceptedRows ==
  ASSUME EventsInv, NEW e \in Events, NEW t \in Times, Accepts(e, t), ~Logged(e), NEW s \in Specs
  PROVE  /\ \A r \in Events : runs'[s][r] = runs[s][r] \/ Changed(s, e, t, r)
         /\ log'[e].what[s] = "queued" =>
              log'[e].run[s] \in Events /\ Changed(s, e, t, log'[e].run[s])
<1>1. TypeOK /\ runs[s] \in [Events -> RunRecords] /\ RunsHaveEvents
  BY DEF EventsInv, TypeOK
<1>2. CASE Declined(s, e, t)
  BY <1>2 DEF Declined
<1>3. ASSUME NEW r \in Events, MergedInto(s, e, t, r)
      PROVE  /\ \A q \in Events : runs'[s][q] = runs[s][q] \/ Changed(s, e, t, q)
             /\ log'[e].run[s] = r /\ Changed(s, e, t, r)
  <2>1. Changed(s, e, t, r)
    BY <1>1, <1>3 DEF MergedInto, Changed
  <2>2. \A q \in Events \ {r} : runs'[s][q] = runs[s][q]
    BY <1>1, <1>3 DEF MergedInto
  <2> QED BY <2>1, <2>2, <1>3 DEF MergedInto
<1>4. ASSUME NewlyMade(s, e, t)
      PROVE  /\ \A q \in Events : runs'[s][q] = runs[s][q] \/ Changed(s, e, t, q)
             /\ log'[e].run[s] = e /\ Changed(s, e, t, e)
  <2>1. runs[s][e].due = 0
    BY <1>1 DEF RunsHaveEvents, NoRun, None
  <2>2. Changed(s, e, t, e)
    BY <1>1, <1>4, <2>1 DEF NewlyMade, Changed
  <2>3. \A q \in Events \ {e} : runs'[s][q] = runs[s][q]
    BY <1>1, <1>4 DEF NewlyMade
  <2> QED BY <2>2, <2>3, <1>4 DEF NewlyMade
<1> QED BY <1>2, <1>3, <1>4 DEF Accepts

\* The first acceptance of an event keeps the invariant.  The windows are measured from the
\* triggers of runs, which lie at most MaxSkew before the events the runs were made for.
LEMMA AcceptKeeps ==
  ASSUME EventsInv, NEW e \in Events, NEW t \in Times, Accept(e, t), ~Logged(e)
  PROVE  EventsInv'
<1>1. Accepts(e, t)
  BY AcceptWrites
<1>2. /\ UNCHANGED <<now, conf, on, sent, key, faults>>
      /\ <<e, t>> \in inbox /\ inbox' \subseteq inbox
  BY DEF Accept
<1>3. /\ now \in Nat /\ t \in Nat \ {0} /\ t <= now /\ now - t <= MaxSkew
      /\ MaxTime \in Nat /\ MaxSkew \in Nat
      /\ \A s \in Specs : conf[s].debounce \in Nat /\ conf[s].window \in Nat /\ conf[s].cooldown \in Nat
      /\ \A f \in Events : log[f].at \in Nat /\ log[f].at <= now
      /\ \A s \in Specs, r \in Events : runs[s][r].due \in Nat
  BY <1>2, ConstantsAssumption
     DEF EventsInv, TypeOK, DeliveriesAreRecent, Times, None, RunRecords
<1>4. \A s \in Specs, r \in Events : runs'[s][r] = runs[s][r] \/ Changed(s, e, t, r)
  BY <1>1, AcceptedRows
<1>5. /\ log'[e].at = t /\ Logged(e)' /\ \A f \in Events \ {e} : log'[f] = log[f]
      /\ \A f \in Events : Logged(f) => f # e /\ log'[f] = log[f] /\ Logged(f)'
      /\ \A s \in Specs : log[e].what[s] = "received"
  BY <1>1, <1>3 DEF Accepts, Logged, None, EventsInv, UnloggedIsBlank, NotLogged
<1>6. \A s \in Specs, r \in Events : r \in Made(s) => Logged(r) /\ r # e /\ r \in Made(s)'
  BY <1>4, <1>5 DEF EventsInv, RunsHaveEvents, Made, Changed
<1>7. \A s \in Specs : \A r \in Made(s)' : r \in Events /\ (r \in Made(s) \/ (r = e /\ NewlyMade(s, e, t)))
  BY <1>4 DEF Made, Changed
<1>8. TypeOK'
  <2>1. log' \in [Events -> [at : {None} \cup Times, what : [Specs -> Outcomes],
                             run : [Specs -> {None} \cup Events]]]
        /\ runs' \in [Specs -> [Events -> RunRecords]]
    BY <1>1 DEF Accepts
  <2>2. \A s \in Specs, r \in Events :
          runs'[s][r].st \in {"none", "queued"} => runs'[s][r].began = None
    BY <1>4 DEF EventsInv, TypeOK, Changed
  <2> QED BY <1>2, <2>1, <2>2 DEF EventsInv, TypeOK
<1>9. LoggedIsDecided'
  <2>1. \A s \in Specs : log'[e].what[s] # "received"
    BY <1>1 DEF Accepts, Declined, MergedInto, NewlyMade
  <2> QED BY <1>5, <2>1 DEF EventsInv, LoggedIsDecided, Logged
<1>10. DeliveriesAreRecent' /\ UnloggedIsBlank'
  BY <1>2, <1>3, <1>5 DEF EventsInv, DeliveriesAreRecent, UnloggedIsBlank, Logged
<1>11. RunsHaveEvents'
  BY <1>4, <1>5, <1>6 DEF EventsInv, RunsHaveEvents, Changed
<1>12. TriggersAreGiven'
  <2>1. ASSUME NEW s \in Specs, NEW r \in Made(s)'
        PROVE  \E f \in Events :
                 /\ f = runs'[s][r].trigger /\ log'[f].at # None
                 /\ log'[f].what[s] = "queued" /\ key[f] = key[r]
                 /\ log'[r].at <= log'[f].at + MaxSkew
    <3>1. r \in Events
      BY <1>7
    <3>2. CASE runs'[s][r] = runs[s][r]
      <4>1. r \in Made(s) /\ log'[r] = log[r]
        BY <3>1, <3>2, <1>5, <1>6 DEF Made
      <4>2. PICK f \in Events :
              /\ f = runs[s][r].trigger /\ Logged(f)
              /\ log[f].what[s] = "queued" /\ key[f] = key[r]
              /\ log[r].at <= log[f].at + MaxSkew
        BY <4>1 DEF EventsInv, TriggersAreGiven
      <4>3. log'[f] = log[f] /\ log[f].at # None
        BY <4>2, <1>5 DEF Logged
      <4> QED BY <3>2, <4>1, <4>2, <4>3
    <3>3. CASE Changed(s, e, t, r)
      <4>1. /\ runs'[s][r].trigger = e /\ log'[e].at = t /\ t # None
            /\ log'[e].what[s] = "queued"
        BY <1>3, <1>5, <3>3 DEF Changed, None
      <4>2. key[e] = key[r]
        <5>1. r \in Made(s) => key[r] = TriggerKey(s, r)
          BY DEF EventsInv, TriggersAreGiven, TriggerKey
        <5> QED BY <3>3, <5>1 DEF Changed
      <4>3. log'[r].at \in Nat /\ log'[r].at <= now
        BY <1>3, <1>5, <3>1
      <4>4. log'[r].at <= t + MaxSkew
        BY <1>3, <4>3
      <4> QED BY <4>1, <4>2, <4>4
    <3> QED BY <1>4, <3>1, <3>2, <3>3
  <2>2. key' = key
    BY <1>2
  <2> QED BY <2>1, <2>2 DEF TriggersAreGiven, Logged
<1>13. RunsWaitForEvents'
  <2> SUFFICES ASSUME NEW f \in Events, NEW s \in Specs, log'[f].what[s] = "queued"
               PROVE  LET r == log'[f].run[s]
                      IN r \in Made(s)' /\ runs'[s][r].due >= log'[f].at + conf'[s].debounce
    BY DEF RunsWaitForEvents
  <2>1. CASE f = e
    <3>1. log'[e].run[s] \in Events /\ Changed(s, e, t, log'[e].run[s])
      BY <1>1, <2>1, AcceptedRows
    <3> QED BY <1>2, <1>5, <2>1, <3>1 DEF Changed, Made
  <2>2. CASE f # e
    <3>1. log'[f] = log[f]
      BY <1>5, <2>2
    <3>2. PICK r \in Made(s) : r = log[f].run[s] /\ runs[s][r].due >= log[f].at + conf[s].debounce
      BY <3>1 DEF EventsInv, RunsWaitForEvents
    <3>3. r \in Events /\ r \in Made(s)'
      BY <1>6 DEF Made
    <3>4. runs'[s][r] \in RunRecords
      BY <1>1, <3>3 DEF Accepts
    <3>5. runs'[s][r].due >= runs[s][r].due /\ runs'[s][r].due \in Nat
      BY <1>3, <1>4, <3>3, <3>4 DEF Changed, RunRecords
    <3> QED BY <1>2, <1>3, <3>1, <3>2, <3>3, <3>5
  <2> QED BY <2>1, <2>2
<1>14. RunsBeginWhenDue'
  BY <1>4 DEF EventsInv, RunsBeginWhenDue, Changed
<1>15. RunsApart'
  <2>1. ASSUME NEW s \in Specs, NEW r \in Made(s), NewlyMade(s, e, t)
        PROVE  /\ conf[s].cooldown > 0 => t - log[r].at > conf[s].cooldown - MaxSkew
               /\ conf[s].window > 0 /\ key[e] = key[r] => t - log[r].at > conf[s].window - MaxSkew
    <3>1. r \in Events /\ TriggerAt(s, r) \in Nat /\ log[r].at \in Nat
          /\ log[r].at <= TriggerAt(s, r) + MaxSkew /\ TriggerKey(s, r) = key[r]
      BY <1>3 DEF EventsInv, TriggersAreGiven, TriggerAt, TriggerKey, Made
    <3>2. conf[s].cooldown > 0 => TriggerAt(s, r) < t - conf[s].cooldown
      BY <2>1 DEF NewlyMade
    <3>3. conf[s].window > 0 /\ key[e] = key[r] => TriggerAt(s, r) < t - conf[s].window
      BY <2>1, <3>1 DEF NewlyMade
    <3> QED BY <1>3, <3>1, <3>2, <3>3
  <2> SUFFICES ASSUME NEW s \in Specs, NEW q \in Made(s)', NEW r \in Made(s)', q # r
               PROVE  /\ Apart(s, q, r, conf[s].cooldown)'
                      /\ key'[q] = key'[r] => Apart(s, q, r, conf[s].window)'
    BY DEF RunsApart
  <2>2. CASE q \in Made(s) /\ r \in Made(s)
    BY <1>2, <1>5, <1>6, <1>7, <2>2 DEF EventsInv, RunsApart, Apart
  <2>3. CASE q = e /\ r \in Made(s)
    BY <1>2, <1>5, <1>6, <1>7, <2>1, <2>3 DEF Apart
  <2>4. CASE q \in Made(s) /\ r = e
    BY <1>2, <1>5, <1>6, <1>7, <2>1, <2>4 DEF Apart
  <2> QED BY <1>7, <2>2, <2>3, <2>4
<1>16. SuppressedForCause'
  <2> SUFFICES ASSUME NEW f \in Events, NEW s \in Specs
               PROVE  /\ log'[f].what[s] = "window" =>
                           \E g \in Events : /\ log'[g].what[s] = "queued" /\ key'[g] = key'[f]
                                             /\ log'[g].at >= log'[f].at - conf'[s].window
                      /\ log'[f].what[s] = "cooldown" =>
                           \E g \in Events : /\ log'[g].what[s] = "queued"
                                             /\ log'[g].at >= log'[f].at - conf'[s].cooldown
    BY DEF SuppressedForCause
  <2>1. CASE f = e
    <3>1. \A r \in Made(s) : LET g == runs[s][r].trigger
                           IN g \in Events /\ log'[g] = log[g] /\ log[g].what[s] = "queued"
      BY <1>5 DEF EventsInv, TriggersAreGiven
    <3>2. log'[e].what[s] \in {"window", "cooldown"} => Declined(s, e, t)
      BY <1>1 DEF Accepts, MergedInto, NewlyMade
    <3> QED BY <1>2, <1>5, <2>1, <3>1, <3>2 DEF Declined, TriggerKey, TriggerAt
  <2>2. CASE f # e
    <3>1. log'[f] = log[f]
      BY <1>5, <2>2
    <3>2. \A g \in Events : log[g].what[s] = "queued" => log'[g] = log[g]
      BY <1>5
    <3> QED BY <1>2, <3>1, <3>2 DEF EventsInv, SuppressedForCause
  <2> QED BY <2>1, <2>2
<1> QED BY <1>8, <1>9, <1>10, <1>11, <1>12, <1>13, <1>14, <1>15, <1>16 DEF EventsInv


-----------------------------------------------------------------------------
(* What happens to a run.                                                  *)

\* A step that claims, ends, puts back or cancels runs: what they were made for stays as it is,
\* none is made, and one that begins does so when it is due.
RunsMove ==
  /\ UNCHANGED <<now, conf, key, sent, inbox, log>>
  /\ on' \in [Specs -> BOOLEAN] /\ faults' \in 0 .. MaxFaults
  /\ runs' \in [Specs -> [Events -> RunRecords]]
  /\ \A s \in Specs, r \in Events :
       \/ runs'[s][r] = runs[s][r]
       \/ /\ runs[s][r].st # "none" /\ runs'[s][r].st # "none"
          /\ runs'[s][r].trigger = runs[s][r].trigger /\ runs'[s][r].due = runs[s][r].due
          /\ runs'[s][r].st = "queued" => runs'[s][r].began = None
          /\ runs'[s][r].began # None => runs'[s][r].began >= runs[s][r].due

\* What an event is given, and what keeps runs apart, does not depend on what becomes of them.
LEMMA MovesKeep ==
  ASSUME EventsInv, RunsMove
  PROVE  EventsInv'
<1>1. /\ UNCHANGED <<now, conf, key, sent, inbox, log>>
      /\ \A e \in Events : Logged(e)' <=> Logged(e)
  BY DEF RunsMove, Logged
<1>2. \A s \in Specs : Made(s)' = Made(s)
  BY DEF RunsMove, Made
<1>3. \A s \in Specs, r \in Events :
        runs'[s][r].trigger = runs[s][r].trigger /\ runs'[s][r].due = runs[s][r].due
  BY DEF RunsMove
<1>4. TypeOK'
  BY <1>1 DEF EventsInv, TypeOK, RunsMove
<1>5. LoggedIsDecided' /\ DeliveriesAreRecent' /\ UnloggedIsBlank' /\ SuppressedForCause'
  BY <1>1 DEF EventsInv, LoggedIsDecided, DeliveriesAreRecent, UnloggedIsBlank, SuppressedForCause
<1>6. RunsHaveEvents'
  BY <1>1 DEF EventsInv, RunsHaveEvents, RunsMove, NoRun
<1>7. TriggersAreGiven'
  <2>1. \A s \in Specs : \A r \in Made(s) : r \in Events
    BY DEF Made
  <2> QED BY <1>1, <1>2, <1>3, <2>1 DEF EventsInv, TriggersAreGiven
<1>8. RunsWaitForEvents'
  <2>1. \A s \in Specs : \A r \in Made(s) : r \in Events
    BY DEF Made
  <2> QED BY <1>1, <1>2, <1>3, <2>1 DEF EventsInv, RunsWaitForEvents
<1>9. RunsBeginWhenDue'
  BY DEF EventsInv, RunsBeginWhenDue, RunsMove
<1>10. RunsApart'
  BY <1>1, <1>2 DEF EventsInv, RunsApart, Apart
<1> QED BY <1>4, <1>5, <1>6, <1>7, <1>8, <1>9, <1>10 DEF EventsInv

\* Run writes the stage and the start of one row.
LEMMA RunMoves ==
  ASSUME EventsInv, NEW s \in Specs, NEW r \in Events, NEW stage \in RunStages \ {"none"},
         NEW began \in {None} \cup Times, Run(s, r, stage, began),
         runs[s][r].st # "none", stage = "queued" => began = None,
         began # None => began >= runs[s][r].due,
         UNCHANGED <<now, conf, on, key, sent, inbox, log>>, faults' \in 0 .. MaxFaults
  PROVE  RunsMove
<1> DEFINE row == [runs[s][r] EXCEPT !.st = stage, !.began = began]
<1>1. runs \in [Specs -> [Events -> RunRecords]] /\ runs[s] \in [Events -> RunRecords]
      /\ runs[s][r] \in RunRecords
  BY DEF EventsInv, TypeOK
<1>2. /\ row \in RunRecords /\ row.st = stage /\ row.began = began
      /\ row.trigger = runs[s][r].trigger /\ row.due = runs[s][r].due
  BY <1>1 DEF RunRecords
<1>3. runs' = [runs EXCEPT ![s] = [runs[s] EXCEPT ![r] = row]]
  BY <1>1 DEF Run, RunRecords
<1> HIDE DEF row
<1>4. runs' \in [Specs -> [Events -> RunRecords]]
  BY <1>1, <1>2, <1>3
<1>5. runs'[s][r] = row
      /\ \A q \in Specs, p \in Events : q # s \/ p # r => runs'[q][p] = runs[q][p]
  BY <1>1, <1>3
<1> QED BY <1>2, <1>4, <1>5 DEF RunsMove, EventsInv, TypeOK

\* Removal cancels waiting runs.
LEMMA RemoveMoves ==
  ASSUME EventsInv, NEW s \in Specs, Remove(s)
  PROVE  RunsMove
<1>1. runs \in [Specs -> [Events -> RunRecords]] /\ runs[s] \in [Events -> RunRecords]
  BY DEF EventsInv, TypeOK
<1>2. /\ on' \in [Specs -> BOOLEAN] /\ faults' \in 0 .. MaxFaults
      /\ UNCHANGED <<now, conf, key, sent, inbox, log>>
  BY ConstantsAssumption DEF EventsInv, TypeOK, Remove
<1>3. CASE UNCHANGED runs
  BY <1>1, <1>2, <1>3 DEF RunsMove
<1>4. ASSUME runs' # runs PROVE RunsMove
  <2> DEFINE row(r) == IF runs[s][r].st = "queued" THEN [runs[s][r] EXCEPT !.st = "cancelled"]
                       ELSE runs[s][r]
             rows == [r \in Events |-> row(r)]
  <2>1. runs' = [runs EXCEPT ![s] = rows]
    BY <1>4 DEF Remove
  <2>2. ASSUME NEW r \in Events
        PROVE  /\ row(r) \in RunRecords
               /\ \/ row(r) = runs[s][r]
                  \/ /\ runs[s][r].st # "none" /\ row(r).st = "cancelled"
                     /\ row(r).trigger = runs[s][r].trigger /\ row(r).due = runs[s][r].due
                     /\ row(r).began = None
    <3>1. runs[s][r] \in RunRecords
      BY <1>1
    <3>2. runs[s][r].st = "queued" => runs[s][r].began = None
      BY DEF EventsInv, TypeOK
    <3> QED BY <3>1, <3>2 DEF RunRecords, RunStages
  <2>3. rows \in [Events -> RunRecords] /\ \A r \in Events : rows[r] = row(r)
    BY <2>2
  <2> HIDE DEF rows
  <2>4. runs' \in [Specs -> [Events -> RunRecords]] /\ runs'[s] = rows
        /\ \A q \in Specs \ {s} : runs'[q] = runs[q]
    BY <1>1, <2>1, <2>3
  <2>5. \A r \in Events : runs'[s][r] = row(r)
    BY <2>3, <2>4
  <2> HIDE DEF row
  <2> QED BY <1>2, <2>2, <2>4, <2>5 DEF RunsMove
<1> QED BY <1>3, <1>4

-----------------------------------------------------------------------------
(* The invariant.                                                          *)

\* Nothing is logged and no run is made at first.
LEMMA InitHolds == Init => EventsInv
<1> SUFFICES ASSUME Init PROVE EventsInv
  OBVIOUS
<1>1. /\ \A e \in Events : log[e] = NotLogged /\ ~Logged(e)
      /\ \A e \in Events, s \in Specs : log[e].what[s] = "received"
      /\ \A s \in Specs, r \in Events : runs[s][r] = NoRun
      /\ \A s \in Specs : Made(s) = {}
  BY DEF Init, Logged, NotLogged, NoRun, Made
<1>2. TypeOK
  <2>1. NoRun \in RunRecords /\ NotLogged \in [at : {None} \cup Times, what : [Specs -> Outcomes],
                                             run : [Specs -> {None} \cup Events]]
    BY DEF NoRun, NotLogged, RunRecords, RunStages, Outcomes, None
  <2>2. runs \in [Specs -> [Events -> RunRecords]] /\ log \in [Events -> [at : {None} \cup Times,
            what : [Specs -> Outcomes], run : [Specs -> {None} \cup Events]]]
    BY <2>1 DEF Init
  <2>3. \A s \in Specs, r \in Events : runs[s][r].began = None
    BY <1>1 DEF NoRun
  <2>4. now \in Times /\ faults \in 0 .. MaxFaults /\ key \in [Events -> Keys] /\ sent \in Nat
    BY ConstantsAssumption DEF Init, Times
  <2> QED BY <2>2, <2>3, <2>4 DEF Init, TypeOK
<1>3. LoggedIsDecided /\ DeliveriesAreRecent /\ UnloggedIsBlank
  BY <1>1 DEF Init, LoggedIsDecided, DeliveriesAreRecent, UnloggedIsBlank, NotLogged, None
<1>4. RunsHaveEvents /\ TriggersAreGiven /\ RunsWaitForEvents /\ RunsBeginWhenDue
  BY <1>1 DEF RunsHaveEvents, TriggersAreGiven, RunsWaitForEvents, RunsBeginWhenDue, NoRun
<1>5. RunsApart /\ SuppressedForCause
  BY <1>1 DEF RunsApart, SuppressedForCause
<1> QED BY <1>2, <1>3, <1>4, <1>5 DEF EventsInv

\* Deliveries and time do not touch the log and the runs.
LEMMA QuietStepKeeps ==
  ASSUME EventsInv, TypeOK', DeliveriesAreRecent', UNCHANGED <<conf, key, log, runs>>
  PROVE  EventsInv'
<1>1. /\ \A e \in Events : Logged(e)' <=> Logged(e)
      /\ \A s \in Specs : Made(s)' = Made(s)
  BY DEF Logged, Made
<1>2. LoggedIsDecided' /\ UnloggedIsBlank' /\ RunsHaveEvents' /\ RunsBeginWhenDue'
  BY <1>1 DEF EventsInv, LoggedIsDecided, UnloggedIsBlank, RunsHaveEvents, RunsBeginWhenDue
<1>3. TriggersAreGiven' /\ RunsWaitForEvents'
  BY <1>1 DEF EventsInv, TriggersAreGiven, RunsWaitForEvents
<1>4. RunsApart' /\ SuppressedForCause'
  BY <1>1 DEF EventsInv, RunsApart, Apart, SuppressedForCause
<1> QED BY <1>2, <1>3, <1>4 DEF EventsInv

\* One step per action: deliveries and time are quiet, acceptance was dealt with above, and
\* the rest moves runs.
LEMMA StepKeeps == EventsInv /\ [Next]_vars => EventsInv'
<1> SUFFICES ASSUME EventsInv, [Next]_vars PROVE EventsInv'
  OBVIOUS
<1>1. TypeOK /\ DeliveriesAreRecent
  BY DEF EventsInv
<1>2. CASE UNCHANGED vars
  <2>1. TypeOK'
    BY <1>1, <1>2 DEF TypeOK, vars
  <2>2. DeliveriesAreRecent'
    BY <1>1, <1>2 DEF DeliveriesAreRecent, vars
  <2> QED BY <1>2, <2>1, <2>2, QuietStepKeeps DEF vars
<1>3. CASE Tick
  <2>1. TypeOK'
    BY <1>1, <1>3, ConstantsAssumption DEF Tick, TypeOK, Times
  <2>2. DeliveriesAreRecent'
    <3>1. /\ now \in Nat /\ now' = now + 1 /\ log' = log /\ inbox' = inbox
          /\ \A d \in inbox : d[2] \in Nat /\ now - d[2] < MaxSkew
          /\ \A e \in Events : log[e].at \in Nat
      BY <1>1, <1>3, ConstantsAssumption DEF Tick, TypeOK, Times, None
    <3> QED BY <1>1, <3>1, ConstantsAssumption DEF DeliveriesAreRecent
  <2> QED BY <1>3, <2>1, <2>2, QuietStepKeeps DEF Tick
<1>4. ASSUME NEW e \in Events, Receive(e) PROVE EventsInv'
  <2>1. TypeOK'
    BY <1>1, <1>4, ConstantsAssumption DEF Receive, TypeOK
  <2>2. DeliveriesAreRecent'
    BY <1>1, <1>4, ConstantsAssumption DEF Receive, DeliveriesAreRecent, TypeOK, Times
  <2> QED BY <1>4, <2>1, <2>2, QuietStepKeeps DEF Receive
<1>5. ASSUME NEW e \in Events, NEW t \in Times, Accept(e, t) PROVE EventsInv'
  <2>1. CASE Logged(e)
    <3>1. UNCHANGED <<now, conf, on, sent, key, log, runs, faults>> /\ inbox' \subseteq inbox
      BY <1>5, <2>1 DEF Accept
    <3>2. TypeOK' /\ DeliveriesAreRecent'
      BY <1>1, <3>1 DEF TypeOK, DeliveriesAreRecent
    <3> QED BY <3>1, <3>2, QuietStepKeeps
  <2>2. CASE ~Logged(e)
    BY <1>5, <2>2, AcceptKeeps
  <2> QED BY <2>1, <2>2
<1>6. ASSUME NEW e \in Events, NEW t \in Times, FailAccept(e, t) PROVE EventsInv'
  <2>1. /\ UNCHANGED <<now, conf, on, sent, key, log, runs>> /\ inbox' \subseteq inbox
        /\ faults' \in 0 .. MaxFaults
    BY <1>1, <1>6, ConstantsAssumption DEF FailAccept, RolledBack, TypeOK
  <2>2. TypeOK' /\ DeliveriesAreRecent'
    BY <1>1, <2>1 DEF TypeOK, DeliveriesAreRecent
  <2> QED BY <2>1, <2>2, QuietStepKeeps
<1>7. ASSUME NEW s \in Specs, Restore(s) PROVE EventsInv'
  <2>1. TypeOK' /\ DeliveriesAreRecent'
    BY <1>1, <1>7 DEF Restore, TypeOK, DeliveriesAreRecent
  <2> QED BY <1>7, <2>1, QuietStepKeeps DEF Restore
<1>8. ASSUME NEW s \in Specs, Remove(s) PROVE EventsInv'
  BY <1>8, RemoveMoves, MovesKeep
<1>9. ASSUME NEW s \in Specs, NEW r \in Events,
             Claim(s, r) \/ Finish(s, r) \/ Requeue(s, r) \/ Lapse(s, r)
      PROVE  EventsInv'
  <2>1. /\ runs[s][r].st \in RunStages /\ runs[s][r].began \in {None} \cup Times
        /\ runs[s][r].began # None => runs[s][r].began >= runs[s][r].due
        /\ faults \in 0 .. MaxFaults /\ now \in Times
    BY <1>1 DEF EventsInv, RunsBeginWhenDue, TypeOK, RunRecords
  <2>2. RunsMove
    <3>1. CASE Claim(s, r)
      <4>1. /\ runs[s][r].st \in {"queued", "lapsed"} /\ runs[s][r].due <= now
            /\ UNCHANGED <<now, conf, on, key, sent, inbox, log>> /\ faults' \in 0 .. MaxFaults
            /\ Run(s, r, "running", now) \/ Run(s, r, "cancelled", runs[s][r].began)
        BY <2>1, <3>1 DEF Claim, Claimable
      <4>2. now >= runs[s][r].due
        BY <1>1, <4>1, ConstantsAssumption DEF TypeOK, RunRecords, Times
      <4> QED BY <2>1, <4>1, <4>2, RunMoves DEF RunStages
    <3>2. CASE Finish(s, r)
      <4>1. /\ runs[s][r].st # "none" /\ Run(s, r, "done", runs[s][r].began)
            /\ UNCHANGED <<now, conf, on, key, sent, inbox, log>> /\ faults' \in 0 .. MaxFaults
        BY <2>1, <3>2 DEF Finish
      <4> QED BY <2>1, <4>1, RunMoves DEF RunStages
    <3>3. CASE Requeue(s, r)
      <4>1. /\ runs[s][r].st # "none" /\ Run(s, r, "queued", None)
            /\ UNCHANGED <<now, conf, on, key, sent, inbox, log>> /\ faults' \in 0 .. MaxFaults
        BY <2>1, <3>3, ConstantsAssumption DEF Requeue, PutBack
      <4> QED BY <2>1, <4>1, RunMoves DEF RunStages
    <3>4. CASE Lapse(s, r)
      <4>1. /\ runs[s][r].st # "none" /\ Run(s, r, "lapsed", runs[s][r].began)
            /\ UNCHANGED <<now, conf, on, key, sent, inbox, log>> /\ faults' \in 0 .. MaxFaults
        BY <2>1, <3>4, ConstantsAssumption DEF Lapse
      <4> QED BY <2>1, <4>1, RunMoves DEF RunStages
    <3> QED BY <1>9, <3>1, <3>2, <3>3, <3>4
  <2> QED BY <2>2, MovesKeep
<1> QED
  BY <1>2, <1>3, <1>4, <1>5, <1>6, <1>7, <1>8, <1>9 DEF Next

\* The invariant holds of every behaviour.
LEMMA EventsInvAlways == Spec => []EventsInv
BY InitHolds, StepKeeps, PTL DEF Spec

-----------------------------------------------------------------------------
(* What follows.                                                           *)

\* The state keeps its type: in particular, a run that waits has not begun (requeueRun clears
\* started_at).
THEOREM EventTypes == Spec => []TypeOK
<1>1. EventsInv => TypeOK
  BY DEF EventsInv
<1> QED BY EventsInvAlways, <1>1, PTL

\* ingestEvent logs an event and decides about it in one transaction: no event is a duplicate
\* of one that was logged and then forgotten.
THEOREM AcceptedWhole == Spec => []LoggedIsDecided
<1>1. EventsInv => LoggedIsDecided
  BY DEF EventsInv
<1> QED BY EventsInvAlways, <1>1, PTL

\* No run begins before the debounce time after each of its events: a run's time only moves
\* forward while events are merged into it, and it begins when it is due.
THEOREM NoEventSwallowed == Spec => []BeginsAfterEvents
<1>1. ASSUME EventsInv, NEW e \in Events, NEW s \in Specs, log[e].what[s] = "queued"
      PROVE  LET r == runs[s][log[e].run[s]]
             IN r.began # None => r.began >= log[e].at + conf[s].debounce
  <2>1. PICK r \in Made(s) : /\ r = log[e].run[s]
                             /\ runs[s][r].due >= log[e].at + conf[s].debounce
    BY <1>1 DEF EventsInv, RunsWaitForEvents
  <2>2. r \in Events
    BY DEF Made
  <2>3. /\ runs[s][r].due \in Nat /\ runs[s][r].began \in Nat
        /\ log[e].at \in Nat /\ conf[s].debounce \in Nat
    BY <1>1, <2>2, ConstantsAssumption DEF EventsInv, TypeOK, RunRecords, Times, None
  <2>4. runs[s][r].began # None => runs[s][r].began >= runs[s][r].due
    BY <1>1, <2>2 DEF EventsInv, RunsBeginWhenDue
  <2> QED BY <2>1, <2>3, <2>4
<1>2. EventsInv => BeginsAfterEvents
  BY <1>1 DEF BeginsAfterEvents
<1> QED BY EventsInvAlways, <1>2, PTL

\* Runs are kept apart by the cooldown and, for one key, by the dedupe window, but for the
\* time a delivery waits for the database; and an event is suppressed for no other reason.
THEOREM WindowsAreKept == Spec => []WindowsKept
<1>1. EventsInv => WindowsKept
  BY DEF EventsInv, WindowsKept
<1> QED BY EventsInvAlways, <1>1, PTL

=============================================================================
