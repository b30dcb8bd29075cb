-------------------------- MODULE HubDaemonProofs --------------------------
(***************************************************************************)
(* Proofs about HubDaemon, for every number of clients, builds, daemons    *)
(* and faults.                                                             *)
(***************************************************************************)
EXTENDS HubDaemon, TLAPS

\* Stages of a daemon that was once in the discovery record.
Published == {"serving", "closing", "dead"}

\* The instance lock: at most one daemon has it.
OneHub == \A d, e \in Daemons : Holds(d) /\ Holds(e) => d = e

\* A hub closes only when it was told to.
ClosingIsStopped == \A d \in Daemons : hubs[d].st = "closing" => hubs[d].stop

\* Tokens are those of hubs that have published themselves, whether they still live or not.
TokensWereHubs ==
  /\ rec.hub # None => hubs[rec.hub].st \in Published
  /\ \A c \in Clients : tok[c] # None => hubs[tok[c]].st \in Published
  /\ \A c \in Clients : pc[c] = "repair" => tok[c] # None

Retiring == {"drain", "busy", "shutdown", "wait", "wait2"}

\* The hub whose token a retiring client has is older than the client, or on its way out.
RetiresOlder ==
  \A c \in Clients : pc[c] \in Retiring /\ tok[c] # None =>
    conf[c].build > hubs[tok[c]].build \/ hubs[tok[c]].st # "serving"

DaemonInv == TypeOK /\ OneHub /\ ClosingIsStopped /\ TokensWereHubs /\ RetiresOlder

ClientRecords == [build : Builds, op : {"ensure", "upgrade"}, force : BOOLEAN]
HubRecords == [build : Builds, st : Stages, stop : BOOLEAN, forced : BOOLEAN,
               draining : BOOLEAN, sess : Sessions, late : BOOLEAN, lost : SUBSET Requests]

\* There are a build, a daemon and a count of no faults.
LEMMA Ones == 1 \in Builds /\ 1 \in Daemons /\ 0 \in 0 .. MaxFaults
<1>1. MaxBuild \in Nat \ {0} /\ MaxDaemons \in Nat \ {0} /\ MaxFaults \in Nat
  BY ConstantsAssumption
<1> QED BY <1>1 DEF Builds, Daemons

\* Who answers at the URL is a daemon that serves.
LEMMA UpServes == Up # None => Up \in Daemons /\ hubs[Up].st = "serving"
<1>1. CASE \E d \in Daemons : hubs[d].st = "serving"
  BY <1>1 DEF Up
<1>2. CASE ~ \E d \in Daemons : hubs[d].st = "serving"
  BY <1>2 DEF Up
<1> QED BY <1>1, <1>2

-----------------------------------------------------------------------------
(* What a step of a client may do to the hubs.                             *)

\* What a client leaves alone, and what it may change: everybody else's place and token, the
\* builds and stages of the hubs.
ClientMoves(c) ==
  /\ conf' \in [Clients -> ClientRecords] /\ \A b \in Clients : conf'[b].build = conf[b].build
  /\ pc' \in [Clients -> Places] /\ why' \in [Clients -> Whys]
  /\ tok' \in [Clients -> {None} \cup Daemons] /\ drained' \in [Clients -> BOOLEAN]
  /\ startup' \in {None} \cup Clients /\ faults' \in 0 .. MaxFaults
  /\ rec' \in [hub : {None} \cup Daemons, own : BOOLEAN] /\ (rec'.hub = None => rec'.own)
  /\ rec'.hub \in {None, rec.hub, tok[c]}
  /\ \A b \in Clients \ {c} : pc'[b] = pc[b] /\ tok'[b] = tok[b]
  /\ tok'[c] \in {tok[c], rec.hub}
  /\ pc'[c] = "repair" => tok'[c] # None

\* The hubs as they are, or one flag of one of them written.
HubsKept ==
  /\ hubs' \in [Daemons -> HubRecords]
  /\ \A d \in Daemons : /\ hubs'[d].st = hubs[d].st /\ hubs'[d].build = hubs[d].build
                        /\ hubs[d].stop => hubs'[d].stop

\* A client that retires a hub knows it to be older or gone.
KnowsItsHub(c) ==
  pc'[c] \in Retiring /\ tok'[c] # None =>
    conf[c].build > hubs[tok'[c]].build \/ hubs[tok'[c]].st # "serving"

\* A client's step that respects the three keeps the invariant.
LEMMA ClientMovesKeep ==
  ASSUME DaemonInv, NEW c \in Clients, ClientMoves(c), HubsKept, KnowsItsHub(c)
  PROVE  DaemonInv'
<1>1. TypeOK'
  BY DEF ClientMoves, HubsKept, TypeOK, ClientRecords, HubRecords
<1>2. OneHub' /\ ClosingIsStopped'
  BY DEF DaemonInv, HubsKept, OneHub, ClosingIsStopped, Holds
<1>3. TokensWereHubs'
  <2>1. \A d \in Daemons : hubs[d].st \in Published => hubs'[d].st \in Published
    BY DEF HubsKept
  <2>2. /\ rec.hub # None => rec.hub \in Daemons /\ hubs[rec.hub].st \in Published
        /\ \A b \in Clients : tok[b] # None => tok[b] \in Daemons /\ hubs[tok[b]].st \in Published
        /\ \A b \in Clients : pc[b] = "repair" => tok[b] # None
    BY DEF DaemonInv, TypeOK, TokensWereHubs
  <2>3. \A b \in Clients : tok'[b] \in {tok[b], rec.hub} /\ (pc'[b] = "repair" => tok'[b] # None)
    BY <2>2 DEF ClientMoves
  <2>4. rec'.hub \in {None, rec.hub, tok[c]}
    BY DEF ClientMoves
  <2> QED BY <2>1, <2>2, <2>3, <2>4 DEF TokensWereHubs
<1>4. RetiresOlder'
  <2> SUFFICES ASSUME NEW b \in Clients, pc'[b] \in Retiring, tok'[b] # None
               PROVE  conf'[b].build > hubs'[tok'[b]].build \/ hubs'[tok'[b]].st # "serving"
    BY DEF RetiresOlder
  <2>1. /\ tok'[b] \in Daemons /\ conf'[b].build = conf[b].build
        /\ hubs'[tok'[b]].build = hubs[tok'[b]].build /\ hubs'[tok'[b]].st = hubs[tok'[b]].st
    BY DEF ClientMoves, HubsKept
  <2>2. CASE b = c
    BY <2>1, <2>2 DEF KnowsItsHub
  <2>3. CASE b # c
    BY <2>1, <2>3 DEF DaemonInv, RetiresOlder, ClientMoves
  <2> QED BY <2>2, <2>3
<1> QED BY <1>1, <1>2, <1>3, <1>4 DEF DaemonInv

\* Under the lock, a token that is not the one of the hub that answers belongs to no hub
\* that serves.
LEMMA OtherHubsAreGone ==
  ASSUME DaemonInv, NEW d \in {None} \cup Daemons, Up # None, d # None,
         NEW c \in Clients, ~Reusable(c)
  PROVE  conf[c].build > hubs[d].build \/ hubs[d].st # "serving"
<1>1. Up \in Daemons /\ hubs[Up].st = "serving"
  BY UpServes
<1>2. CASE d = Up
  <2>1. conf[c].build \in Int /\ hubs[Up].build \in Int
    BY <1>1, ConstantsAssumption DEF DaemonInv, TypeOK, Builds
  <2> QED BY <1>2, <2>1 DEF Reusable
<1>3. CASE d # Up
  BY <1>1, <1>3 DEF DaemonInv, OneHub, Holds
<1> QED BY <1>2, <1>3

\* A flag of one hub is written.
LEMMA FlagWritten ==
  ASSUME TypeOK, NEW d \in Daemons, NEW h \in HubRecords, h.st = hubs[d].st,
         h.build = hubs[d].build, hubs[d].stop => h.stop, hubs' = [hubs EXCEPT ![d] = h]
  PROVE  HubsKept
BY DEF HubsKept, TypeOK, HubRecords

\* What requests to drain and to stop write, and what is noted of one that got no answer.
LEMMA RequestsWriteFlags ==
  ASSUME TypeOK, NEW c \in Clients, NEW d \in Daemons, NEW h \in HubRecords
  PROVE  /\ \A g \in {DrainedHub(h), LiftedHub(c, h), StoppedBy(c, h), StoppedBy(c, DrainedHub(h))} :
              g \in HubRecords /\ g.st = h.st /\ g.build = h.build /\ (h.stop => g.stop)
         /\ DrainedHub(h).stop = h.stop /\ LiftedHub(c, h).stop = h.stop
         /\ StoppedBy(c, h).stop /\ StoppedBy(c, DrainedHub(h)).stop
         /\ \A request \in Requests :
              \A g \in {Lost(h, request), Lost(DrainedHub(h), request)} :
                 g \in HubRecords /\ g.st = h.st /\ g.build = h.build /\ g.stop = h.stop
<1>1. DrainedHub(h) \in HubRecords /\ DrainedHub(h).st = h.st /\ DrainedHub(h).build = h.build
      /\ DrainedHub(h).stop = h.stop
  BY DEF DrainedHub, HubRecords
<1>2. LiftedHub(c, h) \in HubRecords /\ LiftedHub(c, h).st = h.st /\ LiftedHub(c, h).build = h.build
      /\ LiftedHub(c, h).stop = h.stop
  BY DEF LiftedHub, HubRecords
<1>3. \A g \in HubRecords :
        StoppedBy(c, g) \in HubRecords /\ StoppedBy(c, g).st = g.st /\ StoppedBy(c, g).build = g.build
        /\ StoppedBy(c, g).stop
  <2> SUFFICES ASSUME NEW g \in HubRecords
               PROVE  StoppedBy(c, g) \in HubRecords /\ StoppedBy(c, g).st = g.st
                      /\ StoppedBy(c, g).build = g.build /\ StoppedBy(c, g).stop
    OBVIOUS
  <2>1. Consent(c) \in BOOLEAN
    BY DEF Consent, TypeOK
  <2> QED BY <2>1 DEF StoppedBy, HubRecords
<1>4. \A g \in HubRecords : \A request \in Requests :
        Lost(g, request) \in HubRecords /\ Lost(g, request).st = g.st
        /\ Lost(g, request).build = g.build /\ Lost(g, request).stop = g.stop
  BY DEF Lost, HubRecords
<1> QED BY <1>1, <1>2, <1>3, <1>4

\* What a client that retires a hub may write: no stage and no build, and stop only when it tells
\* the hub to stop.
LEMMA RequestsWrite ==
  ASSUME TypeOK, NEW c \in Clients, hubs' # hubs,
         Drain(c) \/ Busy(c) \/ Undrain(c) \/ Shutdown(c) \/ Wait(c)
  PROVE  \E d \in Daemons, g \in HubRecords :
           /\ g.st = hubs[d].st /\ g.build = hubs[d].build /\ hubs' = [hubs EXCEPT ![d] = g]
           /\ (hubs[d].stop => g.stop)
           /\ ~Shutdown(c) /\ ~Wait(c) => g.stop = hubs[d].stop
<1> USE DEF Go, Leave
<1> DEFINE Flag(d, g) == g \in HubRecords /\ g.st = hubs[d].st /\ g.build = hubs[d].build
           Soft(d, g) == Flag(d, g) /\ g.stop = hubs[d].stop
           Hard(d, g) == Flag(d, g) /\ g.stop
<1>1. /\ hubs \in [Daemons -> HubRecords] /\ tok[c] \in {None} \cup Daemons
      /\ Up # None => Up \in Daemons
  BY UpServes DEF TypeOK, HubRecords
<1>2. ASSUME NEW d \in Daemons
      PROVE  /\ Soft(d, hubs[d]) /\ Soft(d, DrainedHub(hubs[d])) /\ Soft(d, LiftedHub(c, hubs[d]))
             /\ \A request \in Requests : Soft(d, Lost(hubs[d], request))
             /\ \A request \in Requests : Soft(d, Lost(DrainedHub(hubs[d]), request))
             /\ Hard(d, StoppedBy(c, hubs[d])) /\ Hard(d, StoppedBy(c, DrainedHub(hubs[d])))
  <2>1. hubs[d] \in HubRecords
    BY <1>1
  <2>2. /\ DrainedHub(hubs[d]).stop = hubs[d].stop /\ LiftedHub(c, hubs[d]).stop = hubs[d].stop
        /\ StoppedBy(c, hubs[d]).stop /\ StoppedBy(c, DrainedHub(hubs[d])).stop
    BY <2>1, RequestsWriteFlags
  <2>3. /\ Flag(d, DrainedHub(hubs[d])) /\ Flag(d, LiftedHub(c, hubs[d])) /\ Flag(d, hubs[d])
        /\ Flag(d, StoppedBy(c, hubs[d])) /\ Flag(d, StoppedBy(c, DrainedHub(hubs[d])))
    BY <2>1, RequestsWriteFlags
  <2>4. /\ \A request \in Requests : Soft(d, Lost(hubs[d], request))
        /\ \A request \in Requests : Soft(d, Lost(DrainedHub(hubs[d]), request))
    BY <2>1, RequestsWriteFlags
  <2> QED BY <2>2, <2>3, <2>4
<1>3. ASSUME NEW d \in Daemons, NEW g, hubs' = [hubs EXCEPT ![d] = g],
             Soft(d, g) \/ (Hard(d, g) /\ (Shutdown(c) \/ Wait(c)))
      PROVE  \E e \in Daemons, k \in HubRecords :
               /\ k.st = hubs[e].st /\ k.build = hubs[e].build /\ hubs' = [hubs EXCEPT ![e] = k]
               /\ (hubs[e].stop => k.stop)
               /\ ~Shutdown(c) /\ ~Wait(c) => k.stop = hubs[e].stop
  <2> WITNESS d \in Daemons
  <2>1. g \in HubRecords
    BY <1>3
  <2> WITNESS g \in HubRecords
  <2> QED BY <1>3
<1> HIDE DEF Soft, Hard
<1>4. CASE Drain(c)
  <2>1. Up \in Daemons /\ \E g \in {DrainedHub(hubs[Up]), Lost(hubs[Up], "drain"),
                                   Lost(DrainedHub(hubs[Up]), "drain")} :
                            hubs' = [hubs EXCEPT ![Up] = g]
    BY <1>1, <1>4 DEF Drain, Accepted
  <2> QED BY <1>2, <1>3, <2>1 DEF Requests
<1>5. CASE Busy(c)
  <2>1. Up \in Daemons /\ hubs' = [hubs EXCEPT ![Up] = Lost(hubs[Up], "query")]
    BY <1>1, <1>5 DEF Busy, Accepted
  <2> QED BY <1>2, <1>3, <2>1 DEF Requests
<1>6. CASE Undrain(c)
  <2>1. Up \in Daemons /\ \E g \in {LiftedHub(c, hubs[Up]), Lost(hubs[Up], "undrain")} :
                            hubs' = [hubs EXCEPT ![Up] = g]
    BY <1>1, <1>6 DEF Undrain, Accepted
  <2> QED BY <1>2, <1>3, <2>1 DEF Requests
<1>7. CASE Shutdown(c)
  <2>1. Up \in Daemons /\ \E g \in {hubs[Up], DrainedHub(hubs[Up]), StoppedBy(c, hubs[Up]),
                                   StoppedBy(c, DrainedHub(hubs[Up]))} :
                            hubs' = [hubs EXCEPT ![Up] = g]
    BY <1>1, <1>7 DEF Shutdown, Accepted
  <2> QED BY <1>2, <1>3, <1>7, <2>1
<1>8. CASE Wait(c)
  <2>1. \/ Up \in Daemons /\ hubs' = [hubs EXCEPT ![Up] = Lost(hubs[Up], "probe")]
        \/ tok[c] \in Daemons /\ hubs' = [hubs EXCEPT ![tok[c]] = StoppedBy(c, hubs[tok[c]])]
    BY <1>1, <1>8 DEF Wait
  <2> QED BY <1>2, <1>3, <1>8, <2>1 DEF Requests
<1> QED BY <1>4, <1>5, <1>6, <1>7, <1>8

\* It keeps the hubs but for a flag.
LEMMA RequestsKeep ==
  ASSUME TypeOK, NEW c \in Clients, Drain(c) \/ Busy(c) \/ Undrain(c) \/ Shutdown(c) \/ Wait(c)
  PROVE  HubsKept
<1>1. CASE UNCHANGED hubs
  BY <1>1 DEF HubsKept, TypeOK, HubRecords
<1>2. CASE hubs' # hubs
  BY <1>2, RequestsWrite, FlagWritten
<1> QED BY <1>1, <1>2

-----------------------------------------------------------------------------
(* The actions of a client.                                                *)

\* One step per action.
LEMMA ClientStepKeeps ==
  ASSUME DaemonInv, NEW c \in Clients, ClientStep(c) \/ Quit(c)
  PROVE  DaemonInv'
<1> USE DEF Go, Leave, KeepHub, client
<1>1. /\ TypeOK /\ TokensWereHubs /\ RetiresOlder
      /\ rec.hub \in {None} \cup Daemons /\ tok[c] \in {None} \cup Daemons
      /\ Up # None => Up \in Daemons /\ hubs[Up].st = "serving"
  BY UpServes DEF DaemonInv, TypeOK
<1>2. CASE TakeStartupLock(c)
  <2>1. ClientMoves(c)
    BY <1>1, <1>2, ConstantsAssumption
       DEF TakeStartupLock, ClientMoves, TypeOK, ClientRecords, Places, Over, Whys, TokensWereHubs
  <2>2. HubsKept
    BY <1>1, <1>2 DEF TakeStartupLock, HubsKept, TypeOK, HubRecords
  <2>3. KnowsItsHub(c)
    BY <1>1, <1>2, OtherHubsAreGone DEF TakeStartupLock, KnowsItsHub, RetiresOlder, Retiring, TypeOK
  <2> QED BY <2>1, <2>2, <2>3, ClientMovesKeep
<1>3. CASE ReadRecord(c)
  <2>1. ClientMoves(c)
    BY <1>1, <1>3, ConstantsAssumption
       DEF ReadRecord, ClientMoves, TypeOK, ClientRecords, Places, Over, Whys, TokensWereHubs
  <2>2. HubsKept
    BY <1>1, <1>3 DEF ReadRecord, HubsKept, TypeOK, HubRecords
  <2>3. KnowsItsHub(c)
    BY <1>1, <1>3, OtherHubsAreGone DEF ReadRecord, KnowsItsHub, RetiresOlder, Retiring, TypeOK
  <2> QED BY <2>1, <2>2, <2>3, ClientMovesKeep
<1>4. CASE Probe(c)
  <2>1. PICK ok \in BOOLEAN :
          /\ Answered(c, ok)
          /\ IF ok /\ ~Reusable(c)
             THEN /\ Go(c, "drain")
                  /\ why' = [why EXCEPT ![c] = IF conf[c].op = "upgrade" THEN "upgrade" ELSE "found"]
             ELSE /\ Go(c, IF conf[c].op = "upgrade" THEN IF ok THEN "kept" ELSE "lock"
                           ELSE IF ok THEN "verify" ELSE "clear")
                  /\ UNCHANGED why
          /\ conf' = [conf EXCEPT ![c].op = IF ok THEN conf[c].op ELSE "ensure"]
    BY <1>4 DEF Probe
  <2>2. faults' \in 0 .. MaxFaults /\ (ok => Accepted(c))
    BY <1>1, <2>1, ConstantsAssumption DEF Answered, TypeOK
  <2>3. UNCHANGED <<tok, drained, startup, rec, hubs>>
    BY <1>4 DEF Probe
  <2>4. conf' \in [Clients -> ClientRecords] /\ \A b \in Clients : conf'[b].build = conf[b].build
    <3>1. conf \in [Clients -> ClientRecords]
      BY <1>1 DEF TypeOK, ClientRecords
    <3> QED BY <2>1, <3>1 DEF ClientRecords
  <2>5. /\ pc' \in [Clients -> Places] /\ why' \in [Clients -> Whys]
        /\ pc'[c] \in {"drain", "kept", "lock", "verify", "clear"}
        /\ \A b \in Clients \ {c} : pc'[b] = pc[b]
    BY <1>1, <2>1 DEF TypeOK, Places, Over, Whys
  <2>6. ClientMoves(c)
    BY <1>1, <2>2, <2>3, <2>4, <2>5 DEF ClientMoves, TypeOK
  <2>7. HubsKept
    BY <1>1, <2>3 DEF HubsKept, TypeOK, HubRecords
  <2>8. KnowsItsHub(c)
    <3>1. pc'[c] \in Retiring => ok /\ ~Reusable(c)
      BY <1>1, <2>1 DEF Retiring, TypeOK
    <3>2. Accepted(c) => Up # None
      BY DEF Accepted
    <3> QED BY <1>1, <2>2, <2>3, <3>1, <3>2, OtherHubsAreGone DEF KnowsItsHub
  <2> QED BY <2>6, <2>7, <2>8, ClientMovesKeep
<1>5. CASE Verify(c)
  <2>1. ClientMoves(c)
    BY <1>1, <1>5, ConstantsAssumption
       DEF Verify, ClientMoves, TypeOK, ClientRecords, Places, Over, Whys, TokensWereHubs, Answered
  <2>2. HubsKept
    BY <1>1, <1>5 DEF Verify, HubsKept, TypeOK, HubRecords, Answered
  <2>3. KnowsItsHub(c)
    BY <1>1, <1>5, OtherHubsAreGone DEF Verify, KnowsItsHub, RetiresOlder, Retiring, TypeOK, Answered
  <2> QED BY <2>1, <2>2, <2>3, ClientMovesKeep
<1>6. CASE ClearRecord(c)
  <2>1. ClientMoves(c)
    BY <1>1, <1>6, ConstantsAssumption
       DEF ClearRecord, NoRecord, ClientMoves, TypeOK, ClientRecords, Places, Over, Whys, TokensWereHubs
  <2>2. HubsKept
    BY <1>1, <1>6 DEF ClearRecord, HubsKept, TypeOK, HubRecords
  <2>3. KnowsItsHub(c)
    BY <1>1, <1>6, OtherHubsAreGone DEF ClearRecord, KnowsItsHub, RetiresOlder, Retiring, TypeOK
  <2> QED BY <2>1, <2>2, <2>3, ClientMovesKeep
<1>7. CASE Expected(c)
  <2>1. ClientMoves(c)
    BY <1>1, <1>7, ConstantsAssumption
       DEF Expected, ClientMoves, TypeOK, ClientRecords, Places, Over, Whys, TokensWereHubs, Repairs, Accepted
  <2>2. HubsKept
    BY <1>1, <1>7 DEF Expected, HubsKept, TypeOK, HubRecords, Repairs, Accepted
  <2>3. KnowsItsHub(c)
    BY <1>1, <1>7, OtherHubsAreGone DEF Expected, KnowsItsHub, RetiresOlder, Retiring, TypeOK, Repairs, Accepted
  <2> QED BY <2>1, <2>2, <2>3, ClientMovesKeep
<1>8. CASE Repair(c)
  <2>1. ClientMoves(c)
    BY <1>1, <1>8, ConstantsAssumption
       DEF Repair, ClientMoves, TypeOK, ClientRecords, Places, Over, Whys, TokensWereHubs
  <2>2. HubsKept
    BY <1>1, <1>8 DEF Repair, HubsKept, TypeOK, HubRecords
  <2>3. KnowsItsHub(c)
    BY <1>1, <1>8, OtherHubsAreGone DEF Repair, KnowsItsHub, RetiresOlder, Retiring, TypeOK
  <2> QED BY <2>1, <2>2, <2>3, ClientMovesKeep
<1>9. CASE Spawn(c)
  <2>1. ClientMoves(c)
    BY <1>1, <1>9, ConstantsAssumption
       DEF Spawn, ClientMoves, TypeOK, ClientRecords, Places, Over, Whys, TokensWereHubs
  <2>2. KnowsItsHub(c)
    BY <1>1, <1>9 DEF Spawn, KnowsItsHub, Retiring, TypeOK
  <2>3. CASE UNCHANGED hubs
    <3>1. HubsKept
      BY <1>1, <2>3 DEF HubsKept, TypeOK, HubRecords
    <3> QED BY <2>1, <2>2, <3>1, ClientMovesKeep
  <2>4. ASSUME hubs' # hubs PROVE DaemonInv'
    <3>1. PICK d \in Daemons :
            /\ hubs[d].st = "none"
            /\ hubs' = [hubs EXCEPT ![d].build = conf[c].build, ![d].st = "starting"]
      BY <1>9, <2>4 DEF Spawn
    <3> DEFINE new == [hubs[d] EXCEPT !.build = conf[c].build, !.st = "starting"]
    <3>2. new \in HubRecords /\ new.st = "starting"
      BY <1>1 DEF TypeOK, HubRecords, Stages
    <3>3. hubs' = [hubs EXCEPT ![d] = new]
      BY <1>1, <3>1 DEF TypeOK
    <3> HIDE DEF new
    <3>4. /\ hubs' \in [Daemons -> HubRecords] /\ hubs'[d] = new
          /\ \A e \in Daemons \ {d} : hubs'[e] = hubs[e]
      BY <1>1, <3>2, <3>3 DEF TypeOK, HubRecords
    <3>5. UNCHANGED <<conf, tok, rec>>
      BY <1>9 DEF Spawn
    <3>6. d # rec.hub /\ \A b \in Clients : d # tok[b]
      BY <1>1, <3>1 DEF TokensWereHubs, Published, None, Daemons
    <3>7. TypeOK'
      BY <2>1, <3>4 DEF ClientMoves, TypeOK, ClientRecords, HubRecords
    <3>8. OneHub' /\ ClosingIsStopped'
      BY <3>2, <3>4 DEF DaemonInv, OneHub, ClosingIsStopped, Holds
    <3>9. TokensWereHubs'
      BY <1>1, <2>1, <3>4, <3>5, <3>6 DEF TypeOK, TokensWereHubs, ClientMoves
    <3>10. pc'[c] \notin Retiring /\ \A b \in Clients \ {c} : pc'[b] = pc[b]
      BY <1>1, <1>9 DEF Spawn, TypeOK, Retiring
    <3>11. RetiresOlder'
      BY <1>1, <3>4, <3>5, <3>6, <3>10 DEF TypeOK, RetiresOlder
    <3> QED BY <3>7, <3>8, <3>9, <3>11 DEF DaemonInv
  <2> QED BY <2>3, <2>4
<1>10. CASE Poll(c)
  <2>1. ClientMoves(c)
    BY <1>1, <1>10, ConstantsAssumption
       DEF Poll, ClientMoves, TypeOK, ClientRecords, Places, Over, Whys, TokensWereHubs
  <2>2. HubsKept
    BY <1>1, <1>10 DEF Poll, HubsKept, TypeOK, HubRecords
  <2>3. KnowsItsHub(c)
    BY <1>1, <1>10, OtherHubsAreGone DEF Poll, KnowsItsHub, RetiresOlder, Retiring, TypeOK
  <2> QED BY <2>1, <2>2, <2>3, ClientMovesKeep
<1>11. CASE Drain(c)
  <2>1. PICK ok \in BOOLEAN :
          /\ Answered(c, ok)
          /\ drained' = [drained EXCEPT ![c] = ok]
          /\ Go(c, IF why[c] = "upgrade" /\ ~ok THEN "failed" ELSE "busy")
    BY <1>11 DEF Drain
  <2>2. pc[c] = "drain" /\ UNCHANGED <<conf, tok, why, startup, rec>>
    BY <1>11 DEF Drain
  <2>3. ClientMoves(c)
    BY <1>1, <2>1, <2>2, ConstantsAssumption
       DEF ClientMoves, TypeOK, ClientRecords, Places, Over, Answered
  <2>4. HubsKept
    BY <1>1, <1>11, RequestsKeep
  <2>5. KnowsItsHub(c)
    BY <1>1, <2>2 DEF KnowsItsHub, RetiresOlder, Retiring
  <2> QED BY <2>3, <2>4, <2>5, ClientMovesKeep
<1>12. CASE Busy(c)
  <2>1. PICK ok \in BOOLEAN :
          /\ Answered(c, ok)
          /\ hubs' = IF Accepted(c) /\ ~ok THEN [hubs EXCEPT ![Up] = Lost(hubs[Up], "query")] ELSE hubs
    BY <1>12 DEF Busy
  <2>2. /\ pc[c] = "busy" /\ UNCHANGED <<conf, tok, why, drained, startup, rec>>
        /\ \E place \in {"shutdown", "undrain", "deferred"} : Go(c, place)
    BY <1>12 DEF Busy
  <2>3. ClientMoves(c)
    BY <1>1, <2>1, <2>2, ConstantsAssumption
       DEF ClientMoves, TypeOK, ClientRecords, Places, Over, Answered
  <2>4. HubsKept
    BY <1>1, <1>12, RequestsKeep
  <2>5. KnowsItsHub(c)
    BY <1>1, <2>2 DEF KnowsItsHub, RetiresOlder, Retiring
  <2> QED BY <2>3, <2>4, <2>5, ClientMovesKeep
<1>13. CASE Undrain(c)
  <2>1. PICK ok \in BOOLEAN :
          /\ Answered(c, ok)
          /\ hubs' = IF ~Accepted(c) THEN hubs
                     ELSE [hubs EXCEPT ![Up] = IF ok THEN LiftedHub(c, hubs[Up])
                                               ELSE Lost(hubs[Up], "undrain")]
    BY <1>13 DEF Undrain
  <2>2. /\ UNCHANGED <<conf, tok, why, rec>> /\ drained' = [drained EXCEPT ![c] = FALSE]
        /\ startup' \in {None, startup}
        /\ \E place \in {"kept", "deferred", "expected", "failed"} : Go(c, place)
    BY <1>13 DEF Undrain
  <2>3. ClientMoves(c)
    BY <1>1, <2>1, <2>2, ConstantsAssumption
       DEF ClientMoves, TypeOK, ClientRecords, Places, Over, Answered
  <2>4. HubsKept
    BY <1>1, <1>13, RequestsKeep
  <2>5. KnowsItsHub(c)
    BY <1>1, <2>2 DEF KnowsItsHub, Retiring, TypeOK
  <2> QED BY <2>3, <2>4, <2>5, ClientMovesKeep
<1>14. CASE Deferred(c)
  <2>1. ClientMoves(c)
    BY <1>1, <1>14, ConstantsAssumption
       DEF Deferred, ClientMoves, TypeOK, ClientRecords, Places, Over, Whys, TokensWereHubs, Accepted
  <2>2. HubsKept
    BY <1>1, <1>14 DEF Deferred, HubsKept, TypeOK, HubRecords, Accepted
  <2>3. KnowsItsHub(c)
    BY <1>1, <1>14, OtherHubsAreGone DEF Deferred, KnowsItsHub, RetiresOlder, Retiring, TypeOK, Accepted
  <2> QED BY <2>1, <2>2, <2>3, ClientMovesKeep
<1>15. CASE Shutdown(c)
  <2>1. ClientMoves(c)
    BY <1>1, <1>15, ConstantsAssumption
       DEF Shutdown, ClientMoves, TypeOK, ClientRecords, Places, Over, Whys, GiveUp
  <2>2. HubsKept
    BY <1>1, <1>15, RequestsKeep
  <2>3. KnowsItsHub(c)
    BY <1>1, <1>15 DEF Shutdown, KnowsItsHub, RetiresOlder, Retiring, TypeOK, GiveUp
  <2> QED BY <2>1, <2>2, <2>3, ClientMovesKeep
<1>16. CASE Wait(c)
  <2>1. ClientMoves(c)
    <3>1. faults' \in 0 .. MaxFaults
      BY <1>1, <1>16, ConstantsAssumption DEF Wait, TypeOK
    <3>2. /\ UNCHANGED <<conf, tok, why, drained, rec>> /\ startup' \in {None, startup}
          /\ \E place \in {"wipe", "wait2", "restore", "expected", "failed"} : Go(c, place)
      BY <1>16 DEF Wait, GiveUp
    <3> QED BY <1>1, <3>1, <3>2 DEF ClientMoves, TypeOK, ClientRecords, Places, Over
  <2>2. HubsKept
    BY <1>1, <1>16, RequestsKeep
  <2>3. KnowsItsHub(c)
    BY <1>1, <1>16 DEF Wait, KnowsItsHub, RetiresOlder, Retiring, TypeOK, GiveUp
  <2> QED BY <2>1, <2>2, <2>3, ClientMovesKeep
<1>17. CASE Wipe(c)
  <2>1. ClientMoves(c)
    BY <1>1, <1>17, ConstantsAssumption
       DEF Wipe, NoRecord, ClientMoves, TypeOK, ClientRecords, Places, Over, Whys, TokensWereHubs
  <2>2. HubsKept
    BY <1>1, <1>17 DEF Wipe, HubsKept, TypeOK, HubRecords
  <2>3. KnowsItsHub(c)
    BY <1>1, <1>17, OtherHubsAreGone DEF Wipe, KnowsItsHub, RetiresOlder, Retiring, TypeOK
  <2> QED BY <2>1, <2>2, <2>3, ClientMovesKeep
<1>18. CASE Quit(c)
  <2>1. ClientMoves(c)
    BY <1>1, <1>18, ConstantsAssumption
       DEF Quit, ClientMoves, TypeOK, ClientRecords, Places, Over, Whys, TokensWereHubs
  <2>2. HubsKept
    BY <1>1, <1>18 DEF Quit, HubsKept, TypeOK, HubRecords
  <2>3. KnowsItsHub(c)
    BY <1>1, <1>18, OtherHubsAreGone DEF Quit, KnowsItsHub, RetiresOlder, Retiring, TypeOK
  <2> QED BY <2>1, <2>2, <2>3, ClientMovesKeep
<1> QED BY <1>2, <1>3, <1>4, <1>5, <1>6, <1>7, <1>8, <1>9, <1>10, <1>11, <1>12, <1>13, <1>14, <1>15, <1>16, <1>17, <1>18 DEF ClientStep

-----------------------------------------------------------------------------
(* The daemons.                                                            *)

\* A daemon's step leaves the clients alone.  A hub only goes down the stages, a new one
\* takes the lock that nobody holds.
DaemonMoves(d) ==
  /\ UNCHANGED <<conf, client, startup>> /\ faults' \in 0 .. MaxFaults
  /\ rec' \in {rec, NoRecord} \/ (rec' = [hub |-> d, own |-> TRUE] /\ hubs'[d].st = "serving")
  /\ hubs' \in [Daemons -> HubRecords]
  /\ \A e \in Daemons \ {d} : hubs'[e] = hubs[e]
  /\ hubs'[d].st = "closing" => hubs'[d].stop
  /\ hubs'[d].st = "serving" \/ hubs[d].st \in Published =>
       hubs'[d].st \in Published /\ (hubs'[d].st = "serving" => hubs'[d].build = hubs[d].build)
  /\ hubs'[d].st = "serving" => hubs[d].st \in {"locked", "serving"}
  /\ hubs'[d].st \in {"locked", "serving", "closing"} => Holds(d) \/ \A e \in Daemons : ~Holds(e)

\* Such a step keeps the invariant.
LEMMA DaemonMovesKeep ==
  ASSUME DaemonInv, NEW d \in Daemons, DaemonMoves(d)
  PROVE  DaemonInv'
<1> USE DEF client
<1>1. TypeOK /\ OneHub /\ ClosingIsStopped /\ TokensWereHubs /\ RetiresOlder
  BY DEF DaemonInv
<1>2. TypeOK'
  <2>1. rec' \in [hub : {None} \cup Daemons, own : BOOLEAN] /\ (rec'.hub = None => rec'.own)
    <3>1. CASE rec' = rec
      BY <1>1, <3>1 DEF TypeOK
    <3>2. CASE rec' = [hub |-> None, own |-> TRUE]
      BY <3>2
    <3>3. CASE rec' = [hub |-> d, own |-> TRUE]
      BY <3>3
    <3> QED BY <3>1, <3>2, <3>3 DEF DaemonMoves, NoRecord
  <2>2. hubs' \in [Daemons -> HubRecords] /\ faults' \in 0 .. MaxFaults
        /\ UNCHANGED <<conf, pc, tok, why, drained, startup>>
    BY DEF DaemonMoves
  <2> HIDE DEF client
  <2> QED BY <1>1, <2>1, <2>2 DEF TypeOK, HubRecords
<1>3. OneHub' /\ ClosingIsStopped'
  BY <1>1 DEF DaemonMoves, OneHub, ClosingIsStopped, Holds
<1>4. \A e \in Daemons : hubs[e].st \in Published => hubs'[e].st \in Published
  BY DEF DaemonMoves
<1>5. TokensWereHubs'
  <2>1. \A c \in Clients : tok'[c] # None => hubs'[tok'[c]].st \in Published
    BY <1>1, <1>4 DEF DaemonMoves, TypeOK, TokensWereHubs
  <2>2. rec'.hub # None => hubs'[rec'.hub].st \in Published
    BY <1>1, <1>4 DEF DaemonMoves, TypeOK, TokensWereHubs, NoRecord, Published
  <2> QED BY <1>1, <2>1, <2>2 DEF DaemonMoves, TokensWereHubs
<1>6. RetiresOlder'
  <2> SUFFICES ASSUME NEW c \in Clients, pc[c] \in Retiring, tok[c] # None
               PROVE  conf[c].build > hubs'[tok[c]].build \/ hubs'[tok[c]].st # "serving"
    BY DEF DaemonMoves, RetiresOlder
  <2>1. /\ tok[c] \in Daemons /\ hubs[tok[c]].st \in Published
        /\ conf[c].build > hubs[tok[c]].build \/ hubs[tok[c]].st # "serving"
    BY <1>1 DEF TypeOK, TokensWereHubs, RetiresOlder
  <2>2. CASE tok[c] = d
    BY <2>1, <2>2 DEF DaemonMoves, Published
  <2>3. CASE tok[c] # d
    BY <2>1, <2>3 DEF DaemonMoves
  <2> QED BY <2>2, <2>3
<1> QED BY <1>2, <1>3, <1>5, <1>6 DEF DaemonInv

\* One step per action.
LEMMA DaemonStepKeeps ==
  ASSUME DaemonInv, NEW d \in Daemons, DaemonStep(d) \/ Crash(d) \/ SessionStep(d)
  PROVE  DaemonInv'
<1> USE DEF client
<1>1. /\ hubs \in [Daemons -> HubRecords] /\ hubs[d] \in HubRecords /\ faults \in 0 .. MaxFaults
      /\ hubs[d].st = "closing" => hubs[d].stop
  BY DEF DaemonInv, TypeOK, HubRecords, ClosingIsStopped
<1>2. Gone \in HubRecords /\ Gone.st = "dead"
  BY Ones DEF Gone, NoHub, HubRecords, Stages, Sessions
<1>3. CASE TakeInstanceLock(d)
  <2>1. CASE \E e \in Daemons : Holds(e)
    <3>1. hubs' = [hubs EXCEPT ![d] = Gone]
      BY <1>3, <2>1 DEF TakeInstanceLock
    <3>2. DaemonMoves(d)
      BY <1>1, <1>2, <1>3, <3>1 DEF TakeInstanceLock, DaemonMoves, Published
    <3> QED BY <3>2, DaemonMovesKeep
  <2>2. CASE ~ \E e \in Daemons : Holds(e)
    <3>1. DaemonMoves(d)
      BY <1>1, <1>3, <2>2 DEF TakeInstanceLock, DaemonMoves, Published, HubRecords, Stages
    <3> QED BY <3>1, DaemonMovesKeep
  <2> QED BY <2>1, <2>2
<1>4. CASE Publish(d)
  <2>1. DaemonMoves(d)
    BY <1>1, <1>4 DEF Publish, DaemonMoves, Published, HubRecords, Stages, Holds
  <2> QED BY <2>1, DaemonMovesKeep
<1>5. CASE CloseSockets(d)
  <2>1. DaemonMoves(d)
    BY <1>1, <1>5 DEF CloseSockets, DaemonMoves, Published, HubRecords, Stages, Sessions, Holds
  <2> QED BY <2>1, DaemonMovesKeep
<1>6. CASE Exit(d)
  <2>1. DaemonMoves(d)
    BY <1>1, <1>2, <1>6 DEF Exit, DaemonMoves, Published
  <2> QED BY <2>1, DaemonMovesKeep
<1>7. CASE Crash(d)
  <2>1. DaemonMoves(d)
    BY <1>1, <1>2, <1>7, ConstantsAssumption DEF Crash, DaemonMoves, Published
  <2> QED BY <2>1, DaemonMovesKeep
<1>8. CASE SessionStep(d)
  <2>1. DaemonMoves(d)
    BY <1>1, <1>8 DEF SessionStep, DaemonMoves, Published, HubRecords, Sessions, Holds
  <2> QED BY <2>1, DaemonMovesKeep
<1> QED BY <1>3, <1>4, <1>5, <1>6, <1>7, <1>8 DEF DaemonStep

-----------------------------------------------------------------------------
(* The invariant and what follows.                                         *)

\* At first one hub serves, or none.
LEMMA InitHolds == Init => DaemonInv
<1> SUFFICES ASSUME Init PROVE DaemonInv
  OBVIOUS
<1>1. PICK h \in {NoHub, Gone} \cup {[NoHub EXCEPT !.build = b, !.st = "serving"] : b \in Builds} :
        /\ hubs = [[d \in Daemons |-> NoHub] EXCEPT ![1] = h]
        /\ rec = IF h.st = "none" THEN NoRecord ELSE [hub |-> 1, own |-> TRUE]
  BY DEF Init
<1>2. NoHub \in HubRecords /\ h \in HubRecords /\ h.st \in {"none", "dead", "serving"}
  <2>1. NoHub \in HubRecords /\ NoHub.st = "none"
    BY Ones DEF NoHub, HubRecords, Stages, Sessions
  <2>2. Gone \in HubRecords /\ Gone.st = "dead"
    BY Ones DEF Gone, NoHub, HubRecords, Stages, Sessions
  <2>3. ASSUME NEW b \in Builds, h = [NoHub EXCEPT !.build = b, !.st = "serving"]
        PROVE  h \in HubRecords /\ h.st = "serving"
    BY <2>1, <2>3 DEF HubRecords, Stages
  <2> QED BY <2>1, <2>2, <2>3
<1>3. 1 \in Daemons
  BY Ones
<1>4. /\ hubs \in [Daemons -> HubRecords] /\ hubs[1] = h
      /\ \A d \in Daemons \ {1} : hubs[d].st = "none"
  <2>1. hubs \in [Daemons -> HubRecords] /\ hubs[1] = h /\ \A d \in Daemons \ {1} : hubs[d] = NoHub
    BY <1>1, <1>2, <1>3
  <2>2. NoHub.st = "none"
    BY DEF NoHub
  <2> QED BY <2>1, <2>2
<1>5. TypeOK
  <2>1. /\ tok \in [Clients -> {None} \cup Daemons]
        /\ why \in [Clients -> Whys] /\ drained \in [Clients -> BOOLEAN]
        /\ conf \in [Clients -> ClientRecords] /\ startup = None /\ faults \in 0 .. MaxFaults
    <3>1. tok \in [Clients -> {None} \cup Daemons]
      BY DEF Init
    <3>2. why \in [Clients -> Whys] /\ drained \in [Clients -> BOOLEAN]
      BY DEF Init, Whys
    <3>3. conf \in [Clients -> ClientRecords] /\ startup = None
      BY DEF Init, ClientRecords
    <3>4. faults \in 0 .. MaxFaults
      BY Ones DEF Init
    <3> QED BY <3>1, <3>2, <3>3, <3>4
  <2>3. pc \in [Clients -> Places]
    BY DEF Init, Places
  <2>2. rec \in [hub : {None} \cup Daemons, own : BOOLEAN] /\ (rec.hub = None => rec.own)
    BY <1>1, <1>3 DEF NoRecord
  <2> QED BY <1>4, <2>1, <2>2, <2>3 DEF TypeOK, ClientRecords, HubRecords
<1>6. OneHub /\ ClosingIsStopped
  <2>1. \A d \in Daemons : Holds(d) => d = 1
    <3>1. ASSUME NEW d \in Daemons, d # 1 PROVE ~Holds(d)
      <4>1. hubs[d].st = "none"
        BY <1>4, <3>1
      <4> QED BY <4>1 DEF Holds
    <3> QED BY <3>1
  <2>2. \A d \in Daemons : hubs[d].st # "closing"
    BY <1>2, <1>4
  <2> QED BY <2>1, <2>2 DEF OneHub, ClosingIsStopped
<1>7. \A c \in Clients : pc[c] \in {"lock", "read"} /\ tok[c] = None
  BY DEF Init
<1>8. TokensWereHubs /\ RetiresOlder
  BY <1>1, <1>2, <1>4, <1>7 DEF TokensWereHubs, RetiresOlder, Retiring, NoRecord, Published
<1> QED BY <1>5, <1>6, <1>8 DEF DaemonInv

\* The steps together.
LEMMA StepKeeps == DaemonInv /\ [Next]_vars => DaemonInv'
<1>1. ASSUME DaemonInv, UNCHANGED vars PROVE DaemonInv'
  BY <1>1 DEF vars, client, DaemonInv, TypeOK, OneHub, ClosingIsStopped, TokensWereHubs,
              RetiresOlder, Holds
<1> QED BY <1>1, ClientStepKeeps, DaemonStepKeeps DEF Next

\* The invariant holds of every behaviour.
LEMMA DaemonInvAlways == Spec => []DaemonInv
BY InitHolds, StepKeeps, PTL DEF Spec

\* The state keeps its types: what clients record of a hub that is replaced behind its URL is
\* always a hub that was started.
THEOREM DaemonTypes == Spec => []TypeOK
<1>1. DaemonInv => TypeOK
  BY DEF DaemonInv
<1> QED BY DaemonInvAlways, <1>1, PTL

\* A daemon is told to stop only by clients of newer builds, although the hub may have been
\* replaced behind its URL between any two requests of a client: a token is accepted by its
\* own hub alone, and the pid that is signalled is that of the same hub or of one that is gone.
THEOREM NewerRetire == Spec => OnlyOlderRetired
<1>1. ASSUME DaemonInv, [Next]_vars, NEW d \in Daemons, Stops(d),
             NEW c \in Clients, pc'[c] # pc[c]
      PROVE  conf[c].build > hubs[d].build
  <2> USE DEF client, Go, Leave, KeepHub
  <2>1. /\ TypeOK /\ ~hubs[d].stop /\ hubs'[d].stop
        /\ hubs \in [Daemons -> HubRecords]
        /\ Up # None => Up \in Daemons /\ hubs[Up].st = "serving"
    BY <1>1, UpServes DEF DaemonInv, TypeOK, HubRecords, Stops
  <2>2. PICK b \in Clients : ClientStep(b) \/ Quit(b)
    <3>1. ~UNCHANGED vars
      BY <1>1 DEF vars
    <3>2. ~ \E e \in Daemons : DaemonStep(e) \/ Crash(e) \/ SessionStep(e)
      BY <1>1 DEF DaemonStep, TakeInstanceLock, Publish, CloseSockets, Exit, Crash, SessionStep
    <3> QED BY <1>1, <3>1, <3>2 DEF Next
  <2>3. Shutdown(b) \/ Wait(b)
    <3>1. UNCHANGED hubs \/ Spawn(b) \/ Drain(b) \/ Busy(b) \/ Undrain(b) \/ Shutdown(b) \/ Wait(b)
      BY <2>2 DEF ClientStep, TakeStartupLock, ReadRecord, Probe, Verify, ClearRecord, Expected,
                  Repair, Poll, Deferred, Wipe, Quit
    <3>2. CASE Spawn(b)
      <4>1. CASE UNCHANGED hubs
        BY <2>1, <4>1
      <4>2. CASE \E x \in Daemons :
                   hubs' = [hubs EXCEPT ![x].build = conf[b].build, ![x].st = "starting"]
        BY <2>1, <4>2 DEF HubRecords
      <4> QED BY <3>2, <4>1, <4>2 DEF Spawn
    <3>3. ASSUME Drain(b) \/ Busy(b) \/ Undrain(b), ~Shutdown(b), ~Wait(b) PROVE FALSE
      <4>1. hubs' # hubs
        BY <2>1
      <4>2. PICK e \in Daemons, g \in HubRecords :
              g.stop = hubs[e].stop /\ hubs' = [hubs EXCEPT ![e] = g]
        BY <2>1, <3>3, <4>1, RequestsWrite
      <4> QED BY <2>1, <4>2
    <3>5. CASE UNCHANGED hubs
      BY <2>1, <3>5
    <3> QED BY <3>1, <3>2, <3>3, <3>5
  <2>4. b = c /\ pc[b] \in Retiring
    BY <1>1, <2>1, <2>3 DEF Shutdown, Wait, GiveUp, Retiring, TypeOK
  <2>5. d = tok[b]
    <3>1. CASE Shutdown(b)
      <4>1. Up = tok[b] /\ \E g : hubs' = [hubs EXCEPT ![tok[b]] = g]
        BY <2>1, <3>1 DEF Shutdown, Accepted
      <4> QED BY <2>1, <4>1
    <3>2. CASE Wait(b)
      <4>1. \/ hubs' = hubs
            \/ hubs' = [hubs EXCEPT ![tok[b]] = StoppedBy(b, hubs[tok[b]])]
            \/ Up \in Daemons /\ hubs' = [hubs EXCEPT ![Up] = Lost(hubs[Up], "probe")]
        BY <2>1, <3>2 DEF Wait
      <4>2. Up \in Daemons => Lost(hubs[Up], "probe").stop = hubs[Up].stop
        BY <2>1 DEF Lost, HubRecords
      <4> QED BY <2>1, <4>1, <4>2
    <3> QED BY <2>3, <3>1, <3>2
  <2>6. hubs[d].st = "serving"
    <3>1. hubs[d].st \in Published /\ (hubs[d].st = "closing" => hubs[d].stop)
      BY <1>1, <2>5 DEF DaemonInv, TokensWereHubs, ClosingIsStopped, None, Daemons
    <3>2. CASE Shutdown(b)
      BY <2>1, <2>5, <3>2 DEF Shutdown, Accepted, DrainedHub, HubRecords
    <3>3. CASE Wait(b)
      <4>1. hubs[d].st # "dead"
        BY <2>1, <2>5, <3>3 DEF Wait
      <4> QED BY <2>1, <3>1, <4>1 DEF Published
    <3> QED BY <2>3, <3>2, <3>3
  <2> QED BY <1>1, <2>4, <2>5, <2>6 DEF DaemonInv, RetiresOlder, None, Daemons
<1>2. DaemonInv /\ [Next]_vars =>
        [\A d \in Daemons : Stops(d) =>
           \A c \in Clients : pc'[c] # pc[c] => conf[c].build > hubs[d].build]_vars
  BY <1>1
<1> QED BY DaemonInvAlways, <1>2, PTL DEF Spec, OnlyOlderRetired

-----------------------------------------------------------------------------
(* A hub that closes has no session (SessionsSpared).                      *)

\* The client has the token of a hub that serves.
Knows(c) == tok[c] # None /\ hubs[tok[c]].st = "serving"

\* The hub is one of those that SessionsSpared excepts: a drain does not cover its sessions, or
\* it has left a request to drain or the question for its sessions unanswered.
Marked(h) == h.late \/ h.lost \cap {"drain", "query"} # {}

\* Places behind the reading of the hub's sessions, and those that a drain leads to.
Told == {"shutdown", "wait", "wait2"}
UnderDrain == {"busy", "undrain", "restore", "wipe"} \cup Told \cup Over

\* A client remembers its drain while it retires the hub, and goes no further without one
\* unless its request got no answer.
DrainsAreOwn ==
  \A c \in Clients : /\ drained[c] => pc[c] \in UnderDrain
                     /\ pc[c] \in {"busy"} \cup Told /\ Knows(c) =>
                          drained[c] \/ Marked(hubs[tok[c]])

\* What a client drained stays drained, or the hub is marked.
DrainsHold ==
  \A c \in Clients : drained[c] /\ pc[c] \notin Over /\ Knows(c) =>
    hubs[tok[c]].draining \/ Marked(hubs[tok[c]])

\* Under a drain no creation is under way that was not under way before it.
NoneCreated ==
  \A d \in Daemons : hubs[d].draining => Marked(hubs[d]) \/ hubs[d].sess # "creating"

\* Who has found the hub idle may rely on it.
StaysIdle ==
  \A c \in Clients : pc[c] \in Told /\ Knows(c) =>
    Marked(hubs[tok[c]]) \/ hubs[tok[c]].sess = "none" \/ Consent(c)

\* A hub that was told to stop is idle and admits nothing.
StoppedAreIdle ==
  \A d \in Daemons : hubs[d].stop =>
    hubs[d].forced \/ Marked(hubs[d]) \/ (hubs[d].sess = "none" /\ hubs[d].draining)

SparedInv == DrainsAreOwn /\ DrainsHold /\ NoneCreated /\ StaysIdle /\ StoppedAreIdle

-----------------------------------------------------------------------------
(* The steps of a client.                                                  *)

\* The others are left alone.
OthersRest(c) ==
  \A b \in Clients \ {c} :
    /\ pc'[b] = pc[b] /\ tok'[b] = tok[b] /\ drained'[b] = drained[b]
    /\ why'[b] = why[b] /\ conf'[b] = conf[b]

\* What a request may make of a hub d: nothing is taken from those who drained it.
Fits(c, d, h) ==
  /\ h.st = "serving" => hubs[d].st = "serving"
  /\ h.sess = hubs[d].sess
  /\ Marked(hubs[d]) => Marked(h)
  /\ h.draining => Marked(h) \/ h.sess # "creating"
  /\ h.stop => h.forced \/ Marked(h) \/ (h.sess = "none" /\ h.draining)
  /\ hubs[d].draining => \/ h.draining \/ Marked(h)
                         \/ \A b \in Clients \ {c} : ~(tok[b] = d /\ drained[b] /\ pc[b] \notin Over)

\* What the client has to know of its own hub in its new place.
OwnPart(c) ==
  /\ drained'[c] => pc'[c] \in UnderDrain
  /\ tok'[c] # None /\ hubs'[tok'[c]].st = "serving" =>
       /\ pc'[c] \in {"busy"} \cup Told => drained'[c] \/ Marked(hubs'[tok'[c]])
       /\ drained'[c] /\ pc'[c] \notin Over => hubs'[tok'[c]].draining \/ Marked(hubs'[tok'[c]])
       /\ pc'[c] \in Told => \/ Marked(hubs'[tok'[c]]) \/ hubs'[tok'[c]].sess = "none"
                             \/ (why'[c] = "upgrade" /\ conf'[c].force)

\* The three together keep the invariant.
LEMMA SparedKept ==
  ASSUME DaemonInv, SparedInv, NEW c \in Clients, OthersRest(c), OwnPart(c),
         \A d \in Daemons : Fits(c, d, hubs'[d])
  PROVE  SparedInv'
<1>1. \A b \in Clients : tok[b] \in {None} \cup Daemons
  BY DEF DaemonInv, TypeOK
<1>2. NoneCreated' /\ StoppedAreIdle'
  BY DEF Fits, NoneCreated, StoppedAreIdle
<1>3. ASSUME NEW b \in Clients
      PROVE  /\ drained'[b] => pc'[b] \in UnderDrain
             /\ tok'[b] # None /\ hubs'[tok'[b]].st = "serving" =>
                  /\ pc'[b] \in {"busy"} \cup Told => drained'[b] \/ Marked(hubs'[tok'[b]])
                  /\ drained'[b] /\ pc'[b] \notin Over =>
                       hubs'[tok'[b]].draining \/ Marked(hubs'[tok'[b]])
                  /\ pc'[b] \in Told => \/ Marked(hubs'[tok'[b]]) \/ hubs'[tok'[b]].sess = "none"
                                        \/ (why'[b] = "upgrade" /\ conf'[b].force)
  <2>1. CASE b = c
    BY <2>1 DEF OwnPart
  <2>2. CASE b # c
    <3>1. /\ pc'[b] = pc[b] /\ tok'[b] = tok[b] /\ drained'[b] = drained[b]
          /\ why'[b] = why[b] /\ conf'[b] = conf[b]
      BY <2>2 DEF OthersRest
    <3>2. drained[b] => pc[b] \in UnderDrain
      BY DEF SparedInv, DrainsAreOwn
    <3>3. ASSUME tok[b] # None, hubs'[tok[b]].st = "serving"
          PROVE  /\ pc[b] \in {"busy"} \cup Told => drained[b] \/ Marked(hubs'[tok[b]])
                 /\ drained[b] /\ pc[b] \notin Over =>
                      hubs'[tok[b]].draining \/ Marked(hubs'[tok[b]])
                 /\ pc[b] \in Told => \/ Marked(hubs'[tok[b]]) \/ hubs'[tok[b]].sess = "none"
                                      \/ (why[b] = "upgrade" /\ conf[b].force)
      <4>1. tok[b] \in Daemons /\ Fits(c, tok[b], hubs'[tok[b]])
        BY <1>1, <3>3
      <4>2. Knows(b)
        BY <3>3, <4>1 DEF Fits, Knows
      <4>3. /\ pc[b] \in {"busy"} \cup Told => drained[b] \/ Marked(hubs[tok[b]])
            /\ drained[b] /\ pc[b] \notin Over => hubs[tok[b]].draining \/ Marked(hubs[tok[b]])
            /\ pc[b] \in Told => \/ Marked(hubs[tok[b]]) \/ hubs[tok[b]].sess = "none"
                                 \/ (why[b] = "upgrade" /\ conf[b].force)
        BY <4>2 DEF SparedInv, DrainsAreOwn, DrainsHold, StaysIdle, Consent
      <4> QED BY <2>2, <4>1, <4>3 DEF Fits
    <3> QED BY <3>1, <3>2, <3>3
  <2> QED BY <2>1, <2>2
<1>4. DrainsAreOwn'
  BY <1>3 DEF DrainsAreOwn, Knows
<1>5. DrainsHold'
  BY <1>3 DEF DrainsHold, Knows
<1>6. StaysIdle'
  BY <1>3 DEF StaysIdle, Knows, Consent
<1> QED BY <1>2, <1>4, <1>5, <1>6 DEF SparedInv

\* One hub is written.
LEMMA HubWritten ==
  ASSUME DaemonInv, SparedInv, NEW c \in Clients, NEW d \in Daemons, NEW h,
         Fits(c, d, h), hubs' = [hubs EXCEPT ![d] = h]
  PROVE  \A e \in Daemons : Fits(c, e, hubs'[e])
<1>1. hubs'[d] = h /\ \A e \in Daemons \ {d} : hubs'[e] = hubs[e]
  BY DEF DaemonInv, TypeOK
<1>2. \A e \in Daemons : Fits(c, e, hubs[e])
  BY DEF SparedInv, NoneCreated, StoppedAreIdle, Fits
<1> QED BY <1>1, <1>2

\* No hub is written.
LEMMA HubsRest ==
  ASSUME DaemonInv, SparedInv, NEW c \in Clients, UNCHANGED hubs
  PROVE  \A e \in Daemons : Fits(c, e, hubs'[e])
BY DEF SparedInv, NoneCreated, StoppedAreIdle, Fits

\* A hub that serves accepts whoever has its token.
LEMMA KnownAccepts ==
  ASSUME DaemonInv, NEW c \in Clients, Knows(c)
  PROVE  Accepted(c)
<1>1. tok[c] \in Daemons /\ hubs[tok[c]].st = "serving"
  BY DEF DaemonInv, TypeOK, Knows
<1>2. Up \in Daemons /\ hubs[Up].st = "serving" /\ Up # None
  BY <1>1 DEF Up, None, Daemons
<1>3. Up = tok[c]
  BY <1>1, <1>2 DEF DaemonInv, OneHub, Holds
<1> QED BY <1>2, <1>3 DEF Accepted

\* What a request writes leaves a mark, and so does the loss of the two that count.
LEMMA RequestsMark ==
  ASSUME TypeOK, NEW c \in Clients, NEW h \in HubRecords
  PROVE  /\ Marked(h) => /\ Marked(DrainedHub(h)) /\ Marked(LiftedHub(c, h))
                         /\ Marked(StoppedBy(c, h))
                         /\ \A request \in Requests : Marked(Lost(h, request))
         /\ h.sess = "creating" => Marked(DrainedHub(h))
         /\ h.stop \/ (\E e \in Clients \ {c} : drained[e] /\ tok[e] = tok[c] /\ pc[e] \notin Over)
              => Marked(LiftedHub(c, h))
         /\ Marked(Lost(h, "drain")) /\ Marked(Lost(h, "query"))
<1>1. Marked(h) => Marked(DrainedHub(h)) /\ Marked(LiftedHub(c, h)) /\ Marked(StoppedBy(c, h))
  BY DEF Marked, DrainedHub, LiftedHub, StoppedBy, HubRecords
<1>2. \A request \in Requests : Lost(h, request).late = h.late
                             /\ Lost(h, request).lost = h.lost \cup {request}
  BY DEF Lost, HubRecords
<1>3. Marked(h) => \A request \in Requests : Marked(Lost(h, request))
  BY <1>2 DEF Marked
<1>4. h.sess = "creating" => Marked(DrainedHub(h))
  BY DEF Marked, DrainedHub, HubRecords
<1>5. h.stop \/ (\E e \in Clients \ {c} : drained[e] /\ tok[e] = tok[c] /\ pc[e] \notin Over)
        => Marked(LiftedHub(c, h))
  BY DEF Marked, LiftedHub, HubRecords
<1>6. Marked(Lost(h, "drain")) /\ Marked(Lost(h, "query"))
  BY <1>2 DEF Marked, Requests
<1> QED BY <1>1, <1>3, <1>4, <1>5, <1>6

\* A hub that did not answer fits.
LEMMA LossFits ==
  ASSUME DaemonInv, SparedInv, NEW c \in Clients, NEW d \in Daemons, NEW request \in Requests
  PROVE  Fits(c, d, Lost(hubs[d], request))
<1> DEFINE h == hubs[d]
<1>1. h \in HubRecords /\ TypeOK
  BY DEF DaemonInv, TypeOK, HubRecords
<1>2. /\ h.draining => Marked(h) \/ h.sess # "creating"
      /\ h.stop => h.forced \/ Marked(h) \/ (h.sess = "none" /\ h.draining)
  BY DEF SparedInv, NoneCreated, StoppedAreIdle
<1>3. /\ Lost(h, request).st = h.st /\ Lost(h, request).sess = h.sess
      /\ Lost(h, request).draining = h.draining /\ Lost(h, request).stop = h.stop
      /\ Lost(h, request).forced = h.forced /\ (Marked(h) => Marked(Lost(h, request)))
  BY <1>1, RequestsMark DEF Lost, HubRecords
<1> QED BY <1>2, <1>3 DEF Fits

\* Drained and lifted hubs fit, and those that did not answer.
LEMMA RequestsFit ==
  ASSUME DaemonInv, SparedInv, NEW c \in Clients, tok[c] \in Daemons
  PROVE  /\ Fits(c, tok[c], DrainedHub(hubs[tok[c]]))
         /\ Fits(c, tok[c], LiftedHub(c, hubs[tok[c]]))
         /\ \A request \in Requests : Fits(c, tok[c], Lost(hubs[tok[c]], request))
         /\ Fits(c, tok[c], Lost(DrainedHub(hubs[tok[c]]), "drain"))
<1> DEFINE h == hubs[tok[c]]
<1>1. h \in HubRecords /\ TypeOK
  BY DEF DaemonInv, TypeOK, HubRecords
<1>2. /\ h.draining => Marked(h) \/ h.sess # "creating"
      /\ h.stop => h.forced \/ Marked(h) \/ (h.sess = "none" /\ h.draining)
  BY DEF SparedInv, NoneCreated, StoppedAreIdle
<1> DEFINE g == DrainedHub(h)
<1>3. /\ g \in HubRecords /\ g.st = h.st /\ g.sess = h.sess /\ g.draining
      /\ g.stop = h.stop /\ g.forced = h.forced
  BY <1>1 DEF DrainedHub, HubRecords
<1>4. Fits(c, tok[c], DrainedHub(h))
  BY <1>1, <1>2, <1>3, RequestsMark DEF Fits
<1>5. Fits(c, tok[c], LiftedHub(c, h))
  <2>1. /\ LiftedHub(c, h).st = h.st /\ LiftedHub(c, h).sess = h.sess
        /\ ~LiftedHub(c, h).draining /\ LiftedHub(c, h).stop = h.stop
    BY <1>1 DEF LiftedHub, HubRecords
  <2> QED BY <1>1, <2>1, RequestsMark DEF Fits
<1>6. ASSUME NEW k \in HubRecords, NEW request \in Requests, Fits(c, tok[c], k)
      PROVE  Fits(c, tok[c], Lost(k, request))
  <2>1. /\ Lost(k, request).st = k.st /\ Lost(k, request).sess = k.sess
        /\ Lost(k, request).draining = k.draining /\ Lost(k, request).stop = k.stop
        /\ Lost(k, request).forced = k.forced
    BY DEF Lost, HubRecords
  <2>2. Marked(k) => Marked(Lost(k, request))
    BY <1>1, RequestsMark
  <2> QED BY <1>6, <2>1, <2>2 DEF Fits
<1>7. Fits(c, tok[c], h)
  BY <1>2 DEF Fits
<1> QED BY <1>1, <1>3, <1>4, <1>5, <1>6, <1>7 DEF Requests

\* A hub may be stopped by a client that found it idle.
LEMMA StopFits ==
  ASSUME DaemonInv, SparedInv, NEW c \in Clients, pc[c] \in Told, tok[c] \in Daemons,
         hubs[tok[c]].st \in {"serving", "closing"},
         NEW h \in {hubs[tok[c]], DrainedHub(hubs[tok[c]])}
  PROVE  Fits(c, tok[c], StoppedBy(c, h))
<1> DEFINE g == hubs[tok[c]]
<1>1. g \in HubRecords /\ h \in HubRecords /\ Consent(c) \in BOOLEAN /\ tok[c] # None
  BY RequestsWriteFlags DEF DaemonInv, TypeOK, HubRecords, Consent, None, Daemons
<1>2. /\ Fits(c, tok[c], h) /\ (g.draining => h.draining) /\ (g.forced => h.forced)
      /\ h.st = g.st /\ h.stop = g.stop
  <2>1. CASE h = g
    BY <2>1 DEF SparedInv, NoneCreated, StoppedAreIdle, Fits
  <2>2. CASE h = DrainedHub(g)
    BY <1>1, <2>2, RequestsFit DEF DrainedHub, HubRecords
  <2> QED BY <2>1, <2>2
<1>3. Consent(c) \/ h.forced \/ Marked(h) \/ (h.sess = "none" /\ h.draining)
  <2>1. CASE g.st = "closing"
    <3>1. g.stop
      BY <2>1 DEF DaemonInv, ClosingIsStopped
    <3> QED BY <1>2, <3>1 DEF Fits
  <2>2. CASE g.st = "serving"
    <3>1. Knows(c)
      BY <1>1, <2>2 DEF Knows
    <3>2. (drained[c] \/ Marked(g)) /\ pc[c] \notin Over
      BY <3>1 DEF SparedInv, DrainsAreOwn, Told, Over
    <3>3. g.draining \/ Marked(g)
      BY <3>1, <3>2 DEF SparedInv, DrainsHold
    <3>4. Marked(g) \/ g.sess = "none" \/ Consent(c)
      BY <3>1 DEF SparedInv, StaysIdle
    <3> QED BY <1>2, <3>3, <3>4 DEF Fits
  <2> QED BY <2>1, <2>2
<1> DEFINE k == StoppedBy(c, h)
<1>4. /\ k.st = h.st /\ k.sess = h.sess /\ k.draining = h.draining /\ k.stop
      /\ k.forced = (h.forced \/ Consent(c)) /\ (Marked(h) => Marked(k))
  BY <1>1, RequestsMark DEF DaemonInv, StoppedBy, HubRecords
<1> QED BY <1>2, <1>3, <1>4 DEF Fits

\* A client that has no drain of its own and goes where it needs none.
LEMMA Elsewhere ==
  ASSUME SparedInv, NEW c \in Clients, pc[c] \notin UnderDrain, UNCHANGED drained,
         pc'[c] \notin {"busy"} \cup Told
  PROVE  OwnPart(c)
<1>1. ~drained'[c]
  BY DEF SparedInv, DrainsAreOwn
<1> QED BY <1>1 DEF OwnPart, Told

\* A client on its way to stop a hub keeps what it knows of it.
LEMMA ToldGoesOn ==
  ASSUME DaemonInv, SparedInv, NEW c \in Clients, pc[c] \in Told,
         UNCHANGED <<tok, why, drained, conf>>, \A d \in Daemons : Fits(c, d, hubs'[d]),
         tok[c] \in Daemons /\ hubs[tok[c]].draining =>
           hubs'[tok[c]].draining,
         pc'[c] \in {"wait", "wait2", "wipe", "restore", "expected", "failed"},
         pc'[c] = "expected" => ~drained[c]
  PROVE  OwnPart(c)
<1>1. drained'[c] => pc'[c] \in UnderDrain
  BY DEF UnderDrain, Told, Over
<1>2. ASSUME tok[c] # None, hubs'[tok[c]].st = "serving"
      PROVE  /\ drained[c] \/ Marked(hubs'[tok[c]])
             /\ hubs'[tok[c]].draining \/ Marked(hubs'[tok[c]])
             /\ Marked(hubs'[tok[c]]) \/ hubs'[tok[c]].sess = "none" \/ Consent(c)
  <2>1. tok[c] \in Daemons
    BY <1>2 DEF DaemonInv, TypeOK
  <2>2. /\ Knows(c) /\ (Marked(hubs[tok[c]]) => Marked(hubs'[tok[c]]))
        /\ hubs'[tok[c]].sess = hubs[tok[c]].sess
    BY <1>2, <2>1 DEF Fits, Knows
  <2>3. (drained[c] \/ Marked(hubs[tok[c]])) /\ pc[c] \notin Over
    BY <2>2 DEF SparedInv, DrainsAreOwn, Told, Over
  <2>4. hubs[tok[c]].draining \/ Marked(hubs[tok[c]])
    BY <2>2, <2>3 DEF SparedInv, DrainsHold
  <2>5. Marked(hubs[tok[c]]) \/ hubs[tok[c]].sess = "none" \/ Consent(c)
    BY <2>2 DEF SparedInv, StaysIdle
  <2> QED BY <2>1, <2>2, <2>3, <2>4, <2>5
<1> QED BY <1>1, <1>2 DEF OwnPart, Consent

\* One step per action.
LEMMA ClientSpares ==
  ASSUME DaemonInv, SparedInv, NEW c \in Clients, ClientStep(c) \/ Quit(c)
  PROVE  SparedInv'
<1> USE DEF Go, Leave, KeepHub, client
<1>1. /\ TypeOK /\ tok[c] \in {None} \cup Daemons
      /\ Up # None => Up \in Daemons /\ hubs[Up].st = "serving"
  BY UpServes DEF DaemonInv, TypeOK
<1>2. CASE TakeStartupLock(c)
  <2>1. OthersRest(c)
    BY <1>1, <1>2 DEF TakeStartupLock, OthersRest, TypeOK
  <2>2. OwnPart(c)
    BY <1>1, <1>2, Elsewhere DEF TakeStartupLock, TypeOK, UnderDrain, Told, Over, Places
  <2>3. UNCHANGED hubs
    BY <1>2 DEF TakeStartupLock
  <2> QED BY <2>1, <2>2, <2>3, HubsRest, SparedKept
<1>3. CASE ReadRecord(c)
  <2>1. OthersRest(c)
    BY <1>1, <1>3 DEF ReadRecord, OthersRest, TypeOK
  <2>2. OwnPart(c)
    BY <1>1, <1>3, Elsewhere DEF ReadRecord, TypeOK, UnderDrain, Told, Over, Places
  <2>3. UNCHANGED hubs
    BY <1>3 DEF ReadRecord
  <2> QED BY <2>1, <2>2, <2>3, HubsRest, SparedKept
<1>4. CASE Probe(c)
  <2>1. OthersRest(c)
    BY <1>1, <1>4 DEF Probe, OthersRest, TypeOK
  <2>2. OwnPart(c)
    BY <1>1, <1>4, Elsewhere DEF Probe, TypeOK, UnderDrain, Told, Over, Places
  <2>3. UNCHANGED hubs
    BY <1>4 DEF Probe
  <2> QED BY <2>1, <2>2, <2>3, HubsRest, SparedKept
<1>5. CASE Verify(c)
  <2>1. OthersRest(c)
    BY <1>1, <1>5 DEF Verify, OthersRest, TypeOK
  <2>2. OwnPart(c)
    BY <1>1, <1>5, Elsewhere DEF Verify, TypeOK, UnderDrain, Told, Over, Places
  <2>3. UNCHANGED hubs
    BY <1>5 DEF Verify
  <2> QED BY <2>1, <2>2, <2>3, HubsRest, SparedKept
<1>6. CASE ClearRecord(c)
  <2>1. OthersRest(c)
    BY <1>1, <1>6 DEF ClearRecord, OthersRest, TypeOK
  <2>2. OwnPart(c)
    BY <1>1, <1>6, Elsewhere DEF ClearRecord, TypeOK, UnderDrain, Told, Over, Places
  <2>3. UNCHANGED hubs
    BY <1>6 DEF ClearRecord
  <2> QED BY <2>1, <2>2, <2>3, HubsRest, SparedKept
<1>7. CASE Expected(c)
  <2>1. OthersRest(c)
    BY <1>1, <1>7 DEF Expected, OthersRest, TypeOK
  <2>2. OwnPart(c)
    BY <1>1, <1>7, Elsewhere DEF Expected, TypeOK, UnderDrain, Told, Over, Places
  <2>3. UNCHANGED hubs
    BY <1>7 DEF Expected
  <2> QED BY <2>1, <2>2, <2>3, HubsRest, SparedKept
<1>8. CASE Repair(c)
  <2>1. OthersRest(c)
    BY <1>1, <1>8 DEF Repair, OthersRest, TypeOK
  <2>2. OwnPart(c)
    BY <1>1, <1>8, Elsewhere DEF Repair, TypeOK, UnderDrain, Told, Over, Places
  <2>3. UNCHANGED hubs
    BY <1>8 DEF Repair
  <2> QED BY <2>1, <2>2, <2>3, HubsRest, SparedKept
<1>9. CASE Poll(c)
  <2>1. OthersRest(c)
    BY <1>1, <1>9 DEF Poll, OthersRest, TypeOK
  <2>2. OwnPart(c)
    BY <1>1, <1>9, Elsewhere DEF Poll, TypeOK, UnderDrain, Told, Over, Places
  <2>3. UNCHANGED hubs
    BY <1>9 DEF Poll
  <2> QED BY <2>1, <2>2, <2>3, HubsRest, SparedKept
<1>10. CASE Deferred(c)
  <2>1. OthersRest(c)
    BY <1>1, <1>10 DEF Deferred, OthersRest, TypeOK
  <2>2. OwnPart(c)
    BY <1>1, <1>10, Elsewhere DEF Deferred, TypeOK, UnderDrain, Told, Over, Places
  <2>3. UNCHANGED hubs
    BY <1>10 DEF Deferred
  <2> QED BY <2>1, <2>2, <2>3, HubsRest, SparedKept
<1>11. CASE Busy(c)
  <2>1. PICK ok \in BOOLEAN :
          LET live == ok /\ hubs[Up].sess = "live"
          IN  /\ Answered(c, ok)
              /\ hubs' = IF Accepted(c) /\ ~ok THEN [hubs EXCEPT ![Up] = Lost(hubs[Up], "query")]
                         ELSE hubs
              /\ IF why[c] # "upgrade"
                 THEN Go(c, IF ~live THEN "shutdown" ELSE IF drained[c] THEN "undrain"
                            ELSE "deferred")
                 ELSE Go(c, IF (ok /\ ~live) \/ conf[c].force THEN "shutdown" ELSE "undrain")
    BY <1>11 DEF Busy
  <2>2. OthersRest(c) /\ UNCHANGED <<tok, why, drained, conf>>
    BY <1>1, <1>11 DEF Busy, OthersRest, TypeOK
  <2>3. /\ pc[c] = "busy" /\ pc'[c] \in {"shutdown", "undrain", "deferred"}
        /\ pc'[c] = "deferred" => ~drained[c]
        /\ pc'[c] = "shutdown" => Consent(c) \/ ~ok \/ hubs[Up].sess # "live"
    BY <1>1, <1>11, <2>1 DEF Busy, TypeOK, Consent
  <2>4. \A d \in Daemons : Fits(c, d, hubs'[d])
    <3>1. CASE Accepted(c) /\ ~ok
      BY <1>1, <2>1, <3>1, RequestsFit, HubWritten DEF Accepted, Requests
    <3>2. CASE ~(Accepted(c) /\ ~ok)
      BY <2>1, <3>2, HubsRest
    <3> QED BY <3>1, <3>2
  <2>5. ASSUME tok[c] # None, hubs'[tok[c]].st = "serving"
        PROVE  /\ drained[c] \/ Marked(hubs'[tok[c]])
               /\ hubs'[tok[c]].draining \/ Marked(hubs'[tok[c]])
               /\ pc'[c] \in Told =>
                    Marked(hubs'[tok[c]]) \/ hubs'[tok[c]].sess = "none" \/ Consent(c)
    <3>1. tok[c] \in Daemons /\ hubs[tok[c]] \in HubRecords
      BY <1>1, <2>5 DEF TypeOK, HubRecords
    <3>2. Knows(c)
      BY <2>4, <2>5, <3>1 DEF Fits, Knows
    <3>3. (drained[c] \/ Marked(hubs[tok[c]])) /\ (hubs[tok[c]].draining \/ Marked(hubs[tok[c]]))
      BY <2>3, <3>2 DEF SparedInv, DrainsAreOwn, DrainsHold, Over
    <3>4. Accepted(c) /\ Up = tok[c]
      BY <3>2, KnownAccepts DEF Accepted
    <3>5. CASE ok
      <4>1. hubs' = hubs
        BY <2>1, <3>5
      <4>2. Marked(hubs[tok[c]]) \/ hubs[tok[c]].sess # "creating"
        BY <3>1, <3>3 DEF SparedInv, NoneCreated
      <4>3. hubs[tok[c]].sess \in Sessions
        BY <3>1 DEF HubRecords
      <4> QED BY <2>3, <3>3, <3>4, <3>5, <4>1, <4>2, <4>3 DEF Told, Sessions
    <3>6. CASE ~ok
      <4>1. hubs'[tok[c]] = Lost(hubs[tok[c]], "query")
        BY <1>1, <2>1, <3>1, <3>4, <3>6 DEF TypeOK
      <4>2. Marked(hubs'[tok[c]])
        BY <1>1, <3>1, <4>1, RequestsMark
      <4> QED BY <4>2
    <3> QED BY <3>5, <3>6
  <2>6. OwnPart(c)
    BY <2>2, <2>3, <2>5 DEF OwnPart, Consent, UnderDrain, Told
  <2> QED BY <2>2, <2>4, <2>6, SparedKept
<1>12. CASE Wipe(c)
  <2>1. OthersRest(c) /\ UNCHANGED hubs
    BY <1>1, <1>12 DEF Wipe, OthersRest, TypeOK
  <2>2. ~drained'[c] /\ pc'[c] \in {"expected", "spawn", "poll", "lock"}
    BY <1>1, <1>12 DEF Wipe, TypeOK, Whys
  <2>3. OwnPart(c)
    BY <2>2 DEF OwnPart, Told
  <2> QED BY <2>1, <2>3, HubsRest, SparedKept
<1>13. CASE Quit(c)
  <2>1. OthersRest(c) /\ UNCHANGED hubs
    BY <1>1, <1>13 DEF Quit, OthersRest, TypeOK
  <2>2. pc'[c] = "quit"
    BY <1>1, <1>13 DEF Quit, TypeOK
  <2>3. OwnPart(c)
    BY <2>2 DEF OwnPart, Told, UnderDrain, Over
  <2> QED BY <2>1, <2>3, HubsRest, SparedKept
<1>14. CASE Spawn(c)
  <2>1. OthersRest(c)
    BY <1>1, <1>14 DEF Spawn, OthersRest, TypeOK
  <2>2. OwnPart(c)
    BY <1>1, <1>14, Elsewhere DEF Spawn, TypeOK, UnderDrain, Told, Over, Places
  <2>3. CASE UNCHANGED hubs
    BY <2>1, <2>2, <2>3, HubsRest, SparedKept
  <2>4. ASSUME hubs' # hubs PROVE SparedInv'
    <3>1. PICK d \in Daemons :
            hubs' = [hubs EXCEPT ![d].build = conf[c].build, ![d].st = "starting"]
      BY <1>14, <2>4 DEF Spawn
    <3> DEFINE new == [hubs[d] EXCEPT !.build = conf[c].build, !.st = "starting"]
    <3>2. hubs' = [hubs EXCEPT ![d] = new]
      BY <1>1, <3>1 DEF TypeOK
    <3>3. Fits(c, d, new)
      <4>1. hubs[d] \in HubRecords
        BY <1>1 DEF TypeOK, HubRecords
      <4>2. /\ new.st = "starting" /\ new.sess = hubs[d].sess /\ new.draining = hubs[d].draining
            /\ new.stop = hubs[d].stop /\ new.forced = hubs[d].forced
            /\ Marked(new) = Marked(hubs[d])
        BY <4>1 DEF Marked, HubRecords
      <4> HIDE DEF new
      <4> QED BY <4>2 DEF Fits, SparedInv, NoneCreated, StoppedAreIdle
    <3> HIDE DEF new
    <3> QED BY <2>1, <2>2, <3>2, <3>3, HubWritten, SparedKept
  <2> QED BY <2>3, <2>4
<1>15. CASE Drain(c)
  <2>1. PICK ok \in BOOLEAN :
          /\ Answered(c, ok)
          /\ drained' = [drained EXCEPT ![c] = ok]
          /\ Go(c, IF why[c] = "upgrade" /\ ~ok THEN "failed" ELSE "busy")
          /\ IF ~Accepted(c) THEN hubs' = hubs
             ELSE \E h \in {DrainedHub(hubs[Up])} \cup (IF ok THEN {} ELSE {hubs[Up]}) :
                    hubs' = [hubs EXCEPT ![Up] = IF ok THEN h ELSE Lost(h, "drain")]
    BY <1>15 DEF Drain
  <2>2. OthersRest(c) /\ UNCHANGED tok
    BY <1>1, <1>15 DEF Drain, OthersRest, TypeOK
  <2>3. pc'[c] \in {"busy", "failed"} /\ drained'[c] = ok /\ (drained'[c] => pc'[c] = "busy")
    BY <1>1, <2>1 DEF TypeOK
  <2>4. Accepted(c) => Up = tok[c] /\ tok[c] \in Daemons /\ hubs[tok[c]] \in HubRecords
    BY <1>1 DEF Accepted, TypeOK, HubRecords
  <2>5. ok => Accepted(c)
    BY <2>1 DEF Answered
  <2>6. Accepted(c) => hubs' \in {[hubs EXCEPT ![tok[c]] = h] :
                         h \in IF ok THEN {DrainedHub(hubs[tok[c]])}
                               ELSE {Lost(hubs[tok[c]], "drain"),
                                     Lost(DrainedHub(hubs[tok[c]]), "drain")}}
    BY <2>1, <2>4
  <2>7. \A d \in Daemons : Fits(c, d, hubs'[d])
    <3>1. CASE Accepted(c)
      BY <2>4, <2>6, <3>1, RequestsFit, HubWritten DEF Requests
    <3>2. CASE ~Accepted(c)
      BY <2>1, <3>2, HubsRest
    <3> QED BY <3>1, <3>2
  <2>8. ASSUME tok[c] # None, hubs'[tok[c]].st = "serving"
        PROVE  /\ drained'[c] \/ Marked(hubs'[tok[c]])
               /\ hubs'[tok[c]].draining \/ Marked(hubs'[tok[c]])
    <3>1. Accepted(c)
      BY <1>1, <2>7, <2>8, KnownAccepts DEF Fits, Knows
    <3>2. DrainedHub(hubs[tok[c]]) \in HubRecords /\ DrainedHub(hubs[tok[c]]).draining
      BY <2>4, <3>1 DEF DrainedHub, HubRecords
    <3>3. CASE ok
      <4>1. hubs'[tok[c]] = DrainedHub(hubs[tok[c]])
        BY <1>1, <2>4, <2>6, <3>1, <3>3 DEF TypeOK
      <4> QED BY <2>3, <3>2, <3>3, <4>1
    <3>4. CASE ~ok
      <4>1. hubs'[tok[c]] \in {Lost(hubs[tok[c]], "drain"), Lost(DrainedHub(hubs[tok[c]]), "drain")}
        BY <1>1, <2>4, <2>6, <3>1, <3>4 DEF TypeOK
      <4>2. Marked(hubs'[tok[c]])
        BY <1>1, <2>4, <3>1, <3>2, <4>1, RequestsMark
      <4> QED BY <4>2
    <3> QED BY <3>3, <3>4
  <2>9. OwnPart(c)
    BY <2>2, <2>3, <2>8 DEF OwnPart, UnderDrain, Told, Over
  <2> QED BY <2>2, <2>7, <2>9, SparedKept
<1>16. CASE Undrain(c)
  <2>1. OthersRest(c)
    BY <1>1, <1>16 DEF Undrain, OthersRest, TypeOK
  <2>2. \A d \in Daemons : Fits(c, d, hubs'[d])
    <3>1. CASE Accepted(c)
      <4>1. Up = tok[c] /\ tok[c] \in Daemons
        BY <1>1, <3>1 DEF Accepted
      <4>2. \E h \in {LiftedHub(c, hubs[tok[c]]), Lost(hubs[tok[c]], "undrain")} :
              hubs' = [hubs EXCEPT ![tok[c]] = h]
        BY <1>16, <3>1, <4>1 DEF Undrain
      <4> QED BY <4>1, <4>2, RequestsFit, HubWritten DEF Requests
    <3>2. CASE ~Accepted(c)
      BY <1>16, <3>2, HubsRest DEF Undrain
    <3> QED BY <3>1, <3>2
  <2>3. ~drained'[c] /\ pc'[c] \in {"kept", "deferred", "expected", "failed"}
    BY <1>1, <1>16 DEF Undrain, TypeOK
  <2>4. OwnPart(c)
    BY <2>3 DEF OwnPart, Told
  <2> QED BY <2>1, <2>2, <2>4, SparedKept
<1>17. CASE Shutdown(c)
  <2>1. OthersRest(c) /\ UNCHANGED <<tok, why, drained, conf>>
    BY <1>1, <1>17 DEF Shutdown, GiveUp, OthersRest, TypeOK
  <2>2. \A d \in Daemons : Fits(c, d, hubs'[d])
    <3>1. CASE UNCHANGED hubs
      BY <3>1, HubsRest
    <3>2. CASE Accepted(c) /\ hubs' = [hubs EXCEPT ![tok[c]] = DrainedHub(hubs[tok[c]])]
      BY <1>1, <3>2, RequestsFit, HubWritten DEF Accepted
    <3>3. ASSUME Accepted(c), NEW h \in {hubs[tok[c]], DrainedHub(hubs[tok[c]])},
                 hubs' = [hubs EXCEPT ![tok[c]] = StoppedBy(c, h)]
          PROVE  \A d \in Daemons : Fits(c, d, hubs'[d])
      <4>1. pc[c] \in Told /\ tok[c] \in Daemons /\ hubs[tok[c]].st = "serving"
        BY <1>1, <1>17, <3>3 DEF Shutdown, Told, Accepted
      <4> QED BY <3>3, <4>1, StopFits, HubWritten
    <3>4. hubs' = hubs \/ (/\ Accepted(c)
                          /\ \E h \in {hubs[tok[c]], DrainedHub(hubs[tok[c]])} :
                               \/ hubs' = [hubs EXCEPT ![tok[c]] = h]
                               \/ hubs' = [hubs EXCEPT ![tok[c]] = StoppedBy(c, h)])
      BY <1>17 DEF Shutdown, Accepted
    <3> QED BY <1>1, <3>1, <3>2, <3>3, <3>4 DEF TypeOK
  <2>3. /\ pc[c] = "shutdown" /\ pc'[c] \in {"wait", "restore", "expected", "failed"}
        /\ pc'[c] = "expected" => ~drained[c]
    BY <1>1, <1>17 DEF Shutdown, GiveUp, HandsBack, TypeOK
  <2>4. tok[c] \in Daemons /\ hubs[tok[c]].draining => hubs'[tok[c]].draining
    <3> SUFFICES ASSUME tok[c] \in Daemons, hubs[tok[c]].draining PROVE hubs'[tok[c]].draining
      OBVIOUS
    <3>1. hubs[tok[c]] \in HubRecords
      BY <1>1 DEF TypeOK, HubRecords
    <3> DEFINE writes == {DrainedHub(hubs[tok[c]]), StoppedBy(c, hubs[tok[c]]),
                          StoppedBy(c, DrainedHub(hubs[tok[c]]))}
    <3>2. \A g \in writes : g.draining
      BY <2>4, <3>1 DEF DrainedHub, StoppedBy, HubRecords
    <3>3. hubs' = hubs \/ \E g \in writes \cup {hubs[tok[c]]} : hubs' = [hubs EXCEPT ![tok[c]] = g]
      BY <1>17 DEF Shutdown, Accepted
    <3> QED BY <1>1, <3>2, <3>3 DEF TypeOK
  <2>5. OwnPart(c)
    BY <1>1, <2>1, <2>2, <2>3, <2>4, ToldGoesOn DEF Told
  <2> QED BY <2>1, <2>2, <2>5, SparedKept
<1>18. CASE Wait(c)
  <2>1. OthersRest(c) /\ UNCHANGED <<tok, why, drained, conf>>
    BY <1>1, <1>18 DEF Wait, GiveUp, OthersRest, TypeOK
  <2>2. \A d \in Daemons : Fits(c, d, hubs'[d])
    <3>1. CASE UNCHANGED hubs
      BY <3>1, HubsRest
    <3>2. CASE Up \in Daemons /\ hubs' = [hubs EXCEPT ![Up] = Lost(hubs[Up], "probe")]
      <4>1. Fits(c, Up, Lost(hubs[Up], "probe"))
        BY <1>1, <3>2, LossFits DEF Requests
      <4> QED BY <3>2, <4>1, HubWritten
    <3>3. ASSUME /\ tok[c] \in Daemons /\ hubs[tok[c]].st \notin {"none", "dead"}
                 /\ hubs' = [hubs EXCEPT ![tok[c]] = StoppedBy(c, hubs[tok[c]])]
          PROVE  \A d \in Daemons : Fits(c, d, hubs'[d])
      <4>1. pc[c] \in Told
        BY <1>18 DEF Wait, Told
      <4>2. hubs[tok[c]].st \in {"serving", "closing"}
        BY <1>1, <3>3 DEF DaemonInv, TokensWereHubs, Published, None, Daemons
      <4> QED BY <3>3, <4>1, <4>2, StopFits, HubWritten
    <3> QED BY <1>1, <1>18, <3>1, <3>2, <3>3 DEF Wait
  <2>3. /\ pc[c] \in {"wait", "wait2"} /\ pc'[c] \in {"wait2", "wipe", "restore", "expected", "failed"}
        /\ pc'[c] = "expected" => ~drained[c]
    BY <1>1, <1>18 DEF Wait, GiveUp, HandsBack, TypeOK
  <2>4. tok[c] \in Daemons /\ hubs[tok[c]].draining => hubs'[tok[c]].draining
    <3> SUFFICES ASSUME tok[c] \in Daemons, hubs[tok[c]].draining PROVE hubs'[tok[c]].draining
      OBVIOUS
    <3>1. hubs[tok[c]] \in HubRecords
      BY <1>1 DEF TypeOK, HubRecords
    <3>2. StoppedBy(c, hubs[tok[c]]).draining /\ Lost(hubs[tok[c]], "probe").draining
      BY <2>4, <3>1 DEF StoppedBy, Lost, HubRecords
    <3>3. \/ hubs' = hubs \/ hubs' = [hubs EXCEPT ![tok[c]] = StoppedBy(c, hubs[tok[c]])]
          \/ hubs' = [hubs EXCEPT ![Up] = Lost(hubs[Up], "probe")]
      BY <1>18 DEF Wait
    <3> QED BY <1>1, <2>4, <3>2, <3>3 DEF TypeOK
  <2>5. OwnPart(c)
    BY <1>1, <2>1, <2>2, <2>3, <2>4, ToldGoesOn DEF Told
  <2> QED BY <2>1, <2>2, <2>5, SparedKept
<1> QED BY <1>2, <1>3, <1>4, <1>5, <1>6, <1>7, <1>8, <1>9, <1>10, <1>11, <1>12, <1>13, <1>14, <1>15, <1>16, <1>17, <1>18 DEF ClientStep

-----------------------------------------------------------------------------
(* The steps of a daemon.                                                  *)

\* What becomes of a hub by itself.
Goes(d, h) ==
  /\ h.draining => Marked(h) \/ h.sess # "creating"
  /\ h.stop => h.forced \/ Marked(h) \/ (h.sess = "none" /\ h.draining)
  /\ h.st = "serving" /\ hubs[d].st \in Published =>
       /\ hubs[d].st = "serving"
       /\ Marked(hubs[d]) => Marked(h)
       /\ hubs[d].draining => h.draining
       /\ Marked(h) \/ h.sess = "none" \/ hubs[d].sess # "none" \/ ~hubs[d].draining

\* Such a step keeps the invariant.
LEMMA GoesSpares ==
  ASSUME DaemonInv, SparedInv, NEW d \in Daemons, NEW h, Goes(d, h), UNCHANGED <<conf, client>>,
         hubs' = [hubs EXCEPT ![d] = h]
  PROVE  SparedInv'
<1> USE DEF client
<1>1. hubs'[d] = h /\ \A e \in Daemons \ {d} : hubs'[e] = hubs[e]
  BY DEF DaemonInv, TypeOK
<1>2. NoneCreated' /\ StoppedAreIdle'
  BY <1>1 DEF SparedInv, NoneCreated, StoppedAreIdle, Goes
<1>3. ASSUME NEW c \in Clients, tok[c] # None, hubs'[tok[c]].st = "serving"
      PROVE  /\ Knows(c)
             /\ Marked(hubs[tok[c]]) => Marked(hubs'[tok[c]])
             /\ hubs[tok[c]].draining => hubs'[tok[c]].draining
             /\ \/ Marked(hubs'[tok[c]]) \/ hubs'[tok[c]].sess = "none"
                \/ hubs[tok[c]].sess # "none" \/ ~hubs[tok[c]].draining
  <2>1. tok[c] \in Daemons /\ hubs[tok[c]].st \in Published
    BY <1>3 DEF DaemonInv, TypeOK, TokensWereHubs
  <2>2. CASE tok[c] = d
    BY <1>1, <1>3, <2>1, <2>2 DEF Goes, Knows
  <2>3. CASE tok[c] # d
    BY <1>1, <1>3, <2>1, <2>3 DEF Knows
  <2> QED BY <2>2, <2>3
<1>4. DrainsAreOwn'
  BY <1>3 DEF SparedInv, DrainsAreOwn, Knows
<1>5. DrainsHold'
  BY <1>3 DEF SparedInv, DrainsHold, Knows
<1>6. StaysIdle'
  <2> SUFFICES ASSUME NEW c \in Clients, pc[c] \in Told, tok[c] # None,
                      hubs'[tok[c]].st = "serving"
               PROVE  Marked(hubs'[tok[c]]) \/ hubs'[tok[c]].sess = "none" \/ Consent(c)
    BY DEF StaysIdle, Knows, Consent
  <2>1. Knows(c)
    BY <1>3
  <2>2. (drained[c] \/ Marked(hubs[tok[c]])) /\ pc[c] \notin Over
    BY <2>1 DEF SparedInv, DrainsAreOwn, Told, Over
  <2>3. hubs[tok[c]].draining \/ Marked(hubs[tok[c]])
    BY <2>1, <2>2 DEF SparedInv, DrainsHold
  <2>4. Marked(hubs[tok[c]]) \/ hubs[tok[c]].sess = "none" \/ Consent(c)
    BY <2>1 DEF SparedInv, StaysIdle
  <2> QED BY <1>3, <2>3, <2>4
<1> QED BY <1>2, <1>4, <1>5, <1>6 DEF SparedInv

\* One step per action.
LEMMA DaemonSpares ==
  ASSUME DaemonInv, SparedInv, NEW d \in Daemons, DaemonStep(d) \/ Crash(d) \/ SessionStep(d)
  PROVE  SparedInv'
<1> DEFINE h == hubs[d]
<1>1. /\ hubs \in [Daemons -> HubRecords] /\ h \in HubRecords
      /\ h.draining => Marked(h) \/ h.sess # "creating"
      /\ h.stop => h.forced \/ Marked(h) \/ (h.sess = "none" /\ h.draining)
  BY DEF DaemonInv, TypeOK, HubRecords, SparedInv, NoneCreated, StoppedAreIdle
<1>2. Goes(d, Gone)
  BY DEF Goes, Gone, NoHub
<1>3. CASE hubs' = [hubs EXCEPT ![d] = Gone] /\ UNCHANGED <<conf, client>>
  BY <1>2, <1>3, GoesSpares
<1>4. CASE TakeInstanceLock(d)
  <2>1. CASE \E e \in Daemons : Holds(e)
    BY <1>3, <1>4, <2>1 DEF TakeInstanceLock
  <2>2. CASE ~ \E e \in Daemons : Holds(e)
    <3>1. hubs' = [hubs EXCEPT ![d] = [h EXCEPT !.st = "locked"]] /\ UNCHANGED <<conf, client>>
      BY <1>4, <2>2 DEF TakeInstanceLock
    <3>2. Goes(d, [h EXCEPT !.st = "locked"])
      BY <1>1 DEF Goes, Marked, HubRecords
    <3> QED BY <3>1, <3>2, GoesSpares
  <2> QED BY <2>1, <2>2
<1>5. CASE Publish(d)
  <2>1. hubs' = [hubs EXCEPT ![d] = [h EXCEPT !.st = "serving"]] /\ UNCHANGED <<conf, client>>
    BY <1>1, <1>5 DEF Publish
  <2>2. Marked([h EXCEPT !.st = "serving"]) = Marked(h)
    BY <1>1 DEF Marked, HubRecords
  <2>3. h.st \notin Published
    BY <1>5 DEF Publish, Published
  <2>4. Goes(d, [h EXCEPT !.st = "serving"])
    BY <1>1, <2>2, <2>3 DEF Goes, HubRecords
  <2> QED BY <2>1, <2>4, GoesSpares
<1>6. CASE CloseSockets(d)
  <2>1. hubs' = [hubs EXCEPT ![d] = [h EXCEPT !.st = "closing", !.sess = "none"]]
        /\ UNCHANGED <<conf, client>>
    BY <1>1, <1>6 DEF CloseSockets
  <2>2. Goes(d, [h EXCEPT !.st = "closing", !.sess = "none"])
    BY <1>1 DEF Goes, Marked, HubRecords
  <2> QED BY <2>1, <2>2, GoesSpares
<1>7. CASE Exit(d) \/ Crash(d)
  BY <1>3, <1>7 DEF Exit, Crash
<1>8. CASE SessionStep(d)
  <2>1. UNCHANGED <<conf, client>> /\ h.st = "serving"
    BY <1>8 DEF SessionStep
  <2>2. CASE Admits(h) /\ hubs' = [hubs EXCEPT ![d] = [h EXCEPT !.sess = "creating"]]
    <3>1. ~h.stop \/ h.forced \/ Marked(h)
      BY <1>1, <2>2 DEF Admits
    <3>2. Goes(d, [h EXCEPT !.sess = "creating"])
      BY <1>1, <2>1, <2>2, <3>1 DEF Goes, Marked, HubRecords, Admits
    <3> QED BY <2>1, <2>2, <3>2, GoesSpares
  <2>3. CASE h.sess = "creating" /\ hubs' = [hubs EXCEPT ![d] = [h EXCEPT !.sess = "live"]]
    <3>1. Goes(d, [h EXCEPT !.sess = "live"])
      BY <1>1, <2>1, <2>3 DEF Goes, Marked, HubRecords
    <3> QED BY <2>1, <2>3, <3>1, GoesSpares
  <2>4. CASE h.sess = "none" /\ hubs' = [hubs EXCEPT ![d] =
                                  [h EXCEPT !.sess = "live", !.late = h.late \/ h.draining]]
    <3>1. Goes(d, [h EXCEPT !.sess = "live", !.late = h.late \/ h.draining])
      BY <1>1, <2>1, <2>4 DEF Goes, Marked, HubRecords
    <3> QED BY <2>1, <2>4, <3>1, GoesSpares
  <2>5. CASE hubs' = [hubs EXCEPT ![d] = [h EXCEPT !.sess = "none"]]
    <3>1. Goes(d, [h EXCEPT !.sess = "none"])
      BY <1>1, <2>1 DEF Goes, Marked, HubRecords
    <3> QED BY <2>1, <2>5, <3>1, GoesSpares
  <2> QED BY <1>1, <1>8, <2>2, <2>3, <2>4, <2>5 DEF SessionStep
<1> QED BY <1>4, <1>5, <1>6, <1>7, <1>8 DEF DaemonStep

-----------------------------------------------------------------------------
(* The invariant and the property.                                         *)

\* At first nobody has drained anything.
LEMMA InitSpares == Init => SparedInv
<1> SUFFICES ASSUME Init PROVE SparedInv
  OBVIOUS
<1>1. \A c \in Clients : pc[c] \in {"lock", "read"} /\ ~drained[c]
  BY DEF Init
<1>2. ASSUME NEW d \in Daemons PROVE ~hubs[d].draining /\ ~hubs[d].stop
  <2>1. PICK h \in {NoHub, Gone} \cup {[NoHub EXCEPT !.build = b, !.st = "serving"] : b \in Builds} :
          hubs = [[e \in Daemons |-> NoHub] EXCEPT ![1] = h]
    BY DEF Init
  <2>2. hubs[d] \in {h, NoHub}
    BY <2>1
  <2>3. ~NoHub.draining /\ ~NoHub.stop /\ ~h.draining /\ ~h.stop
    <3>1. ~NoHub.draining /\ ~NoHub.stop /\ ~Gone.draining /\ ~Gone.stop
      BY DEF NoHub, Gone
    <3>2. ASSUME NEW b \in Builds, h = [NoHub EXCEPT !.build = b, !.st = "serving"]
          PROVE  ~h.draining /\ ~h.stop
      BY <3>2 DEF NoHub
    <3> QED BY <3>1, <3>2
  <2> QED BY <2>2, <2>3
<1> QED BY <1>1, <1>2 DEF SparedInv, DrainsAreOwn, DrainsHold, NoneCreated, StaysIdle,
                          StoppedAreIdle, UnderDrain, Told, Over

\* The steps together.
LEMMA StepSpares == DaemonInv /\ SparedInv /\ [Next]_vars => SparedInv'
<1>1. ASSUME SparedInv, UNCHANGED vars PROVE SparedInv'
  BY <1>1 DEF vars, client, SparedInv, DrainsAreOwn, DrainsHold, NoneCreated, StaysIdle,
              StoppedAreIdle, Knows, Consent
<1> QED BY <1>1, ClientSpares, DaemonSpares DEF Next

\* Only a hub that was told to stop closes.
LEMMA OnlyStoppedClose ==
  ASSUME DaemonInv, [Next]_vars, NEW d \in Daemons, Closes(d)
  PROVE  hubs[d].stop
<1> USE DEF Go, Leave, KeepHub, client
<1>1. /\ TypeOK /\ hubs \in [Daemons -> HubRecords]
      /\ Up # None => Up \in Daemons
  BY UpServes DEF DaemonInv, TypeOK, HubRecords
<1>2. hubs[d].st = "serving" /\ hubs'[d].st = "closing"
  BY DEF Closes
<1>3. CASE UNCHANGED hubs
  BY <1>2, <1>3
<1>4. ASSUME NEW c \in Clients, ClientStep(c) \/ Quit(c), hubs' # hubs PROVE FALSE
  <2>1. Spawn(c) \/ Drain(c) \/ Busy(c) \/ Undrain(c) \/ Shutdown(c) \/ Wait(c)
    BY <1>4 DEF ClientStep, TakeStartupLock, ReadRecord, Probe, Verify, ClearRecord, Expected,
                Repair, Poll, Deferred, Wipe, Quit
  <2>2. CASE Spawn(c)
    <3>1. \E x \in Daemons :
            hubs' = [hubs EXCEPT ![x].build = conf[c].build, ![x].st = "starting"]
      BY <1>4, <2>2 DEF Spawn
    <3> QED BY <1>1, <1>2, <3>1 DEF HubRecords
  <2>3. CASE Drain(c) \/ Busy(c) \/ Undrain(c) \/ Shutdown(c) \/ Wait(c)
    <3>1. PICK e \in Daemons, g \in HubRecords :
            g.st = hubs[e].st /\ hubs' = [hubs EXCEPT ![e] = g]
      BY <1>1, <1>4, <2>3, RequestsWrite
    <3> QED BY <1>1, <1>2, <3>1
  <2> QED BY <2>1, <2>2, <2>3
<1>5. ASSUME NEW e \in Daemons, DaemonStep(e) \/ Crash(e) \/ SessionStep(e) PROVE hubs[d].stop
  <2>1. CASE e # d
    BY <1>1, <1>2, <1>5, <2>1
       DEF DaemonStep, TakeInstanceLock, Publish, CloseSockets, Exit, Crash, SessionStep
  <2>2. CASE e = d /\ CloseSockets(d)
    BY <2>2 DEF CloseSockets
  <2>3. CASE e = d /\ ~CloseSockets(d)
    <3>1. hubs'[d].st # "closing"
      BY <1>1, <1>2, <1>5, <2>3
         DEF DaemonStep, TakeInstanceLock, Publish, Exit, Crash, SessionStep, Gone, NoHub, HubRecords
    <3> QED BY <1>2, <3>1
  <2> QED BY <2>1, <2>2, <2>3
<1> QED BY <1>3, <1>4, <1>5 DEF Next, vars

\* A hub that closes has no session: between the moment a client found it idle, under a drain of
\* its own, and the moment the hub terminates its sockets no session begins of which the drain
\* could know, whoever else drains, lifts a drain or dies meanwhile.  It is no promise of a hub
\* that served and left the request to drain or the question for its sessions unanswered: such a
\* hub is stopped whatever it does, and the property says so.
THEOREM IdleHubsClose == Spec => SessionsSpared
<1>1. Spec => [](DaemonInv /\ SparedInv)
  <2>1. Init => DaemonInv /\ SparedInv
    BY InitHolds, InitSpares
  <2>2. (DaemonInv /\ SparedInv) /\ [Next]_vars => (DaemonInv /\ SparedInv)'
    BY StepKeeps, StepSpares
  <2> QED BY <2>1, <2>2, PTL DEF Spec
<1>2. ASSUME DaemonInv, SparedInv, [Next]_vars, NEW d \in Daemons, Closes(d)
      PROVE  \/ hubs[d].sess = "none" \/ hubs[d].forced \/ hubs[d].late
             \/ hubs[d].lost \cap {"drain", "query"} # {}
  BY <1>2, OnlyStoppedClose DEF SparedInv, StoppedAreIdle, Marked
<1>3. (DaemonInv /\ SparedInv) /\ [Next]_vars =>
        [\A d \in Daemons : Closes(d) =>
           \/ hubs[d].sess = "none" \/ hubs[d].forced \/ hubs[d].late
           \/ hubs[d].lost \cap {"drain", "query"} # {}]_vars
  BY <1>2
<1> QED BY <1>1, <1>3, PTL DEF Spec, SessionsSpared
=============================================================================
