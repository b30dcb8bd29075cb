----------------------------- MODULE HubDaemon -----------------------------
(***************************************************************************)
(* One hub per owner (sdk/packages/core/src/hub/daemon/index.ts,           *)
(* hub/discovery, hub/server/hub-websocket-server.ts): client processes    *)
(* find the hub through a discovery record, attach to it when it is at     *)
(* least as new as they are, and otherwise drain and retire it and start a *)
(* daemon of their own build.  What makes a daemon the hub is an exclusive *)
(* lock the operating system holds for it.                                 *)
(*                                                                         *)
(* A client runs ensureDetachedHubServer or upgradeManagedHub, one action  *)
(* from await to await.  All daemons want the same URL, so a hub can be    *)
(* replaced behind it while a client acts on what it saw; a daemon is also *)
(* known by its authToken and its pid, and here one number stands for      *)
(* both.  Protocol versions, builds that cannot be ordered, other ports,   *)
(* ".superseded" records, hubs without /drain and the in-process variant   *)
(* (ensureHubWebSocketServer) are left out.                                *)
(***************************************************************************)
EXTENDS Integers, FiniteSets

CONSTANTS
  Clients,    \* client processes, by their pids
  MaxBuild,   \* bound: builds, ordered by compareHubBuilds
  MaxDaemons, \* bound: daemons started
  MaxFaults   \* bound: daemons and clients that die, requests of a client that get no answer,
              \* and startup locks taken from a holder for being older than 30 seconds

ASSUME ConstantsAssumption ==
  /\ Clients \subseteq Nat \ {0}
  /\ {MaxBuild, MaxDaemons} \subseteq Nat \ {0} /\ MaxFaults \in Nat

Daemons == 1 .. MaxDaemons
Builds == 1 .. MaxBuild
None == 0

VARIABLES
  conf,    \* what each client is: its build, its operation, and whether it may force
  pc,      \* where the client is
  tok,     \* the token and pid the client has read from the discovery record
  why,     \* the place in the code that called retireIncompatibleHub
  drained, \* the client's drain request was accepted
  startup, \* the holder of the startup lock directory
  rec,     \* the discovery record: its hub, and whether it carries the hub's own id
  hubs,    \* the daemons
  faults   \* counter for the bound

client == <<pc, tok, why, drained>>
vars == <<conf, client, startup, rec, hubs, faults>>

Whys == {"found", "expected", "poll", "upgrade"}
Over == {"attached", "kept", "failed", "quit"}
Places == Over \cup
  {"lock", "read", "probe", "verify", "clear", "expected", "repair", "spawn", "poll",
   "drain", "busy", "undrain", "restore", "deferred", "shutdown", "wait", "wait2", "wipe"}

\* Started; holds the instance lock; publishes its record and answers; has closed its
\* listener and its sockets; gone.
Stages == {"none", "starting", "locked", "serving", "closing", "dead"}
\* Nobody is attached; a session.create is under way; a client is attached.  A daemon's
\* "late" says that a session may have begun that no reading under the drain has counted, its
\* "lost" which requests about its retirement got no answer although it served: history.
Sessions == {"none", "creating", "live"}
Requests == {"drain", "query", "probe", "undrain"}
NoHub == [build |-> 1, st |-> "none", stop |-> FALSE, forced |-> FALSE, draining |-> FALSE,
          sess |-> "none", late |-> FALSE, lost |-> {}]
Gone == [NoHub EXCEPT !.st = "dead"]
NoRecord == [hub |-> None, own |-> TRUE]

TypeOK ==
  /\ conf \in [Clients -> [build : Builds, op : {"ensure", "upgrade"}, force : BOOLEAN]]
  /\ pc \in [Clients -> Places] /\ why \in [Clients -> Whys]
  /\ tok \in [Clients -> {None} \cup Daemons] /\ drained \in [Clients -> BOOLEAN]
  /\ startup \in {None} \cup Clients
  /\ rec \in [hub : {None} \cup Daemons, own : BOOLEAN] /\ (rec.hub = None => rec.own)
  /\ hubs \in [Daemons -> [build : Builds, st : Stages, stop : BOOLEAN, forced : BOOLEAN,
                           draining : BOOLEAN, sess : Sessions, late : BOOLEAN,
                           lost : SUBSET Requests]]
  /\ faults \in 0 .. MaxFaults

\* No hub yet, or one that serves, or one that died and left its record behind.
Init ==
  /\ conf \in [Clients -> [build : Builds, op : {"ensure", "upgrade"}, force : BOOLEAN]]
  /\ \A c \in Clients : conf[c].force => conf[c].op = "upgrade"
  /\ pc = [c \in Clients |-> IF conf[c].op = "ensure" THEN "lock" ELSE "read"]
  /\ why = [c \in Clients |-> "found"]
  /\ tok = [c \in Clients |-> None] /\ drained = [c \in Clients |-> FALSE]
  /\ startup = None
  /\ \E h \in {NoHub, Gone} \cup {[NoHub EXCEPT !.build = b, !.st = "serving"] : b \in Builds} :
       /\ hubs = [[d \in Daemons |-> NoHub] EXCEPT ![1] = h]
       /\ rec = IF h.st = "none" THEN NoRecord ELSE [hub |-> 1, own |-> TRUE]
  /\ faults = 0

-----------------------------------------------------------------------------
(* What a client sees of the hub.                                          *)

\* The daemon that answers at the URL.
Up == IF \E d \in Daemons : hubs[d].st = "serving"
      THEN CHOOSE d \in Daemons : hubs[d].st = "serving" ELSE None

\* Bug: requests are served whatever token they carry.
BugAccepted(c) == Up # None

\* An authenticated request of the client is accepted.
Accepted(c) == Up # None /\ Up = tok[c]

\* A request to the hub that would accept it need not be answered.
Answered(c, ok) ==
  \/ ok = Accepted(c) /\ UNCHANGED faults
  \/ Accepted(c) /\ ~ok /\ faults < MaxFaults /\ faults' = faults + 1

Lost(h, request) == [h EXCEPT !.lost = @ \cup {request}]

\* isManagedHubReusable.
Reusable(c) == conf[c].build <= hubs[Up].build

Go(c, place) == pc' = [pc EXCEPT ![c] = place]
\* The locked section is left, normally or not: the lock directory is removed.
Leave(c, place) == Go(c, place) /\ startup' = None
KeepHub == UNCHANGED <<conf, rec, hubs>>

-----------------------------------------------------------------------------
(* ensureDetachedHubServer, and upgradeManagedHub until it retires a hub.  *)

\* withHubStartupLock: wait for the directory, take it from a dead holder or from one that
\* has held it for too long, or time out.
TakeStartupLock(c) ==
  /\ pc[c] = "lock"
  /\ \/ /\ startup \in {None} \cup {b \in Clients : pc[b] = "quit"}
        /\ startup' = c /\ Go(c, "read") /\ UNCHANGED faults
     \/ /\ startup # None /\ faults < MaxFaults
        /\ startup' = c /\ Go(c, "read") /\ faults' = faults + 1
     \/ /\ startup # None
        /\ Go(c, "failed") /\ UNCHANGED <<startup, faults>>
  /\ UNCHANGED <<conf, tok, why, drained, rec, hubs>>

ReadRecord(c) ==
  /\ pc[c] = "read"
  /\ tok' = [tok EXCEPT ![c] = rec.hub]
  /\ Go(c, IF rec.hub # None THEN "probe"
           ELSE IF conf[c].op = "ensure" THEN "expected" ELSE "lock")
  /\ conf' = [conf EXCEPT ![c].op = IF @ = "upgrade" /\ rec.hub = None THEN "ensure" ELSE @]
  /\ UNCHANGED <<why, drained, startup, rec, hubs, faults>>

\* An upgrade retires only a hub that is older; without a hub it is an ensure.
Probe(c) ==
  /\ pc[c] = "probe"
  /\ \E ok \in BOOLEAN :
       /\ Answered(c, ok)
       /\ IF ok /\ ~Reusable(c)
          THEN /\ Go(c, "drain")
               /\ why' = [why EXCEPT ![c] = IF conf[c].op = "upgrade" THEN "upgrade" ELSE "found"]
          ELSE /\ Go(c, IF conf[c].op = "upgrade" THEN IF ok THEN "kept" ELSE "lock"
                        ELSE IF ok THEN "verify" ELSE "clear")
               /\ UNCHANGED why
       /\ conf' = [conf EXCEPT ![c].op = IF ok THEN @ ELSE "ensure"]
  /\ UNCHANGED <<tok, drained, startup, rec, hubs>>

Verify(c) ==
  /\ pc[c] = "verify"
  /\ \E ok \in BOOLEAN :
       /\ Answered(c, ok)
       /\ IF ok THEN Leave(c, "attached") ELSE Go(c, "expected") /\ UNCHANGED startup
  /\ KeepHub /\ UNCHANGED <<tok, why, drained>>

\* The recorded hub does not answer: clearHubDiscovery.
ClearRecord(c) ==
  /\ pc[c] = "clear"
  /\ rec' = NoRecord /\ Go(c, "expected")
  /\ UNCHANGED <<conf, tok, why, drained, startup, hubs, faults>>

\* Bug: the record is repaired although no token was accepted.
BugRepairs(c) == TRUE

Repairs(c) == Accepted(c)

\* The probe of the URL itself, which tells the build but neither token nor pid.
Expected(c) ==
  /\ pc[c] = "expected"
  /\ IF Up = None THEN Go(c, "spawn") /\ UNCHANGED <<why, startup>>
     ELSE IF ~Reusable(c)
          THEN Go(c, "drain") /\ why' = [why EXCEPT ![c] = "expected"] /\ UNCHANGED startup
          ELSE /\ UNCHANGED why
               /\ IF Repairs(c) THEN Go(c, "repair") /\ UNCHANGED startup
                  ELSE Leave(c, "failed")
  /\ KeepHub /\ UNCHANGED <<tok, drained, faults>>

\* The record is written again, without the hub's own id.
Repair(c) ==
  /\ pc[c] = "repair"
  /\ rec' = [hub |-> tok[c], own |-> FALSE]
  /\ Leave(c, "attached")
  /\ UNCHANGED <<conf, tok, why, drained, hubs, faults>>

Spawn(c) ==
  /\ pc[c] = "spawn"
  /\ IF \E d \in Daemons : hubs[d].st = "none"
     THEN LET d == CHOOSE e \in Daemons : hubs[e].st = "none"
          IN /\ hubs' = [hubs EXCEPT ![d].build = conf[c].build, ![d].st = "starting"]
             /\ Go(c, "poll") /\ UNCHANGED startup
     ELSE Leave(c, "failed") /\ UNCHANGED hubs
  /\ UNCHANGED <<conf, tok, why, drained, rec, faults>>

\* Bug: the start of a daemon is waited for without a deadline.
BugStartupDeadline == FALSE

StartupDeadline == TRUE

\* Wait until a usable hub has published itself, retiring an older one that is in its place.
Poll(c) ==
  /\ pc[c] = "poll"
  /\ \/ /\ Up # None /\ Up = rec.hub /\ Reusable(c)
        /\ tok' = [tok EXCEPT ![c] = rec.hub]
        /\ Leave(c, "attached") /\ UNCHANGED why
     \/ /\ Up # None /\ ~Reusable(c)
        /\ tok' = [tok EXCEPT ![c] = rec.hub]
        /\ why' = [why EXCEPT ![c] = "poll"]
        /\ Go(c, "drain") /\ UNCHANGED startup
     \/ /\ StartupDeadline
        /\ Leave(c, "failed") /\ UNCHANGED <<tok, why>>
  /\ UNCHANGED <<conf, drained, rec, hubs, faults>>

-----------------------------------------------------------------------------
(* Retiring a hub of an older build.                                       *)

\* Bug: a hub that survived is not handed back.
BugHandsBack(c) == FALSE

HandsBack(c) == drained[c]

\* POST /drain: the hub admits no new sessions.  Whatever it had admitted goes on.
DrainedHub(h) == [h EXCEPT !.draining = TRUE, !.late = @ \/ h.sess = "creating"]

\* Stopped with the user's consent to interrupt its sessions.
Consent(c) == why[c] = "upgrade" /\ conf[c].force

StoppedBy(c, h) == [h EXCEPT !.stop = TRUE, !.forced = @ \/ Consent(c)]

\* A hub that survived is handed back if this client drained it.
GiveUp(c) ==
  IF HandsBack(c) THEN Go(c, "restore") /\ UNCHANGED startup
  ELSE IF why[c] = "found" THEN Go(c, "expected") /\ UNCHANGED startup
  ELSE Leave(c, "failed")

\* requestHubDrain(...).catch(() => false): the request or its answer may get lost.
Drain(c) ==
  /\ pc[c] = "drain"
  /\ \E ok \in BOOLEAN :
       /\ Answered(c, ok)
       /\ drained' = [drained EXCEPT ![c] = ok]
       /\ Go(c, IF why[c] = "upgrade" /\ ~ok THEN "failed" ELSE "busy")
       /\ IF ~Accepted(c) THEN hubs' = hubs
          ELSE \E h \in {DrainedHub(hubs[Up])} \cup (IF ok THEN {} ELSE {hubs[Up]}) :
                 hubs' = [hubs EXCEPT ![Up] = IF ok THEN h ELSE Lost(h, "drain")]
  /\ UNCHANGED <<conf, tok, why, startup, rec>>

\* hubHasLiveSessions: a session counts while a client is attached to it, and a hub that does
\* not answer counts as idle, also one that serves.  An upgrade waits for its sessions, and then
\* gives up or, with force, does not: there a hub that does not answer counts as busy.
Busy(c) ==
  /\ pc[c] = "busy"
  /\ \E ok \in BOOLEAN :
       LET live == ok /\ hubs[Up].sess = "live"
       IN  /\ Answered(c, ok)
           /\ hubs' = IF Accepted(c) /\ ~ok THEN [hubs EXCEPT ![Up] = Lost(@, "query")] ELSE hubs
           /\ IF why[c] # "upgrade"
              THEN Go(c, IF ~live THEN "shutdown" ELSE IF drained[c] THEN "undrain" ELSE "deferred")
              ELSE Go(c, IF (ok /\ ~live) \/ conf[c].force THEN "shutdown" ELSE "undrain")
  /\ UNCHANGED <<conf, tok, why, drained, startup, rec>>

\* The drain is lifted, for all who asked for it: they may go on to stop the hub.
LiftedHub(c, h) ==
  [h EXCEPT !.draining = FALSE,
            !.late = @ \/ h.stop \/ \E e \in Clients \ {c} :
                            drained[e] /\ tok[e] = tok[c] /\ pc[e] \notin Over]

\* A failure to lift it is ignored.
Undrain(c) ==
  /\ pc[c] \in {"undrain", "restore"}
  /\ \E ok \in BOOLEAN :
       /\ Answered(c, ok)
       /\ hubs' = IF ~Accepted(c) THEN hubs
                  ELSE [hubs EXCEPT ![Up] = IF ok THEN LiftedHub(c, @) ELSE Lost(@, "undrain")]
  /\ drained' = [drained EXCEPT ![c] = FALSE]
  /\ IF pc[c] = "undrain"
     THEN Go(c, IF why[c] = "upgrade" THEN "kept" ELSE "deferred") /\ UNCHANGED startup
     ELSE IF why[c] = "found" THEN Go(c, "expected") /\ UNCHANGED startup
     ELSE IF why[c] = "upgrade" THEN Go(c, "failed") /\ UNCHANGED startup
     ELSE Leave(c, "failed")
  /\ UNCHANGED <<conf, tok, why, rec>>

\* A busy older hub is left running: the client attaches to it.
Deferred(c) ==
  /\ pc[c] = "deferred"
  /\ IF Accepted(c) THEN Leave(c, "attached")
     ELSE IF why[c] = "expected" THEN Leave(c, "failed")
     ELSE Go(c, IF why[c] = "found" THEN "expected" ELSE "poll") /\ UNCHANGED startup
  /\ KeepHub /\ UNCHANGED <<tok, why, drained, faults>>

\* retireDiscoveredHub: drain again and POST /shutdown, each of which may fail; after three
\* attempts within a minute nothing is done.
Shutdown(c) ==
  /\ pc[c] = "shutdown"
  /\ \/ /\ ~Accepted(c) /\ Go(c, "wait") /\ UNCHANGED <<hubs, startup>>
     \/ /\ Accepted(c) /\ Go(c, "wait") /\ UNCHANGED startup
        /\ \E h \in {hubs[Up], DrainedHub(hubs[Up])} :
             \/ hubs' = [hubs EXCEPT ![Up] = h]
             \/ hubs' = [hubs EXCEPT ![Up] = StoppedBy(c, h)]
     \/ GiveUp(c) /\ UNCHANGED hubs
  /\ UNCHANGED <<conf, tok, why, drained, rec, faults>>

\* waitForHubToRetire: until a probe of the URL is not answered, be it because a hub that serves
\* did not answer it.  After three seconds SIGTERM is sent to the recorded pid, which may not be
\* allowed; after three more the retirement has failed.
Wait(c) ==
  /\ pc[c] \in {"wait", "wait2"}
  /\ \/ Up = None /\ Go(c, "wipe") /\ UNCHANGED <<hubs, startup, faults>>
     \/ /\ Up # None /\ faults < MaxFaults
        /\ hubs' = [hubs EXCEPT ![Up] = Lost(@, "probe")]
        /\ Go(c, "wipe") /\ faults' = faults + 1 /\ UNCHANGED startup
     \/ /\ Up # None /\ pc[c] = "wait" /\ Go(c, "wait2") /\ UNCHANGED <<startup, faults>>
        /\ \/ UNCHANGED hubs
           \/ /\ tok[c] # None /\ hubs[tok[c]].st \notin {"none", "dead"}
              /\ hubs' = [hubs EXCEPT ![tok[c]] = StoppedBy(c, @)]
     \/ /\ Up # None /\ pc[c] = "wait2" /\ UNCHANGED <<hubs, faults>>
        /\ GiveUp(c)
  /\ UNCHANGED <<conf, tok, why, drained, rec>>

\* The hub is gone: clearHubDiscovery.  An upgrade goes on as an ensure.
Wipe(c) ==
  /\ pc[c] = "wipe"
  /\ rec' = NoRecord
  /\ drained' = [drained EXCEPT ![c] = FALSE]
  /\ Go(c, CASE why[c] = "found" -> "expected" [] why[c] = "expected" -> "spawn"
             [] why[c] = "poll" -> "poll" [] OTHER -> "lock")
  /\ why' = [why EXCEPT ![c] = "found"]
  /\ conf' = [conf EXCEPT ![c].op = "ensure"]
  /\ UNCHANGED <<tok, startup, hubs, faults>>

\* The client process is killed.
Quit(c) ==
  /\ pc[c] \notin Over /\ faults < MaxFaults
  /\ Go(c, "quit") /\ faults' = faults + 1
  /\ UNCHANGED <<conf, tok, why, drained, startup, rec, hubs>>

-----------------------------------------------------------------------------
(* The daemons.                                                            *)

Holds(d) == hubs[d].st \in {"locked", "serving", "closing"}

\* startHubWebSocketServerWithBindRetry: the instance lock first, then the port; while
\* another daemon has them, for five seconds.
TakeInstanceLock(d) ==
  /\ hubs[d].st = "starting"
  /\ hubs' = [hubs EXCEPT ![d] =
                IF \E e \in Daemons : Holds(e) THEN Gone ELSE [@ EXCEPT !.st = "locked"]]
  /\ UNCHANGED <<conf, client, startup, rec, faults>>

\* writeHubDiscovery.
Publish(d) ==
  /\ hubs[d].st = "locked"
  /\ hubs' = [hubs EXCEPT ![d].st = "serving"]
  /\ rec' = [hub |-> d, own |-> TRUE]
  /\ UNCHANGED <<conf, client, startup, faults>>

\* beginClose: the listener closes and all sockets are terminated.
CloseSockets(d) ==
  /\ hubs[d].st = "serving" /\ hubs[d].stop
  /\ hubs' = [hubs EXCEPT ![d].st = "closing", ![d].sess = "none"]
  /\ UNCHANGED <<conf, client, startup, rec, faults>>

\* The daemon removes the record if it is its own and exits, which releases the instance
\* lock; or its watchdog makes it exit before.
Exit(d) ==
  /\ hubs[d].st = "closing"
  /\ hubs' = [hubs EXCEPT ![d] = Gone]
  /\ \/ rec' = IF rec = [hub |-> d, own |-> TRUE] THEN NoRecord ELSE rec
     \/ UNCHANGED rec
  /\ UNCHANGED <<conf, client, startup, faults>>

Crash(d) ==
  /\ Holds(d) /\ faults < MaxFaults
  /\ hubs' = [hubs EXCEPT ![d] = Gone]
  /\ faults' = faults + 1
  /\ UNCHANGED <<conf, client, startup, rec>>

\* Bug: draining is shown in the hub's status and refuses nothing.
BugAdmits(h) == TRUE

\* requestRefusedByDrain.
Admits(h) == ~h.draining

\* session.create is accepted and takes its time; session.attach is accepted even while the
\* hub drains; a session is left.
SessionStep(d) ==
  /\ hubs[d].st = "serving"
  /\ \/ /\ hubs[d].sess = "none" /\ Admits(hubs[d])
        /\ hubs' = [hubs EXCEPT ![d].sess = "creating"]
     \/ /\ hubs[d].sess = "creating"
        /\ hubs' = [hubs EXCEPT ![d].sess = "live"]
     \/ /\ hubs[d].sess = "none"
        /\ hubs' = [hubs EXCEPT ![d].sess = "live", ![d].late = @ \/ hubs[d].draining]
     \/ /\ hubs[d].sess = "live"
        /\ hubs' = [hubs EXCEPT ![d].sess = "none"]
  /\ UNCHANGED <<conf, client, startup, rec, faults>>

ClientStep(c) ==
  \/ TakeStartupLock(c) \/ ReadRecord(c) \/ Probe(c) \/ Verify(c)
  \/ ClearRecord(c) \/ Expected(c) \/ Repair(c) \/ Spawn(c) \/ Poll(c)
  \/ Drain(c) \/ Busy(c) \/ Undrain(c) \/ Deferred(c) \/ Shutdown(c) \/ Wait(c) \/ Wipe(c)

DaemonStep(d) == TakeInstanceLock(d) \/ Publish(d) \/ CloseSockets(d) \/ Exit(d)

Next ==
  \/ \E c \in Clients : ClientStep(c) \/ Quit(c)
  \/ \E d \in Daemons : DaemonStep(d) \/ Crash(d) \/ SessionStep(d)

Spec == Init /\ [][Next]_vars

\* Requests are answered or fail, sleeps end, and daemons get on with what they do.
FairSpec ==
  /\ Spec
  /\ WF_vars(\E c \in Clients : ClientStep(c))
  /\ WF_vars(\E d \in Daemons : DaemonStep(d))

-----------------------------------------------------------------------------
(* Properties.                                                             *)

Stops(d) == ~hubs[d].stop /\ hubs'[d].stop

\* A daemon is told to stop only by a client of a newer build.  The hub is replaced behind its
\* URL while clients act on what they saw of its predecessor: no client retires a hub that
\* is as new as itself, or newer, and two installs do not replace each other's hubs in turn.
OnlyOlderRetired ==
  [][\A d \in Daemons : Stops(d) =>
       \A c \in Clients : pc'[c] # pc[c] => conf[c].build > hubs[d].build]_vars

Closes(d) == hubs[d].st = "serving" /\ hubs'[d].st = "closing"

\* A hub that closes has no session, unless the user agreed to interrupt it or the session began
\* where a drain cannot see it: its creation was under way, it was attached to during the
\* drain, or another client lifted the drain.  Excepted by name (lost) is a hub that served and
\* did not answer the request to drain, or the question for its sessions: it is replaced on the
\* snapshot (index.ts:308-311), or as if it were idle (hubHasLiveSessions, :281 and :293).
SessionsSpared ==
  [][\A d \in Daemons : Closes(d) =>
       \/ hubs[d].sess = "none" \/ hubs[d].forced \/ hubs[d].late
       \/ hubs[d].lost \cap {"drain", "query"} # {}]_vars

\* A hub that was drained is stopped, dies, or is handed back, unless a client was killed
\* meanwhile: it does not go on to refuse all work.  Excepted by name (lost) is a hub that served
\* and did not answer the drain, so that its client does not know of the drain, a probe, so that
\* it counts as retired (waitForHubToRetire), or the request to lift the drain, which is made once.
HandedBack ==
  \A d \in Daemons :
    []<>(\/ hubs[d].st # "serving" \/ hubs[d].stop \/ ~hubs[d].draining
         \/ hubs[d].lost \cap {"drain", "probe", "undrain"} # {}
         \/ \E c \in Clients : pc[c] = "quit")

\* Every client gets its hub, leaves the old one running or fails, whichever daemons and
\* clients die on the way: nobody waits for ever for a lock, a hub to go or a hub to come.
EnsureEnds == \A c \in Clients : <>(pc[c] \in Over)

=============================================================================
