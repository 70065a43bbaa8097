----------------------------- MODULE LocalServer -----------------------------
(***************************************************************************)
(* The LAN host, src/main/local-server.ts: startHost() finds a free        *)
(* internal port, spawns the game's socket server on it as a child, polls  *)
(* its /healthz, and then opens the public front on one fixed port.        *)
(* RunningHost.stop() closes the front and kills the child.                *)
(*                                                                         *)
(* A member of Hosts is one call of startHost with what it creates: its    *)
(* child, its front and its stop(); after it failed or was stopped the     *)
(* same name may stand for a later call.  Calls overlap: the boot of the   *)
(* app and the host:start handler both make them.                          *)
(*                                                                         *)
(* A definition named X_Bug... is X with a plausible mistake in it, used   *)
(* only to show that a property is about X.                                *)
(***************************************************************************)
CONSTANTS Hosts,    \* calls of startHost
          Ports,    \* internal loopback ports
          Other,    \* any other program of the machine
          None,     \* no owner of a port
          Conns     \* bound: connections held open on one front

ASSUME OwnersAssumption == Other \notin Hosts /\ None \notin Hosts \cup Ports \cup {Other}

VARIABLES
  pc,         \* how far each call is
  port,       \* internalPort, None before it is found and when the call is over
  bound,      \* who listens on each internal port
  public,     \* who listens on the public port
  child,      \* the socket server process, as its parent's handlers know it
  overdue,    \* the 30 s of the waitForSocketHealth under way are over
  conn        \* the client connections of each front

vars == <<pc, port, bound, public, child, overdue, conn>>

\* attempt: about to poll (at once, or after the 250 ms); asked: request sent; good,
\* wrong: the headers of an answer are there, of a socket server's or another program's;
\* cut: the rest of it never comes; listening: front.listen called; draining:
\* front.close called.
Poll == {"attempt", "asked", "good", "wrong"}
Phase == {"idle", "probing", "listening", "running", "draining", "stopped", "failed", "cut"}
         \cup Poll

\* accepted: nothing was asked on it yet; asked: a request or an upgrade is not answered;
\* idle: it was, and the connection is kept alive; player: it was with a 101; closing:
\* destroyed, 'close' is pending.
ConnState == {"none", "accepted", "asked", "idle", "player", "closing"}

\* nospawn: spawn failed, the 'error' event is pending; refused: it was handled.
\* killed: signalled, still there; dead: gone, 'exit' pending; exited: handled.
ChildState == {"none", "nospawn", "refused", "booting", "serving", "killed",
               "dead", "exited"}

Running(h) == child[h] \in {"booting", "serving"}
InPoll(h) == pc[h] \in Poll

Init ==
  /\ pc = [h \in Hosts |-> "idle"]
  /\ port = [h \in Hosts |-> None]
  /\ bound = [p \in Ports |-> None]
  /\ public = None
  /\ child = [h \in Hosts |-> "none"]
  /\ overdue = [h \in Hosts |-> FALSE]
  /\ conn = [h \in Hosts |-> [c \in Conns |-> "none"]]

-----------------------------------------------------------------------------
(* The child process                                                       *)

\* child.kill() signals a process that is still there.
Killed(st) == IF st \in {"booting", "serving"} THEN "killed" ELSE st

\* The child listens on its port, or dies of finding it taken.
ChildBinds(h) ==
  /\ child[h] = "booting"
  /\ IF bound[port[h]] = None
     THEN /\ child' = [child EXCEPT ![h] = "serving"]
          /\ bound' = [bound EXCEPT ![port[h]] = h]
     ELSE /\ child' = [child EXCEPT ![h] = "dead"]
          /\ UNCHANGED bound
  /\ UNCHANGED <<pc, port, public, overdue, conn>>

\* It obeys the signal, or crashes on its own; its port is free again.
ChildDies(h) ==
  /\ child[h] \in {"booting", "serving", "killed"}
  /\ child' = [child EXCEPT ![h] = "dead"]
  /\ bound' = [p \in Ports |-> IF bound[p] = h THEN None ELSE bound[p]]
  /\ UNCHANGED <<pc, port, public, overdue, conn>>

\* The 'exit' and 'error' handlers: childExited and spawnError are set.
ExitHandled(h) ==
  /\ child[h] = "dead"
  /\ child' = [child EXCEPT ![h] = "exited"]
  /\ UNCHANGED <<pc, port, bound, public, overdue, conn>>

SpawnErrorHandled(h) ==
  /\ child[h] = "nospawn"
  /\ child' = [child EXCEPT ![h] = "refused"]
  /\ UNCHANGED <<pc, port, bound, public, overdue, conn>>

-----------------------------------------------------------------------------
(* startHost                                                               *)

\* The call: without a build it throws, otherwise it asks for a free port.
Start(h) ==
  /\ pc[h] \in {"idle", "stopped", "failed"}
  /\ child[h] \in {"none", "refused", "exited"}
  /\ \E next \in {"probing", "failed"} : pc' = [pc EXCEPT ![h] = next]
  /\ child' = [child EXCEPT ![h] = "none"]
  /\ UNCHANGED <<port, bound, public, overdue, conn>>

\* findFreePort: the port is free when the probe binds it, and given back at once.
\* Then the data directory is seeded, which may throw, and the child spawned.
Spawn(h) ==
  /\ pc[h] = "probing"
  /\ \/ /\ \E p \in Ports : bound[p] = None /\ port' = [port EXCEPT ![h] = p]
        /\ \E st \in {"booting", "nospawn"} : child' = [child EXCEPT ![h] = st]
        /\ pc' = [pc EXCEPT ![h] = "attempt"]
     \/ /\ pc' = [pc EXCEPT ![h] = "failed"]
        /\ UNCHANGED <<port, child>>
  /\ UNCHANGED <<bound, public, overdue, conn>>

\* shouldAbort: a handler has noted that there is no child.
ShouldAbort(h) == child[h] \in {"refused", "exited"}

\* The variables of a call that is over are gone with it.
Over(h) == port' = [port EXCEPT ![h] = None] /\ overdue' = [overdue EXCEPT ![h] = FALSE]

\* The failure paths after the spawn, polling and listening: kill and reject.
Fail(h) ==
  /\ pc' = [pc EXCEPT ![h] = "failed"]
  /\ child' = [child EXCEPT ![h] = Killed(@)]
  /\ Over(h)

\* attempt(): give up, or send the request.
Attempt(h) ==
  /\ pc[h] = "attempt"
  /\ \/ ShouldAbort(h) /\ Fail(h)
     \/ /\ ~ShouldAbort(h)
        /\ pc' = [pc EXCEPT ![h] = "asked"]
        /\ UNCHANGED <<child, port, overdue>>
  /\ UNCHANGED <<bound, public, conn>>

\* The headers of an answer arrive, from whoever is on the port.
Answers(h) ==
  /\ pc[h] = "asked"
  /\ bound[port[h]] # None
  /\ pc' = [pc EXCEPT ![h] = IF bound[port[h]] = Other THEN "wrong" ELSE "good"]
  /\ UNCHANGED <<port, bound, public, child, overdue, conn>>

\* res 'end' after 200 "ok", whosever child has said so.
Healthy(h) ==
  /\ pc[h] = "good"
  /\ pc' = [pc EXCEPT ![h] = "listening"]
  /\ overdue' = [overdue EXCEPT ![h] = FALSE]
  /\ UNCHANGED <<port, bound, public, child, conn>>

Retry_BugNoDeadline(h) ==
  /\ pc[h] \in {"asked", "wrong"}
  /\ \/ ShouldAbort(h) /\ Fail(h)
     \/ ~ShouldAbort(h) /\ pc' = [pc EXCEPT ![h] = "attempt"] /\ UNCHANGED <<child, port, overdue>>
  /\ UNCHANGED <<bound, public, conn>>

\* retry(): req 'error', also of the destroy after 1 s, or res 'end' of a wrong answer.
Retry(h) ==
  /\ pc[h] \in {"asked", "wrong"}
  /\ \/ (ShouldAbort(h) \/ overdue[h]) /\ Fail(h)
     \/ /\ ~(ShouldAbort(h) \/ overdue[h])
        /\ pc' = [pc EXCEPT ![h] = "attempt"]
        /\ UNCHANGED <<child, port, overdue>>
  /\ UNCHANGED <<bound, public, conn>>

\* Who answers stalls or dies in the middle of the answer.  Once there is a response,
\* destroy() and a broken connection are neither 'error' of the request nor 'end' of
\* the response: nobody calls retry(), and nobody looks at the deadline again.
BreaksOff(h) ==
  /\ pc[h] \in {"good", "wrong"}
  /\ pc' = [pc EXCEPT ![h] = "cut"]
  /\ UNCHANGED <<port, bound, public, child, overdue, conn>>

DeadlinePasses(h) ==
  /\ InPoll(h)
  /\ ~overdue[h]
  /\ overdue' = [overdue EXCEPT ![h] = TRUE]
  /\ UNCHANGED <<pc, port, bound, public, child, conn>>

Listen_BugPortTaken(h) ==
  /\ pc[h] = "listening"
  /\ pc' = [pc EXCEPT ![h] = "running"]
  /\ UNCHANGED <<port, bound, public, child, overdue, conn>>

\* front.listen: the call resolves, or the public port is taken (or refused).
Listen(h) ==
  /\ pc[h] = "listening"
  /\ \/ /\ public = None
        /\ public' = h
        /\ pc' = [pc EXCEPT ![h] = "running"]
        /\ UNCHANGED <<child, port, overdue>>
     \/ Fail(h) /\ UNCHANGED public
  /\ UNCHANGED <<bound, conn>>

-----------------------------------------------------------------------------
(* The front                                                               *)

OnConn(h, c, from, to) ==
  /\ conn[h][c] \in from
  /\ conn' = [conn EXCEPT ![h][c] = to]
  /\ UNCHANGED <<pc, port, bound, public, child, overdue>>

Accept(h, c) == public = h /\ OnConn(h, c, {"none"}, "accepted")

\* A request or an upgrade comes, also after front.close().
Request(h, c) == OnConn(h, c, {"accepted", "idle"}, "asked")

\* A file, a proxied answer, or a socket server that refuses the upgrade.
Reply(h, c) == OnConn(h, c, {"asked"}, "idle")

\* The socket server's 101 is passed on and the sockets are joined (FrontRelay).
Upgraded(h, c) == OnConn(h, c, {"asked"}, "player") /\ bound[port[h]] \in Hosts

\* The client leaves, the keep-alive time is over, or what it was connected to is gone.
Leave(h, c) == OnConn(h, c, ConnState \ {"none"}, "none")

\* stop(): front.close() gives the port back, destroys the idle connections and then
\* waits for all of them.  A second call waits for the same event and finds nothing
\* left to do.
Stop(h) ==
  /\ pc[h] = "running"
  /\ pc' = [pc EXCEPT ![h] = "draining"]
  /\ public' = None
  /\ conn' = [conn EXCEPT ![h] = [c \in Conns |-> IF @[c] = "idle" THEN "closing" ELSE @[c]]]
  /\ UNCHANGED <<port, bound, child, overdue>>

Gone(h) == \A c \in Conns : conn[h][c] = "none"

Drained_BugNoKill(h) ==
  /\ pc[h] = "draining"
  /\ Gone(h)
  /\ pc' = [pc EXCEPT ![h] = "stopped"]
  /\ Over(h)
  /\ UNCHANGED <<bound, public, child, conn>>

Drained_BugAwaitsExit(h) ==
  /\ pc[h] = "draining"
  /\ Gone(h)
  /\ child[h] = "exited"
  /\ pc' = [pc EXCEPT ![h] = "stopped"]
  /\ Over(h)
  /\ UNCHANGED <<bound, public, child, conn>>

\* 'close' of the front: the child is killed and stop() resolves.
Drained(h) ==
  /\ pc[h] = "draining"
  /\ Gone(h)
  /\ pc' = [pc EXCEPT ![h] = "stopped"]
  /\ child' = [child EXCEPT ![h] = Killed(@)]
  /\ Over(h)
  /\ UNCHANGED <<bound, public, conn>>

-----------------------------------------------------------------------------
(* Other programs come and go on any free port                             *)

OtherBinds ==
  \/ \E p \in Ports : /\ bound[p] = None
                      /\ bound' = [bound EXCEPT ![p] = Other]
                      /\ UNCHANGED <<pc, port, public, child, overdue, conn>>
  \/ /\ public = None
     /\ public' = Other
     /\ UNCHANGED <<pc, port, bound, child, overdue, conn>>

OtherLeaves ==
  \/ \E p \in Ports : /\ bound[p] = Other
                      /\ bound' = [bound EXCEPT ![p] = None]
                      /\ UNCHANGED <<pc, port, public, child, overdue, conn>>
  \/ /\ public = Other
     /\ public' = None
     /\ UNCHANGED <<pc, port, bound, child, overdue, conn>>

ChildNext == \E h \in Hosts : \/ ChildBinds(h) \/ ChildDies(h)
                              \/ ExitHandled(h) \/ SpawnErrorHandled(h)
StartNext == \E h \in Hosts : \/ Start(h) \/ Spawn(h) \/ Attempt(h) \/ Healthy(h)
                              \/ Answers(h) \/ Retry(h) \/ BreaksOff(h)
                              \/ DeadlinePasses(h) \/ Listen(h)
ConnNext == \E h \in Hosts, c \in Conns : \/ Accept(h, c) \/ Request(h, c) \/ Reply(h, c)
                                         \/ Upgraded(h, c) \/ Leave(h, c)
FrontNext == ConnNext \/ \E h \in Hosts : Stop(h) \/ Drained(h)

Next == ChildNext \/ StartNext \/ FrontNext \/ OtherBinds \/ OtherLeaves

\* Timers fire: a request without an answer ends after 1 s.  An answer that has begun
\* ends or does not.  The operating system answers spawn, listen and signals, a
\* connection that is kept alive or destroyed goes, and 'close' follows the last one.
\* Nobody has to call startHost or stop, no client has to ask, to answer or to leave.
Fairness ==
  \A h \in Hosts :
    /\ WF_vars(Spawn(h)) /\ WF_vars(Attempt(h))
    /\ WF_vars(Answers(h) \/ Healthy(h) \/ Retry(h) \/ BreaksOff(h))
    /\ WF_vars(DeadlinePasses(h)) /\ WF_vars(Listen(h)) /\ WF_vars(Drained(h))
    /\ WF_vars(child[h] = "killed" /\ ChildDies(h))
    /\ \A c \in Conns : WF_vars(conn[h][c] \in {"idle", "closing"} /\ Leave(h, c))

Spec == Init /\ [][Next]_vars
FairSpec == Spec /\ Fairness

-----------------------------------------------------------------------------
(* Properties                                                              *)

TypeOK ==
  /\ pc \in [Hosts -> Phase]
  /\ port \in [Hosts -> Ports \cup {None}]
  /\ bound \in [Ports -> Hosts \cup {Other, None}]
  /\ public \in Hosts \cup {Other, None}
  /\ child \in [Hosts -> ChildState]
  /\ overdue \in [Hosts -> BOOLEAN]
  /\ conn \in [Hosts -> [Conns -> ConnState]]

\* A child that nobody has signalled belongs to a call that has not ended yet: a failed
\* start or a completed stop leaves no socket server behind, wherever it failed
\* (local-server.ts:398-403, 495-508, 513-516).
NoOrphanChild ==
  \A h \in Hosts : Running(h) =>
    pc[h] \in Poll \cup {"cut", "listening", "running", "draining"}

\* Only one call at a time holds the public port, from its resolution to its
\* stop(), and only such a call can have connections when it is stopped
\* (local-server.ts:493-516).
OneFront ==
  \A h \in Hosts : /\ pc[h] = "running" <=> public = h
                   /\ ~Gone(h) => pc[h] \in {"running", "draining"}

\* Every call of startHost resolves or rejects: a child that never answers, never starts
\* or dies is given up, whoever else takes its port.  There is one exception: a call
\* whose poll was answered in part, and no further (local-server.ts:160-204).
StartSettles ==
  \A h \in Hosts : pc[h] = "probing" ~> pc[h] \in {"running", "failed", "cut"}

\* stop() waits for nothing but connections that a client keeps: not for those that are
\* kept alive after an answer, nor for its child, nor for other calls
\* (local-server.ts:513-516).
StopWaitsOnlyForClients ==
  \A h \in Hosts :
    <>[](\A c \in Conns : conn[h][c] \notin {"accepted", "asked", "player"})
      => (pc[h] = "draining" ~> pc[h] = "stopped")

\* The service as the main process sees it.
ServicePhase(p) == IF p \in {"idle", "stopped", "failed"} THEN "off"
                   ELSE IF p = "running" THEN "up"
                   ELSE IF p = "draining" THEN "stopping" ELSE "starting"

Service == INSTANCE HostService WITH phase <- [h \in Hosts |-> ServicePhase(pc[h])],
                                     connected <- {h \in Hosts : ~Gone(h)}

\* Ports, processes, polling and connections together keep the contract that the
\* model of the main process builds on (local-server.ts:227-232, 287-519).
RefinesHostService == Service!HostSpec

\* local-server.ts:230 says stop() will "Stop the front server and the socket
\* child."  A connection that a client keeps, be it a player's or one that has asked for
\* nothing, keeps it from doing so.
StopStops == \A h \in Hosts : pc[h] = "draining" ~> pc[h] = "stopped"

=============================================================================
