-------------------------- MODULE LocalServerProofs --------------------------
(***************************************************************************)
(* For any number of overlapping calls, ports and connections: no child is *)
(* left behind, one call has the public port, and the contract HostService *)
(* is kept.  NoOrphanChild and OneFront carry themselves, step by step;    *)
(* the contract follows from OneFront: what is in the way of a resolution  *)
(* is who has the public port.                                             *)
(***************************************************************************)
EXTENDS LocalServer, TLAPS

IInv == TypeOK /\ NoOrphanChild /\ OneFront

LEMMA Initially == Init => IInv
BY OwnersAssumption DEF Init, IInv, TypeOK, Phase, Poll, ChildState, ConnState,
   NoOrphanChild, Running, OneFront, Gone

-----------------------------------------------------------------------------
(* Types *)

\* One connection of one front moves.
LEMMA ConnTypes ==
  ASSUME TypeOK, NEW h \in Hosts, NEW c \in Conns, NEW from, NEW to \in ConnState,
         OnConn(h, c, from, to)
  PROVE  TypeOK'
BY DEF TypeOK, OnConn

LEMMA StepTypes == TypeOK /\ [Next]_vars => TypeOK'
<1> SUFFICES ASSUME TypeOK, [Next]_vars PROVE TypeOK'
  OBVIOUS
<1>1. CASE ConnNext
  BY <1>1, ConnTypes DEF ConnNext, Accept, Request, Reply, Upgraded, Leave, ConnState
<1> USE DEF TypeOK, Phase, Poll, ChildState
<1>2. ASSUME NEW h \in Hosts,
             ChildBinds(h) \/ ChildDies(h) \/ ExitHandled(h) \/ SpawnErrorHandled(h)
      PROVE  TypeOK'
  BY <1>2 DEF ChildBinds, ChildDies, ExitHandled, SpawnErrorHandled
<1>3. ASSUME NEW h \in Hosts, Fail(h), UNCHANGED <<bound, conn>>,
             public' \in Hosts \cup {Other, None}
      PROVE  TypeOK'
  BY <1>3 DEF Fail, Killed, Over
<1>4. ASSUME NEW h \in Hosts,
             Start(h) \/ Spawn(h) \/ Answers(h) \/ Healthy(h) \/ BreaksOff(h) \/ DeadlinePasses(h)
      PROVE  TypeOK'
  BY <1>4 DEF Start, Spawn, Answers, Healthy, BreaksOff, DeadlinePasses
<1>5. ASSUME NEW h \in Hosts, Attempt(h) \/ Retry(h) \/ Listen(h)
      PROVE  TypeOK'
  BY <1>3, <1>5 DEF Attempt, Retry, Listen
<1>6. ASSUME NEW h \in Hosts, Stop(h)
      PROVE  TypeOK'
  BY <1>6 DEF Stop, ConnState
<1>7. ASSUME NEW h \in Hosts, Drained(h)
      PROVE  TypeOK'
  BY <1>7 DEF Drained, Killed, Over
<1>8. CASE OtherBinds \/ OtherLeaves
  BY <1>8 DEF OtherBinds, OtherLeaves
<1>9. CASE UNCHANGED vars
  BY <1>9 DEF vars
<1> QED
  BY <1>1, <1>2, <1>4, <1>5, <1>6, <1>7, <1>8, <1>9 DEF Next, ChildNext, StartNext, FrontNext

-----------------------------------------------------------------------------
(* The other conjuncts, action by action *)

Inv == NoOrphanChild /\ OneFront

\* A rejected call has no child left that is not signalled.
LEMMA FailStep ==
  ASSUME IInv, NEW h \in Hosts, Fail(h), pc[h] \in Poll \cup {"listening"},
         UNCHANGED <<bound, public, conn>>
  PROVE  Inv'
BY DEF IInv, TypeOK, Inv, Fail, Killed, Poll, NoOrphanChild, Running, OneFront, Gone

LEMMA StartStep ==
  ASSUME IInv, NEW h \in Hosts,
         \/ Start(h) \/ Spawn(h) \/ Attempt(h) \/ Answers(h) \/ Healthy(h)
         \/ Retry(h) \/ BreaksOff(h) \/ DeadlinePasses(h) \/ Listen(h)
  PROVE  Inv'
<1> USE DEF IInv, TypeOK, Inv, Poll, NoOrphanChild, Running, OneFront, Gone
<1>1. CASE Start(h)
  BY <1>1 DEF Start
<1>2. CASE Spawn(h)
  BY <1>2 DEF Spawn
<1>3. CASE \/ (Attempt(h) \/ Retry(h)) /\ ~Fail(h)
           \/ Answers(h) \/ Healthy(h) \/ BreaksOff(h) \/ DeadlinePasses(h)
  <2>1. UNCHANGED <<public, child, conn>>
    BY <1>3 DEF Attempt, Answers, Healthy, Retry, BreaksOff, DeadlinePasses
  <2>2. /\ pc'[h] \in Poll \cup {"listening", "cut"} /\ pc[h] \in Poll
        /\ \A g \in Hosts \ {h} : pc'[g] = pc[g]
    BY <1>3 DEF Attempt, Answers, Healthy, Retry, BreaksOff, DeadlinePasses, InPoll
  <2> QED
    BY <2>1, <2>2
<1>4. CASE (Attempt(h) \/ Retry(h) \/ Listen(h)) /\ Fail(h)
  <2>1. pc'[h] = "failed" /\ pc[h] \in Poll \cup {"listening"}
    BY <1>4 DEF Fail, Attempt, Retry, Listen
  <2>2. UNCHANGED <<bound, public, conn>>
    BY <1>4, <2>1 DEF Attempt, Retry, Listen
  <2> QED
    BY <1>4, <2>1, <2>2, FailStep
<1>5. CASE Listen(h) /\ ~Fail(h)
  <2>1. /\ public = None /\ public' = h /\ pc[h] = "listening"
        /\ pc' = [pc EXCEPT ![h] = "running"] /\ UNCHANGED <<child, conn>>
    BY <1>5 DEF Listen
  <2>2. \A g \in Hosts : pc[g] # "running"
    BY <2>1, OwnersAssumption
  <2> QED
    BY <2>1, <2>2
<1> QED
  BY <1>1, <1>2, <1>3, <1>4, <1>5

\* Only the front that has the public port accepts a connection.
LEMMA ConnStep ==
  ASSUME IInv, NEW h \in Hosts, NEW c \in Conns, NEW from, NEW to, OnConn(h, c, from, to),
         public = h \/ (conn[h][c] # "none")
  PROVE  Inv'
<1>1. pc[h] \in {"running", "draining"}
  BY DEF IInv, OneFront, Gone
<1>2. \A g \in Hosts \ {h} : conn'[g] = conn[g]
  BY DEF OnConn, IInv, TypeOK
<1> QED
  BY <1>1, <1>2 DEF OnConn, IInv, Inv, NoOrphanChild, Running, OneFront, Gone

LEMMA FrontStep ==
  ASSUME IInv, FrontNext
  PROVE  Inv'
<1>1. CASE ConnNext
  BY <1>1, ConnStep DEF ConnNext, Accept, Request, Reply, Upgraded, Leave, OnConn, ConnState
<1> USE OwnersAssumption DEF IInv, TypeOK, Inv, NoOrphanChild, Running, OneFront, Gone
<1>2. ASSUME NEW h \in Hosts, Stop(h) PROVE Inv'
  <2>1. /\ public = h /\ public' = None /\ pc' = [pc EXCEPT ![h] = "draining"]
        /\ child' = child /\ \A g \in Hosts \ {h} : conn'[g] = conn[g]
    BY <1>2 DEF Stop
  <2> QED
    BY <2>1
<1>3. ASSUME NEW h \in Hosts, Drained(h) PROVE Inv'
  BY <1>3 DEF Drained, Killed
<1> QED
  BY <1>1, <1>2, <1>3 DEF FrontNext

LEMMA OtherStep ==
  ASSUME IInv, ChildNext \/ OtherBinds \/ OtherLeaves
  PROVE  Inv'
<1> USE OwnersAssumption DEF IInv, TypeOK, Inv, NoOrphanChild, Running, OneFront, Gone
<1>1. CASE ChildNext
  BY <1>1 DEF ChildNext, ChildBinds, ChildDies, ExitHandled, SpawnErrorHandled
<1>2. CASE OtherBinds \/ OtherLeaves
  BY <1>2 DEF OtherBinds, OtherLeaves
<1> QED
  BY <1>1, <1>2

LEMMA Step == IInv /\ [Next]_vars => IInv'
<1> SUFFICES ASSUME IInv, [Next]_vars PROVE IInv'
  OBVIOUS
<1>1. TypeOK'
  BY StepTypes DEF IInv
<1>2. CASE UNCHANGED vars
  BY <1>1, <1>2 DEF vars, IInv, NoOrphanChild, Running, OneFront, Gone
<1>3. CASE Next
  <2>1. Inv'
    BY <1>3, StartStep, FrontStep, OtherStep DEF Next, StartNext
  <2> QED
    BY <1>1, <2>1 DEF IInv, Inv
<1> QED
  BY <1>2, <1>3

LEMMA Inductive == Spec => []IInv
BY Initially, Step, PTL DEF Spec

-----------------------------------------------------------------------------
(* What follows *)

\* Every variable keeps its type (local-server.ts:160-519).
THEOREM Typed == Spec => []TypeOK
BY Inductive, PTL DEF IInv

\* Wherever a call fails or is stopped, and whatever its child does meanwhile, no
\* socket server is left that nobody has signalled (local-server.ts:398-403,
\* 495-508, 513-516).
THEOREM NoChildLeftBehind == Spec => []NoOrphanChild
BY Inductive, PTL DEF IInv

\* Of any number of overlapping calls one has the public port, and there are
\* connections to no front but one that is up or being stopped (local-server.ts:493-516).
THEOREM OneFrontAtATime == Spec => []OneFront
BY Inductive, PTL DEF IInv

-----------------------------------------------------------------------------
(* The contract *)

Phases == [h \in Hosts |-> ServicePhase(pc[h])]
Connected == {h \in Hosts : ~Gone(h)}

LEMMA ServiceInit == Init => Service!HostInit
BY DEF Init, Service!HostInit, ServicePhase, Gone

\* A call that moves from one phase to another is the only one that moves.
LEMMA Moves ==
  ASSUME NEW h \in Hosts, pc \in [Hosts -> Phase], NEW to \in Phase,
         pc' = [pc EXCEPT ![h] = to]
  PROVE  Phases' = [Phases EXCEPT ![h] = ServicePhase(to)]
BY DEF Phases

LEMMA SameConnected == ASSUME UNCHANGED conn PROVE Connected' = Connected
BY DEF Connected, Gone

\* A step inside a call that is being started is none of the service.
LEMMA Starting ==
  ASSUME NEW h \in Hosts, pc \in [Hosts -> Phase], NEW to \in Phase,
         pc' = [pc EXCEPT ![h] = to], UNCHANGED conn,
         {pc[h], to} \subseteq Poll \cup {"probing", "listening", "cut"}
  PROVE  UNCHANGED <<Phases, Connected>>
<1>1. Phases' = [Phases EXCEPT ![h] = "starting"] /\ Phases[h] = "starting"
  BY Moves DEF Phases, ServicePhase, Poll
<1>2. Phases' = Phases
  BY <1>1 DEF Phases
<1> QED
  BY <1>2, SameConnected

LEMMA Rejects ==
  ASSUME NEW h \in Hosts, pc \in [Hosts -> Phase], pc' = [pc EXCEPT ![h] = "failed"],
         pc[h] \in Poll \cup {"probing", "listening"}, UNCHANGED conn
  PROVE  Service!Reject(h)
<1>1. Phases' = [Phases EXCEPT ![h] = "off"] /\ Phases[h] = "starting"
  BY Moves DEF Phases, ServicePhase, Phase, Poll
<1> QED
  BY <1>1, SameConnected DEF Service!Reject, Service!Move, Phases, Connected

\* A connection comes to a front that is up, or goes, or changes.
LEMMA ConnService ==
  ASSUME IInv, NEW h \in Hosts, NEW c \in Conns, NEW from, NEW to, OnConn(h, c, from, to),
         public = h \/ (conn[h][c] # "none")
  PROVE  Service!HostNext \/ UNCHANGED <<Phases, Connected>>
<1>1. \A g \in Hosts \ {h} : Gone(g)' = Gone(g)
  BY DEF OnConn, IInv, TypeOK, Gone
<1>2. Phases' = Phases
  BY DEF OnConn, Phases
<1>3. CASE Gone(h)' = Gone(h)
  <2>1. Connected' = Connected
    BY <1>1, <1>3 DEF Connected
  <2> QED
    BY <1>2, <2>1
<1>4. CASE Gone(h) /\ ~Gone(h)'
  <2>1. Phases[h] = "up"
    BY <1>4 DEF Gone, IInv, OneFront, Phases, ServicePhase
  <2>2. Connected' = Connected \cup {h}
    BY <1>1, <1>4 DEF Connected
  <2> QED
    BY <1>2, <2>1, <2>2 DEF Service!HostNext, Service!Connects, Phases, Connected
<1>5. CASE ~Gone(h) /\ Gone(h)'
  <2>1. h \in Connected /\ Connected' = Connected \ {h}
    BY <1>1, <1>5 DEF Connected
  <2> QED
    BY <1>2, <2>1 DEF Service!HostNext, Service!Disconnects, Phases, Connected
<1> QED
  BY <1>3, <1>4, <1>5 DEF Gone

LEMMA ConnsService ==
  ASSUME IInv, ConnNext
  PROVE  Service!HostNext \/ UNCHANGED <<Phases, Connected>>
BY ConnService DEF ConnNext, Accept, Request, Reply, Upgraded, Leave, OnConn, ConnState

LEMMA ServiceStep ==
  IInv /\ [Next]_vars => [Service!HostNext]_(Service!hostVars)
<1> SUFFICES ASSUME IInv, [Next]_vars
             PROVE  Service!HostNext \/ UNCHANGED <<Phases, Connected>>
  BY DEF Service!hostVars, Phases, Connected
<1> USE DEF IInv, TypeOK
<1>1. ASSUME UNCHANGED <<pc, conn>> PROVE UNCHANGED <<Phases, Connected>>
  BY <1>1 DEF Phases, Connected, Gone
<1>2. CASE ChildNext \/ OtherBinds \/ OtherLeaves \/ UNCHANGED vars
  <2>1. UNCHANGED <<pc, conn>>
    BY <1>2 DEF ChildNext, ChildBinds, ChildDies, ExitHandled, SpawnErrorHandled,
       OtherBinds, OtherLeaves, vars
  <2> QED
    BY <1>1, <2>1
<1>3. ASSUME NEW h \in Hosts, Start(h) PROVE Service!HostNext \/ UNCHANGED <<Phases, Connected>>
  <2>1. PICK next \in {"probing", "failed"} : pc' = [pc EXCEPT ![h] = next]
    BY <1>3 DEF Start
  <2>2. /\ Phases' = [Phases EXCEPT ![h] = ServicePhase(next)]
        /\ Phases[h] = "off" /\ Connected' = Connected
    BY <1>3, <2>1, Moves, SameConnected DEF Start, Phases, ServicePhase, Phase
  <2>3. CASE next = "probing"
    BY <2>2, <2>3 DEF Service!HostNext, Service!Call, Service!Move, Phases, Connected, ServicePhase
  <2>4. CASE next = "failed"
    <3>1. Phases' = Phases
      BY <2>2, <2>4 DEF Phases, ServicePhase
    <3> QED
      BY <2>2, <3>1
  <2> QED
    BY <2>1, <2>3, <2>4
<1>4. ASSUME NEW h \in Hosts,
             \/ Spawn(h) \/ Attempt(h) \/ Answers(h) \/ Healthy(h) \/ Retry(h)
             \/ BreaksOff(h) \/ DeadlinePasses(h) \/ Listen(h)
      PROVE  Service!HostNext \/ UNCHANGED <<Phases, Connected>>
  <2>1. pc[h] \in Poll \cup {"probing", "listening"} /\ UNCHANGED conn
    BY <1>4 DEF Spawn, Attempt, Answers, Healthy, Retry, BreaksOff, DeadlinePasses, InPoll,
       Listen, Poll
  <2>2. CASE pc' = [pc EXCEPT ![h] = "failed"]
    BY <2>1, <2>2, Rejects DEF Service!HostNext
  <2>3. CASE Listen(h) /\ pc' # [pc EXCEPT ![h] = "failed"]
    <3>1. /\ pc' = [pc EXCEPT ![h] = "running"]
          /\ \A g \in Hosts : pc[g] # "running"
      BY <2>3, OwnersAssumption DEF Listen, Fail, OneFront
    <3>2. /\ Phases' = [Phases EXCEPT ![h] = "up"] /\ Phases[h] = "starting"
          /\ \A g \in Hosts : Phases[g] # "up"
      BY <2>1, <3>1, Moves DEF Phases, ServicePhase, Phase, Poll
    <3> QED
      BY <2>1, <3>2, SameConnected DEF Service!HostNext, Service!Resolve, Service!Move,
         Phases, Connected
  <2>4. ASSUME NEW to \in Poll \cup {"listening", "cut"}, pc' = [pc EXCEPT ![h] = to]
        PROVE  UNCHANGED <<Phases, Connected>>
    BY <2>1, <2>4, Starting DEF Phase
  <2>5. \/ pc' = [pc EXCEPT ![h] = "failed"] \/ Listen(h)
        \/ pc' = pc
        \/ \E to \in Poll \cup {"listening", "cut"} : pc' = [pc EXCEPT ![h] = to]
    BY <1>4 DEF Spawn, Attempt, Answers, Healthy, Retry, BreaksOff, DeadlinePasses, Fail, Poll
  <2> QED
    BY <1>1, <2>1, <2>2, <2>3, <2>4, <2>5
<1>5. CASE ConnNext
  BY <1>5, ConnsService
<1>6. ASSUME NEW h \in Hosts, Stop(h) PROVE Service!HostNext
  <2>1. Phases' = [Phases EXCEPT ![h] = "stopping"] /\ Phases[h] = "up"
    BY <1>6, Moves DEF Stop, Phases, ServicePhase, Phase
  <2>2. \A g \in Hosts : Gone(g)' = Gone(g)
    BY <1>6 DEF Stop, Gone
  <2>3. Connected' = Connected
    BY <2>2 DEF Connected
  <2> QED
    BY <2>1, <2>3 DEF Service!HostNext, Service!StopCall, Service!Move, Phases, Connected
<1>7. ASSUME NEW h \in Hosts, Drained(h) PROVE Service!HostNext
  <2>1. Phases' = [Phases EXCEPT ![h] = "off"] /\ Phases[h] = "stopping" /\ Connected' = Connected
    BY <1>7, Moves, SameConnected DEF Drained, Phases, ServicePhase, Phase
  <2>2. h \notin Connected
    BY <1>7 DEF Drained, Connected
  <2> QED
    BY <2>1, <2>2 DEF Service!HostNext, Service!StopDone, Service!Move, Phases, Connected
<1> QED
  BY <1>2, <1>3, <1>4, <1>5, <1>6, <1>7 DEF Next, StartNext, FrontNext

\* Ports, processes, polling and connections together keep the contract that the
\* model of the main process is built on (local-server.ts:227-232, 287-519).
THEOREM ImplementsHostService == Spec => RefinesHostService
BY ServiceInit, ServiceStep, Inductive, PTL
   DEF Spec, RefinesHostService, Service!HostSpec

=============================================================================
