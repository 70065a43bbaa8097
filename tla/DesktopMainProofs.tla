-------------------------- MODULE DesktopMainProofs --------------------------
(***************************************************************************)
(* For any number of tray clicks, IPC calls, window closings, hosts and    *)
(* sessions: the session that can be stopped is the one that is registered *)
(* and beating, and no session is unregistered by two tasks.               *)
(*                                                                         *)
(* Neither is inductive: Registered publishes awaits[t], Unregistered      *)
(* forgets it.  The invariant adds that a task at the gateway holds a      *)
(* session of its own, in the state that its await stands for.             *)
(*                                                                         *)
(* Then, as long as nothing has overlapped: there is one session, the last *)
(* click decides whether there is any, and `running` is the host there is. *)
(*                                                                         *)
(* And with any overlap: a task awaits only what will answer it (for the   *)
(* host this needs that `running` is up or being stopped), and a closed    *)
(* window has a task that ends the process.                                *)
(***************************************************************************)
EXTENDS DesktopMain, TLAPS

AtGateway == {"registering", "unregistering"}

Holds(t, u) == /\ pc[t] \in AtGateway /\ pc[u] \in AtGateway
               /\ awaits[t] = awaits[u]

HoldsSession ==
  \A t \in Tasks :
    /\ pc[t] = "registering" => awaits[t] \in Sessions /\ session[awaits[t]] = "requested"
    /\ pc[t] = "unregistering" => awaits[t] \in Sessions /\ session[awaits[t]] = "closing"
    /\ pc[t] \in {"hosting", "draining"} => awaits[t] \in Hosts

OwnSession == \A t, u \in Tasks : Holds(t, u) => t = u

\* The tasks and the sessions, apart from the rest of the state.
TaskTypes ==
  /\ pc \in [Tasks -> PC]
  /\ awaits \in [Tasks -> Hosts \cup Sessions \cup {None}]
  /\ gatewaySession \in Sessions \cup {None}
  /\ session \in [Sessions -> {"none", "requested", "live", "closing"}]
  /\ beating \in SUBSET Sessions /\ tunnelled \in SUBSET Sessions

TaskInv == TaskTypes /\ SessionsIntact /\ HoldsSession /\ OwnSession

RestTypes ==
  /\ HostTypeOK
  /\ running \in Hosts \cup {None}
  /\ override \in Overrides /\ config \in {"on", "off"}
  /\ menu \in {"none", "on", "off"} /\ choice \in {"none", "on", "off"}
  /\ window \in {"none", "hidden", "shown", "closed"}
  /\ app \in {"alive", "closed", "quit"}

IInv == TaskInv /\ RestTypes

Flags == darwin \in BOOLEAN /\ overlapped \in BOOLEAN

\* The invariant gives the three properties.
LEMMA Strengthens == IInv => SessionsIntact /\ UnregisteredOnce /\ (Flags => TypeOK)
BY DEF IInv, Flags, TaskInv, TaskTypes, RestTypes, TypeOK, OwnSession, Holds, AtGateway,
       UnregisteredOnce, Closing

LEMMA Initially == Init => IInv
<1> SUFFICES ASSUME Init PROVE IInv
  OBVIOUS
<1>1. TaskInv
  BY NoneAssumption DEF Init, TaskInv, TaskTypes, PC, SessionsIntact, HoldsSession,
     OwnSession, Holds, AtGateway
<1>2. RestTypes
  BY DEF Init, RestTypes, HostInit, HostTypeOK, HostPhase
<1> QED BY <1>1, <1>2 DEF IInv

-----------------------------------------------------------------------------
(* The calls of HostService keep its type.                                 *)

LEMMA MoveType ==
  ASSUME HostTypeOK, NEW h \in Hosts, NEW from \in HostPhase, NEW to \in HostPhase,
         Move(h, from, to)
  PROVE  phase' \in [Hosts -> HostPhase]
BY DEF HostTypeOK, Move

LEMMA CallsType ==
  ASSUME HostTypeOK, NEW h \in Hosts,
         \/ Call(h) \/ Resolve(h) \/ Reject(h) \/ StopCall(h) \/ StopDone(h)
         \/ Connects(h) \/ Disconnects(h)
  PROVE  HostTypeOK'
<1>1. CASE \/ Call(h) \/ Resolve(h) \/ Reject(h) \/ StopCall(h) \/ StopDone(h)
  BY <1>1, MoveType DEF Call, Resolve, Reject, StopCall, StopDone, HostTypeOK, HostPhase, Move
<1>2. CASE Connects(h) \/ Disconnects(h)
  BY <1>2 DEF Connects, Disconnects, HostTypeOK
<1> QED BY <1>1, <1>2

-----------------------------------------------------------------------------
(* What a task does to its own await and to a session.                     *)

\* A task that holds no session goes on to an await without one.
LEMMA AwaitsNoSession ==
  ASSUME TaskInv, NEW t \in Tasks, pc[t] \notin AtGateway,
         NEW what \in PC \ AtGateway, NEW x \in Hosts \cup {None},
         what \in {"hosting", "draining"} => x \in Hosts,
         Await(t, what, x), UNCHANGED sessionVars
  PROVE  TaskInv'
<1> USE DEF TaskInv, TaskTypes, Await, sessionVars
<1>1. TaskTypes' /\ SessionsIntact'
  BY DEF SessionsIntact
<1>2. HoldsSession'
  BY DEF HoldsSession, AtGateway
<1>3. OwnSession'
  BY DEF OwnSession, Holds, AtGateway
<1> QED BY <1>1, <1>2, <1>3

\* A task takes a session that nobody holds.
LEMMA EnsuresSession ==
  ASSUME TaskInv, NEW t \in Tasks, pc[t] \notin AtGateway, EnsureGatewaySession(t)
  PROVE  TaskInv'
<1> USE DEF TaskInv
<1>1. CASE gatewaySession = None
  <2>1. PICK s \in Sessions : /\ session[s] = "none"
                              /\ session' = [session EXCEPT ![s] = "requested"]
                              /\ Await(t, "registering", s)
    BY <1>1 DEF EnsureGatewaySession
  <2>2. UNCHANGED <<gatewaySession, beating, tunnelled>>
    BY DEF EnsureGatewaySession
  <2> USE <2>1, <2>2 DEF TaskTypes, Await
  <2>3. TaskTypes'
    BY DEF PC
  <2>4. SessionsIntact'
    BY <1>1 DEF SessionsIntact
  <2>5. HoldsSession'
    BY DEF HoldsSession
  <2>6. OwnSession'
    BY DEF OwnSession, Holds, AtGateway, HoldsSession
  <2> QED BY <2>3, <2>4, <2>5, <2>6
<1>2. CASE gatewaySession # None
  <2>1. Return(t) /\ UNCHANGED sessionVars
    BY <1>2 DEF EnsureGatewaySession, sessionVars
  <2> QED BY <2>1, AwaitsNoSession DEF Return, PC, AtGateway
<1> QED BY <1>1, <1>2

\* The session of a task at the gateway is forgotten.
LEMMA ForgetsSession ==
  ASSUME TaskInv, NEW t \in Tasks, pc[t] \in AtGateway,
         session' = [session EXCEPT ![awaits[t]] = "none"],
         UNCHANGED <<gatewaySession, beating, tunnelled>>,
         NEW what \in PC \ AtGateway, NEW x \in Hosts \cup {None},
         what \in {"hosting", "draining"} => x \in Hosts,
         Await(t, what, x)
  PROVE  TaskInv'
<1> USE DEF TaskInv, TaskTypes, Await
<1>1. awaits[t] \in Sessions /\ session[awaits[t]] \in {"requested", "closing"}
  BY DEF HoldsSession, AtGateway
<1>2. TaskTypes'
  BY <1>1
<1>3. SessionsIntact'
  BY <1>1 DEF SessionsIntact
<1>4. HoldsSession'
  BY <1>1 DEF HoldsSession, OwnSession, Holds, AtGateway
<1>5. OwnSession'
  BY DEF OwnSession, Holds, AtGateway
<1> QED BY <1>2, <1>3, <1>4, <1>5

\* The session of a registering task is published.
LEMMA PublishesSession ==
  ASSUME TaskInv, NEW t \in Tasks, Registered(t)
  PROVE  TaskInv'
<1> DEFINE s == awaits[t]
<1> USE DEF TaskInv, TaskTypes
<1>1. s \in Sessions /\ session[s] = "requested"
  BY DEF HoldsSession, Registered
<1>2. /\ session' = [session EXCEPT ![s] = "live"]
      /\ beating' = beating \cup {s} /\ tunnelled' = tunnelled \cup {s}
      /\ gatewaySession' = s
  BY DEF Registered
<1>3. PICK what \in {"idle", "done"} : Await(t, what, None)
  BY DEF Registered, Return
<1> HIDE DEF s
<1>4. TaskTypes'
  BY <1>1, <1>2, <1>3 DEF Await, PC
<1>5. SessionsIntact'
  BY <1>1, <1>2 DEF SessionsIntact
<1>6. HoldsSession'
  BY <1>1, <1>2, <1>3 DEF HoldsSession, OwnSession, Holds, AtGateway, Await, Registered, s
<1>7. OwnSession'
  BY <1>3 DEF OwnSession, Holds, AtGateway, Await
<1> QED BY <1>4, <1>5, <1>6, <1>7

\* The published session is taken by the task that unregisters it.
LEMMA TakesSession ==
  ASSUME TaskInv, NEW t \in Tasks, pc[t] \notin AtGateway, StopGatewaySession(t)
  PROVE  TaskInv'
<1> USE DEF TaskInv, TaskTypes, StopGatewaySession, Await
<1>1. gatewaySession \in Sessions /\ session[gatewaySession] = "live"
  BY DEF SessionsIntact
<1>2. TaskTypes'
  BY <1>1 DEF PC
<1>3. SessionsIntact'
  BY <1>1 DEF SessionsIntact
<1>4. HoldsSession'
  BY <1>1 DEF HoldsSession, AtGateway
<1>5. OwnSession'
  BY <1>1 DEF OwnSession, Holds, AtGateway, HoldsSession
<1> QED BY <1>2, <1>3, <1>4, <1>5

\* Nothing of it changes.
LEMMA TasksUnchanged ==
  ASSUME TaskInv, UNCHANGED <<taskVars, sessionVars>>
  PROVE  TaskInv'
BY DEF taskVars, sessionVars, TaskInv, TaskTypes, SessionsIntact, HoldsSession,
       OwnSession, Holds

-----------------------------------------------------------------------------
(* The steps                                                               *)

\* Where a task that returns or tears down goes on.
NoSession(t) ==
  \E what \in PC \ AtGateway, x \in Hosts \cup {None} :
    (what \in {"hosting", "draining"} => x \in Hosts) /\ Await(t, what, x)

LEMMA ReturnsAnywhere == ASSUME NEW t \in Tasks, Return(t) PROVE NoSession(t)
BY DEF Return, NoSession, PC, AtGateway

LEMMA TearsDown ==
  ASSUME NEW t \in Tasks, RestTypes, TearDown(t)
  PROVE  NoSession(t) /\ HostTypeOK' /\ running' \in Hosts \cup {None}
         /\ app' \in {"alive", "closed", "quit"}
<1>1. CASE running = None /\ Return(t) /\ Quit({t}) /\ UNCHANGED hostVars
  <2>1. NoSession(t)
    BY <1>1, ReturnsAnywhere
  <2>2. HostTypeOK' /\ running' \in Hosts \cup {None}
    BY <1>1 DEF RestTypes, hostVars, HostTypeOK, TearDown
  <2>3. app' \in {"alive", "closed", "quit"}
    BY <1>1 DEF RestTypes, Quit
  <2> QED BY <2>1, <2>2, <2>3
<1>2. CASE /\ running # None
           /\ Await(t, "draining", running)
           /\ IF phase[running] = "up" THEN StopCall(running) ELSE UNCHANGED hostVars
           /\ UNCHANGED app
  <2>1. running \in Hosts
    BY <1>2 DEF RestTypes
  <2>2. NoSession(t)
    BY <1>2, <2>1 DEF NoSession, PC, AtGateway
  <2>3. HostTypeOK'
    BY <1>2, <2>1, CallsType DEF RestTypes, hostVars, HostTypeOK
  <2>4. UNCHANGED running
    BY DEF TearDown
  <2> QED BY <1>2, <2>2, <2>3, <2>4 DEF RestTypes
<1> QED BY <1>1, <1>2 DEF TearDown

LEMMA MenuType ==
  ASSUME NEW t \in Tasks, NEW saved, NEW shown \in {"none", "on", "off"},
         RebuildMenu(t, saved, shown)
  PROVE  menu' \in {"none", "on", "off"}
BY DEF RebuildMenu, Checkbox

LEMMA ContinueStep ==
  ASSUME IInv, NEW t \in Tasks, Continue(t)
  PROVE  IInv'
<1> USE DEF IInv
<1>1. CASE HostUp(t)
  <2>1. pc[t] \notin AtGateway /\ awaits[t] \in Hosts
    BY <1>1 DEF HostUp, AtGateway, TaskInv, HoldsSession
  <2>2. TaskInv'
    <3>1. CASE EnsureGatewaySession(t)
      BY <2>1, <3>1, EnsuresSession
    <3>2. CASE Return(t) /\ UNCHANGED sessionVars
      BY <2>1, <3>2, ReturnsAnywhere, AwaitsNoSession DEF NoSession
    <3>3. CASE Await(t, "qr", None) /\ UNCHANGED sessionVars
      BY <2>1, <3>3, AwaitsNoSession DEF PC, AtGateway
    <3> QED BY <1>1, <3>1, <3>2, <3>3 DEF HostUp
  <2>3. HostTypeOK'
    BY <1>1, <2>1, CallsType DEF HostUp, RestTypes
  <2>4. menu' \in {"none", "on", "off"}
    BY <1>1, MenuType DEF HostUp, RestTypes
  <2>5. running' \in Hosts \cup {None} /\ UNCHANGED <<override, config, choice, window, app>>
    BY <1>1, <2>1 DEF HostUp
  <2> QED BY <2>2, <2>3, <2>4, <2>5 DEF RestTypes
<1>2. CASE HostFailed(t)
  <2>1. pc[t] \notin AtGateway /\ awaits[t] \in Hosts
    BY <1>2 DEF HostFailed, AtGateway, TaskInv, HoldsSession
  <2>2. TaskInv'
    BY <1>2, <2>1, ReturnsAnywhere, AwaitsNoSession DEF NoSession, HostFailed
  <2>3. HostTypeOK'
    BY <1>2, <2>1, CallsType DEF HostFailed, RestTypes
  <2> QED BY <1>2, <2>2, <2>3 DEF RestTypes, HostFailed, uiVars
<1>3. CASE QrDrawn(t)
  <2>1. pc[t] \notin AtGateway
    BY <1>3 DEF QrDrawn, AtGateway
  <2>2. TaskInv'
    <3>1. CASE EnsureGatewaySession(t)
      BY <2>1, <3>1, EnsuresSession
    <3>2. CASE Return(t) /\ UNCHANGED sessionVars
      BY <2>1, <3>2, ReturnsAnywhere, AwaitsNoSession DEF NoSession
    <3> QED BY <1>3, <3>1, <3>2 DEF QrDrawn
  <2>3. RestTypes'
    BY <1>3 DEF QrDrawn, RestTypes, HostTypeOK, hostVars, uiVars
  <2> QED BY <2>2, <2>3
<1>4. CASE Registered(t)
  <2>1. TaskInv'
    BY <1>4, PublishesSession
  <2>2. menu' \in {"none", "on", "off"}
    BY <1>4, MenuType DEF Registered, RestTypes
  <2>3. RestTypes'
    BY <1>4, <2>2 DEF Registered, RestTypes, HostTypeOK, hostVars
  <2> QED BY <2>1, <2>3
<1>5. CASE RegisterFails(t)
  <2>1. TaskInv'
    BY <1>5, ReturnsAnywhere, ForgetsSession DEF NoSession, RegisterFails, AtGateway
  <2>2. menu' \in {"none", "on", "off"}
    BY <1>5, MenuType DEF RegisterFails, RestTypes
  <2>3. RestTypes'
    BY <1>5, <2>2 DEF RegisterFails, RestTypes, HostTypeOK, hostVars
  <2> QED BY <2>1, <2>3
<1>6. CASE Unregistered(t)
  <2>1. /\ NoSession(t) /\ HostTypeOK' /\ running' \in Hosts \cup {None}
        /\ app' \in {"alive", "closed", "quit"}
    <3>1. CASE Return(t) /\ UNCHANGED <<hostVars, running, app>>
      BY <3>1, ReturnsAnywhere DEF RestTypes, HostTypeOK, hostVars
    <3>2. CASE TearDown(t)
      BY <3>2, TearsDown
    <3> QED BY <1>6, <3>1, <3>2 DEF Unregistered
  <2>2. TaskInv'
    BY <1>6, <2>1, ForgetsSession DEF NoSession, Unregistered, AtGateway
  <2>3. menu' \in {"none", "on", "off"}
    BY <1>6, MenuType DEF Unregistered, RestTypes
  <2>4. UNCHANGED <<override, config, choice, window>>
    BY <1>6 DEF Unregistered
  <2> QED BY <2>1, <2>2, <2>3, <2>4 DEF RestTypes
<1> QED BY <1>1, <1>2, <1>3, <1>4, <1>5, <1>6 DEF Continue, Proceed

LEMMA HostStoppedStep ==
  ASSUME IInv, NEW h \in Hosts, HostStopped(h)
  PROVE  IInv'
<1> DEFINE waiting == {t \in Tasks : pc[t] = "draining" /\ awaits[t] = h}
<1> USE DEF IInv, TaskInv
<1>1. /\ pc' = [t \in Tasks |-> IF t \in waiting THEN "idle" ELSE pc[t]]
      /\ awaits' = [t \in Tasks |-> IF t \in waiting THEN None ELSE awaits[t]]
      /\ UNCHANGED <<sessionVars, uiVars>> /\ running' = None
      /\ StopDone(h) /\ Quit(waiting)
  BY DEF HostStopped
<1>2. \A t \in Tasks : t \notin waiting => pc'[t] = pc[t] /\ awaits'[t] = awaits[t]
  BY <1>1
<1>3. \A t \in waiting : pc[t] = "draining" /\ pc'[t] = "idle"
  BY <1>1
<1>4. TaskTypes'
  BY <1>1 DEF TaskTypes, PC, sessionVars
<1>5. SessionsIntact'
  BY <1>1 DEF SessionsIntact, sessionVars
<1> HIDE DEF waiting
<1>6. HoldsSession'
  BY <1>1, <1>2, <1>3 DEF HoldsSession, sessionVars
<1>7. OwnSession'
  BY <1>2, <1>3 DEF OwnSession, Holds, AtGateway
<1>8. HostTypeOK'
  BY <1>1, CallsType DEF RestTypes
<1>9. app' \in {"alive", "closed", "quit"}
  BY <1>1 DEF Quit, RestTypes
<1> QED BY <1>1, <1>4, <1>5, <1>6, <1>7, <1>8, <1>9 DEF RestTypes, uiVars

LEMMA StopsSessionAndHost ==
  ASSUME IInv, NEW t \in Tasks, pc[t] = "idle", StopSessionAndHost(t)
  PROVE  /\ TaskInv' /\ HostTypeOK' /\ running' \in Hosts \cup {None}
         /\ app' \in {"alive", "closed", "quit"}
<1> USE DEF IInv
<1>1. CASE StopGatewaySession(t) /\ UNCHANGED <<hostVars, running, app>>
  BY <1>1, TakesSession DEF AtGateway, RestTypes, HostTypeOK, hostVars
<1>2. CASE TearDown(t) /\ UNCHANGED sessionVars
  <2>1. /\ NoSession(t) /\ HostTypeOK' /\ running' \in Hosts \cup {None}
        /\ app' \in {"alive", "closed", "quit"}
    BY <1>2, TearsDown
  <2>2. TaskInv'
    BY <1>2, <2>1, AwaitsNoSession DEF NoSession, AtGateway
  <2> QED BY <2>1, <2>2
<1> QED BY <1>1, <1>2 DEF StopSessionAndHost

LEMMA BeginStep ==
  ASSUME IInv, Begin
  PROVE  IInv'
<1> USE DEF IInv
<1>1. CASE AppReady
  <2>1. Boot \in Tasks /\ pc[Boot] = "idle"
    BY <1>1 DEF AppReady, Tasks
  <2>2. HostTypeOK' /\ NoSession(Boot)
    <3>1. ASSUME NEW h \in Hosts, Call(h), Await(Boot, "hosting", h)
          PROVE  HostTypeOK' /\ NoSession(Boot)
      BY <3>1, CallsType DEF RestTypes, NoSession, PC, AtGateway
    <3>2. CASE Return(Boot) /\ UNCHANGED hostVars
      BY <2>1, <3>2, ReturnsAnywhere DEF RestTypes, HostTypeOK, hostVars
    <3> QED BY <1>1, <3>1, <3>2 DEF AppReady
  <2>3. TaskInv'
    BY <1>1, <2>1, <2>2, AwaitsNoSession DEF AppReady, NoSession, AtGateway
  <2> QED BY <1>1, <2>2, <2>3 DEF AppReady, RestTypes
<1>2. ASSUME NEW t \in Clicks, TrayToggle(t) PROVE IInv'
  <2>1. t \in Tasks /\ pc[t] \notin AtGateway
    BY <1>2 DEF TrayToggle, Tasks, AtGateway
  <2>2. PICK value \in {"on", "off"} :
          /\ SetUseGateway(value) /\ choice' = value
          /\ \/ EnsureGatewaySession(t)
             \/ StopGatewaySession(t)
             \/ Return(t) /\ UNCHANGED sessionVars
          /\ RebuildMenu(t, config', value)
    BY <1>2 DEF TrayToggle
  <2>3. TaskInv'
    <3>1. CASE EnsureGatewaySession(t)
      BY <2>1, <3>1, EnsuresSession
    <3>2. CASE StopGatewaySession(t)
      BY <2>1, <3>2, TakesSession
    <3>3. CASE Return(t) /\ UNCHANGED sessionVars
      BY <2>1, <3>3, ReturnsAnywhere, AwaitsNoSession DEF NoSession
    <3> QED BY <2>2, <3>1, <3>2, <3>3
  <2>4. menu' \in {"none", "on", "off"}
    BY <2>1, <2>2, MenuType
  <2>5. config' \in {"on", "off"} /\ choice' \in {"none", "on", "off"}
    BY <2>2 DEF SetUseGateway, WriteConfig, RestTypes
  <2>6. UNCHANGED <<hostVars, running, override, window, app>>
    BY <1>2 DEF TrayToggle
  <2> QED BY <2>3, <2>4, <2>5, <2>6 DEF RestTypes, HostTypeOK, hostVars
<1>3. ASSUME NEW t \in Starts, HostStart(t) PROVE IInv'
  <2>1. t \in Tasks /\ pc[t] = "idle"
    BY <1>3 DEF HostStart, Tasks
  <2>2. HostTypeOK' /\ NoSession(t)
    <3>1. ASSUME NEW h \in Hosts, Call(h), Await(t, "hosting", h)
          PROVE  HostTypeOK' /\ NoSession(t)
      BY <3>1, CallsType DEF RestTypes, NoSession, PC, AtGateway
    <3>2. CASE Await(t, "qr", None) /\ UNCHANGED hostVars
      BY <3>2 DEF RestTypes, HostTypeOK, hostVars, NoSession, PC, AtGateway
    <3> QED BY <1>3, <3>1, <3>2 DEF HostStart
  <2>3. TaskInv'
    BY <1>3, <2>1, <2>2, AwaitsNoSession DEF HostStart, NoSession, AtGateway
  <2> QED BY <1>3, <2>2, <2>3 DEF HostStart, RestTypes, uiVars
<1>4. ASSUME NEW t \in Stops, HostStop(t) PROVE IInv'
  <2>1. t \in Tasks /\ pc[t] = "idle" /\ StopSessionAndHost(t)
    BY <1>4 DEF HostStop, Tasks
  <2> QED BY <1>4, <2>1, StopsSessionAndHost DEF HostStop, RestTypes, uiVars
<1>5. ASSUME NEW t \in Closings, CloseWindow(t) PROVE IInv'
  <2>1. t \in Tasks /\ pc[t] = "idle" /\ StopSessionAndHost(t)
    BY <1>5 DEF CloseWindow, Tasks
  <2> QED BY <1>5, <2>1, StopsSessionAndHost DEF CloseWindow, RestTypes
<1> QED BY <1>1, <1>2, <1>3, <1>4, <1>5 DEF Begin

LEMMA UserStep ==
  ASSUME IInv, User
  PROVE  IInv'
<1> USE DEF IInv
<1>1. UNCHANGED <<taskVars, sessionVars, running>>
  BY DEF User, ShowWindow, SecondLaunch, Activate, OnlyWindow, TrayQuit, SetGateway, Clients
<1>2. TaskInv'
  BY <1>1, TasksUnchanged
<1>3. HostTypeOK'
  <2>1. CASE Clients
    BY <2>1, CallsType DEF Clients, RestTypes
  <2>2. CASE UNCHANGED hostVars
    BY <2>2 DEF hostVars, RestTypes, HostTypeOK
  <2> QED BY <2>1, <2>2 DEF User, ShowWindow, SecondLaunch, Activate, OnlyWindow, TrayQuit,
          SetGateway
<1>4. UNCHANGED <<override, menu, choice>> /\ config' \in {config, "on"}
  BY DEF User, ShowWindow, SecondLaunch, Activate, OnlyWindow, TrayQuit, SetGateway, WriteConfig,
     Clients, uiVars
<1>5. window' \in {"none", "hidden", "shown", "closed"} /\ app' \in {"alive", "closed", "quit"}
  BY DEF User, ShowWindow, SecondLaunch, Activate, OnlyWindow, TrayQuit, SetGateway, Clients,
         uiVars, RestTypes
<1> QED BY <1>1, <1>2, <1>3, <1>4, <1>5 DEF RestTypes

LEMMA Step == IInv /\ [Next]_vars => IInv'
<1> SUFFICES ASSUME IInv, [Next]_vars PROVE IInv'
  OBVIOUS
<1>1. CASE Next
  BY <1>1, BeginStep, ContinueStep, HostStoppedStep, UserStep DEF Next
<1>2. CASE UNCHANGED vars
  <2>1. TaskInv'
    BY <1>2, TasksUnchanged DEF vars, IInv
  <2> QED BY <1>2, <2>1 DEF vars, IInv, RestTypes, HostTypeOK, hostVars, uiVars
<1> QED BY <1>1, <1>2

\* The step notes an overlap; the platform stays.
LEMMA FlagsStep == Flags /\ [Next]_vars => Flags'
BY DEF Flags, Next, Note, vars

\* However many tasks overlap: every variable keeps its type.
THEOREM Typed == Spec => []TypeOK
<1>1. Init => Flags
  BY DEF Init, Flags
<1> QED BY <1>1, Initially, Step, FlagsStep, Strengthens, PTL DEF Spec

\* However many tasks overlap: gatewaySession points to a registered session that
\* beats and tunnels, and a session that is being unregistered does neither.
THEOREM SessionsAreIntact == Spec => []SessionsIntact
BY Initially, Step, Strengthens, PTL DEF Spec

\* However many tasks overlap: no session is unregistered by two of them.
THEOREM UnregistersOnce == Spec => []UnregisteredOnce
BY Initially, Step, Strengthens, PTL DEF Spec

-----------------------------------------------------------------------------
(* Without overlaps: what a step does to the session pointer.              *)

Begins(t) == /\ pc[t] \notin AtGateway
             /\ gatewaySession = None /\ UNCHANGED gatewaySession
             /\ \E s \in Sessions : /\ session' = [session EXCEPT ![s] = "requested"]
                                    /\ Await(t, "registering", s)

Publishes(t) == /\ pc[t] = "registering"
                /\ session' = [session EXCEPT ![awaits[t]] = "live"]
                /\ gatewaySession' = awaits[t]
                /\ Return(t)

Forgets(t) == /\ pc[t] \in AtGateway /\ UNCHANGED gatewaySession
              /\ session' = [session EXCEPT ![awaits[t]] = "none"]
              /\ NoSession(t)

Takes(t) == pc[t] \notin AtGateway /\ StopGatewaySession(t)

Stays == /\ UNCHANGED <<gatewaySession, session>>
         /\ \A t \in Tasks : pc[t] \in AtGateway \/ pc'[t] \in AtGateway
                              => pc'[t] = pc[t] /\ awaits'[t] = awaits[t]

Moves == Stays \/ \E t \in Tasks : Begins(t) \/ Publishes(t) \/ Forgets(t) \/ Takes(t)

\* A task away from the gateway that goes on without a session.
LEMMA Apart ==
  ASSUME IInv, NEW t \in Tasks, pc[t] \notin AtGateway, NoSession(t), UNCHANGED sessionVars
  PROVE  Stays
BY DEF IInv, TaskInv, TaskTypes, NoSession, Await, Stays, sessionVars, AtGateway

LEMMA Ensures ==
  ASSUME IInv, NEW t \in Tasks, pc[t] \notin AtGateway, EnsureGatewaySession(t)
  PROVE  Begins(t) \/ Stays
<1>1. CASE gatewaySession = None
  BY <1>1 DEF EnsureGatewaySession, Begins
<1>2. CASE gatewaySession # None
  BY <1>2, Apart, ReturnsAnywhere DEF EnsureGatewaySession, sessionVars
<1> QED BY <1>1, <1>2

LEMMA StopsBoth ==
  ASSUME IInv, NEW t \in Tasks, pc[t] = "idle", StopSessionAndHost(t)
  PROVE  Takes(t) \/ Stays
<1>1. CASE TearDown(t) /\ UNCHANGED sessionVars
  BY <1>1, TearsDown, Apart DEF IInv, AtGateway
<1> QED BY <1>1 DEF StopSessionAndHost, Takes, AtGateway

LEMMA PointerSteps == IInv /\ [Next]_vars => Moves
<1> SUFFICES ASSUME IInv, [Next]_vars PROVE Moves
  OBVIOUS
<1>1. CASE AppReady
  <2>1. Boot \in Tasks /\ NoSession(Boot)
    BY <1>1, ReturnsAnywhere DEF AppReady, NoSession, PC, AtGateway, Tasks
  <2> QED BY <1>1, <2>1, Apart DEF AppReady, AtGateway, Moves
<1>2. ASSUME NEW t \in Clicks, TrayToggle(t) PROVE Moves
  BY <1>2, Ensures, ReturnsAnywhere, Apart DEF TrayToggle, Tasks, AtGateway, Moves, Takes
<1>3. ASSUME NEW t \in Starts, HostStart(t) PROVE Moves
  <2>1. t \in Tasks /\ NoSession(t)
    BY <1>3 DEF HostStart, NoSession, PC, AtGateway, Tasks
  <2> QED BY <1>3, <2>1, Apart DEF HostStart, AtGateway, Moves
<1>4. ASSUME NEW t \in Stops \cup Closings, pc[t] = "idle", StopSessionAndHost(t) PROVE Moves
  BY <1>4, StopsBoth DEF Tasks, Moves
<1>5. ASSUME NEW t \in Tasks, Continue(t) PROVE Moves
  <2>1. CASE HostUp(t)
    <3>1. pc[t] \notin AtGateway /\ (Await(t, "qr", None) => NoSession(t))
      BY <2>1 DEF HostUp, AtGateway, NoSession, PC
    <3> QED BY <2>1, <3>1, Ensures, ReturnsAnywhere, Apart DEF HostUp, Moves
  <2>2. CASE HostFailed(t)
    BY <2>2, ReturnsAnywhere, Apart DEF HostFailed, Moves, AtGateway
  <2>3. CASE QrDrawn(t)
    BY <2>3, Ensures, ReturnsAnywhere, Apart DEF QrDrawn, Moves, AtGateway
  <2>4. CASE Registered(t)
    BY <2>4 DEF Registered, Publishes, Moves
  <2>5. CASE RegisterFails(t)
    BY <2>5, ReturnsAnywhere DEF RegisterFails, Forgets, Moves, AtGateway
  <2>6. CASE Unregistered(t)
    <3>1. NoSession(t)
      BY <2>6, ReturnsAnywhere, TearsDown DEF Unregistered, IInv
    <3> QED BY <2>6, <3>1 DEF Unregistered, Forgets, Moves, AtGateway
  <2> QED BY <1>5, <2>1, <2>2, <2>3, <2>4, <2>5, <2>6 DEF Continue, Proceed
<1>6. ASSUME NEW h \in Hosts, HostStopped(h) PROVE Moves
  BY <1>6 DEF HostStopped, IInv, TaskInv, TaskTypes, Stays, Moves, AtGateway, sessionVars
<1>7. CASE User \/ UNCHANGED vars
  BY <1>7 DEF User, ShowWindow, SecondLaunch, Activate, OnlyWindow, TrayQuit, SetGateway, Clients,
     vars, sessionVars, taskVars, Stays, Moves
<1> QED BY <1>1, <1>2, <1>3, <1>4, <1>5, <1>6, <1>7
        DEF Next, Begin, HostStop, CloseWindow

\* The choice is the last click's, and a click that switches off leaves no pointer.
LEMMA ChoiceSteps ==
  IInv /\ [Next]_vars => UNCHANGED choice \/ choice' = "on" \/ gatewaySession' = None
<1> SUFFICES ASSUME IInv, [Next]_vars
             PROVE  UNCHANGED choice \/ choice' = "on" \/ gatewaySession' = None
  OBVIOUS
<1>1. ASSUME NEW t \in Clicks, TrayToggle(t) PROVE choice' = "on" \/ gatewaySession' = None
  BY <1>1 DEF TrayToggle, StopGatewaySession, sessionVars
<1>2. ASSUME AppReady \/ (\E t \in Starts : HostStart(t)) \/ (\E t \in Stops : HostStop(t))
             \/ (\E t \in Closings : CloseWindow(t))
      PROVE  UNCHANGED choice
  BY <1>2 DEF AppReady, HostStart, HostStop, CloseWindow, uiVars
<1>3. ASSUME NEW t \in Tasks, Continue(t) PROVE UNCHANGED choice
  BY <1>3 DEF Continue, Proceed, HostUp, HostFailed, QrDrawn, Registered, RegisterFails, Unregistered, uiVars
<1>4. ASSUME NEW h \in Hosts, HostStopped(h) PROVE UNCHANGED choice
  BY <1>4 DEF HostStopped, uiVars
<1>5. CASE User \/ UNCHANGED vars
  BY <1>5 DEF User, ShowWindow, SecondLaunch, Activate, OnlyWindow, TrayQuit, SetGateway, Clients,
     vars, uiVars
<1> QED BY <1>1, <1>2, <1>3, <1>4, <1>5 DEF Next, Begin

-----------------------------------------------------------------------------
(* Without overlaps: one session, and the last click decides.              *)

Held(s) == \E t \in Tasks : pc[t] \in AtGateway /\ awaits[t] = s

PointerInv ==
  /\ \A s \in Sessions : session[s] \in {"requested", "closing"} => Held(s)
  /\ ~overlapped =>
       /\ Serial
       /\ OneSession
       /\ \A t \in Tasks : pc[t] = "registering" => gatewaySession = None
       /\ choice = "off" => gatewaySession = None

LEMMA Parts ==
  ASSUME PointerInv, ~overlapped
  PROVE  /\ OneSession /\ Serial
         /\ \A t \in Tasks : pc[t] = "registering" => gatewaySession = None
         /\ choice = "off" => gatewaySession = None
BY DEF PointerInv

LEMMA PointerInit == Init => PointerInv
BY DEF Init, PointerInv, Serial, OneSession, HostInit, Held

\* Every session that is asked for or given up has its task.
LEMMA HeldStep ==
  ASSUME IInv, Moves, IInv',
         \A s \in Sessions : session[s] \in {"requested", "closing"} => Held(s)
  PROVE  \A s \in Sessions : session'[s] \in {"requested", "closing"} => Held(s)'
<1> USE DEF IInv, TaskInv, TaskTypes, Held
<1>1. CASE Stays
  BY <1>1 DEF Stays
<1>2. ASSUME NEW t \in Tasks, Begins(t) \/ Takes(t)
      PROVE  \A s \in Sessions : session'[s] \in {"requested", "closing"} => Held(s)'
  BY <1>2 DEF Begins, Takes, StopGatewaySession, Await, AtGateway
<1>3. ASSUME NEW t \in Tasks, Publishes(t) \/ Forgets(t)
      PROVE  \A s \in Sessions : session'[s] \in {"requested", "closing"} => Held(s)'
  BY <1>3 DEF Publishes, Forgets, Return, NoSession, Await, AtGateway
<1> QED BY <1>1, <1>2, <1>3 DEF Moves

LEMMA PointerStep == IInv /\ PointerInv /\ [Next]_vars => PointerInv'
<1> SUFFICES ASSUME IInv, PointerInv, [Next]_vars PROVE PointerInv'
  OBVIOUS
<1>1. IInv' /\ Moves
  BY Step, PointerSteps
<1>2. \A s \in Sessions : session'[s] \in {"requested", "closing"} => Held(s)'
  BY <1>1, HeldStep DEF PointerInv
<1>3. ~overlapped' => ~overlapped /\ Serial'
  <2>1. CASE Next
    BY <2>1 DEF Next, Note
  <2>2. CASE UNCHANGED vars
    <3>1. Serial' <=> Serial
      BY <2>2 DEF vars, hostVars, taskVars, uiVars, Serial
    <3> QED BY <2>2, <3>1 DEF vars, PointerInv
  <2> QED BY <2>1, <2>2
<1>4. ASSUME ~overlapped'
      PROVE  /\ OneSession'
             /\ \A t \in Tasks : pc'[t] = "registering" => gatewaySession' = None
  <2>1. /\ OneSession /\ Serial'
        /\ \A t \in Tasks : pc[t] = "registering" => gatewaySession = None
    <3>1. ~overlapped /\ Serial'
      BY <1>3, <1>4
    <3> QED BY <3>1, Parts
  <2>2. \A t, u \in Tasks : pc'[t] = "registering" /\ pc'[u] = "registering" => t = u
    BY <2>1 DEF Serial
  <2> USE DEF IInv, TaskInv, TaskTypes
  <2>3. CASE Stays
    BY <2>1, <2>3 DEF Stays, OneSession, AtGateway
  <2>4. ASSUME NEW t \in Tasks, Begins(t)
        PROVE  /\ OneSession'
               /\ \A u \in Tasks : pc'[u] = "registering" => gatewaySession' = None
    BY <2>1, <2>4 DEF Begins, OneSession, Await
  <2>5. ASSUME NEW t \in Tasks, Publishes(t)
        PROVE  /\ OneSession'
               /\ \A u \in Tasks : pc'[u] = "registering" => gatewaySession' = None
    <3>1. gatewaySession = None /\ awaits[t] \in Sessions
      BY <2>1, <2>5 DEF Publishes, HoldsSession
    <3>2. \A s \in Sessions : session[s] # "live"
      BY <2>1, <3>1, NoneAssumption DEF OneSession
    <3>3. OneSession'
      BY <2>5, <3>1, <3>2 DEF Publishes, OneSession
    <3>4. \A u \in Tasks : pc'[u] # "registering"
      <4>1. \A u \in Tasks \ {t} : pc'[u] = pc[u]
        BY <2>5 DEF Publishes, Return, Await
      <4>2. pc'[t] # "registering"
        BY <2>5 DEF Publishes, Return, Await
      <4>3. \A u \in Tasks \ {t} : pc[u] # "registering"
        BY <1>3, <1>4, <2>5 DEF Publishes, PointerInv, Serial
      <4> QED BY <4>1, <4>2, <4>3
    <3> QED BY <3>3, <3>4
  <2>6. ASSUME NEW t \in Tasks, Forgets(t)
        PROVE  /\ OneSession'
               /\ \A u \in Tasks : pc'[u] = "registering" => gatewaySession' = None
    BY <2>1, <2>6 DEF Forgets, NoSession, Await, OneSession, AtGateway
  <2>7. ASSUME NEW t \in Tasks, Takes(t)
        PROVE  /\ OneSession'
               /\ \A u \in Tasks : pc'[u] = "registering" => gatewaySession' = None
    BY <2>1, <2>7 DEF Takes, StopGatewaySession, Await, OneSession
  <2> QED BY <1>1, <2>3, <2>4, <2>5, <2>6, <2>7 DEF Moves
<1>5. ASSUME ~overlapped', choice' = "off" PROVE gatewaySession' = None
  <2>1. CASE UNCHANGED choice
    <3>1. gatewaySession = None /\ \A t \in Tasks : pc[t] # "registering"
      <4>1. ~overlapped
        BY <1>3, <1>5
      <4>2. Serial /\ choice = "off" /\ gatewaySession = None
        BY <1>5, <2>1, <4>1, Parts
      <4> QED BY <4>2 DEF Serial
    <3> QED BY <1>1, <3>1 DEF Moves, Stays, Begins, Publishes, Forgets, Takes, StopGatewaySession
  <2> QED BY <1>5, <2>1, ChoiceSteps
<1> QED BY <1>2, <1>3, <1>4, <1>5 DEF PointerInv

\* However many tasks there are: one session, while no two registrations overlap.
THEOREM OneSessionIfSerial == Spec => []SerialOneSession
<1>1. PointerInv => SerialOneSession
  BY DEF PointerInv, SerialOneSession
<1> QED BY <1>1, Initially, Step, PointerInit, PointerStep, PTL DEF Spec

\* However many tasks there are: off means off, while no registration overlaps it.
THEOREM OptOutIfSerial == Spec => []SerialOptOut
<1>1. IInv /\ PointerInv => SerialOptOut
  <2> SUFFICES ASSUME IInv, PointerInv, ~overlapped, NothingInFlight, choice = "off",
                      NEW s \in Sessions
               PROVE  session[s] = "none"
    BY DEF SerialOptOut, OptOutHonoured
  <2>1. session[s] # "live"
    <3>1. OneSession /\ gatewaySession = None
      BY Parts
    <3> QED BY <3>1, NoneAssumption DEF OneSession
  <2>2. session[s] \notin {"requested", "closing"}
    BY DEF PointerInv, Held, NothingInFlight, AtGateway
  <2> QED BY <2>1, <2>2 DEF IInv, TaskInv, TaskTypes
<1> QED BY <1>1, Initially, Step, PointerInit, PointerStep, PTL DEF Spec

-----------------------------------------------------------------------------
(* Without overlaps: the host that is up or draining is `running`.         *)

HostInv == ~overlapped => Serial /\ HostKept

LEMMA HostInit0 == Init => HostInv
BY DEF Init, HostInv, Serial, HostKept, HostInit

HostCalls == \E h \in Hosts : Call(h) \/ Reject(h) \/ Connects(h) \/ Disconnects(h)

\* A step brings up a host and remembers it, stops the one it remembers, is done
\* with one, or leaves both alone.
HostMoves ==
  \/ UNCHANGED running /\ (HostCalls \/ UNCHANGED phase)
  \/ \E h \in Hosts : Resolve(h) /\ running' = h
  \/ running \in Hosts /\ StopCall(running) /\ UNCHANGED running
  \/ \E h \in Hosts : StopDone(h) /\ running' = None

LEMMA TearDownMoves == ASSUME IInv, NEW t \in Tasks, TearDown(t) PROVE HostMoves
BY DEF IInv, RestTypes, TearDown, HostMoves, hostVars

LEMMA HostSteps == IInv /\ [Next]_vars => HostMoves
<1> SUFFICES ASSUME IInv, [Next]_vars PROVE HostMoves
  OBVIOUS
<1>1. CASE AppReady
  BY <1>1 DEF AppReady, HostMoves, HostCalls, hostVars
<1>2. ASSUME NEW t \in Clicks, TrayToggle(t) PROVE HostMoves
  BY <1>2 DEF TrayToggle, HostMoves, hostVars
<1>3. ASSUME NEW t \in Starts, HostStart(t) PROVE HostMoves
  BY <1>3 DEF HostStart, HostMoves, HostCalls, hostVars
<1>4. ASSUME NEW t \in Stops \cup Closings, StopSessionAndHost(t) PROVE HostMoves
  BY <1>4, TearDownMoves DEF StopSessionAndHost, HostMoves, hostVars, Tasks
<1>5. ASSUME NEW t \in Tasks, Continue(t) PROVE HostMoves
  <2>1. CASE HostUp(t) \/ HostFailed(t)
    <3>1. awaits[t] \in Hosts
      BY <2>1 DEF IInv, TaskInv, HoldsSession, HostUp, HostFailed
    <3> QED BY <2>1, <3>1 DEF HostUp, HostFailed, HostMoves, HostCalls
  <2>2. CASE QrDrawn(t) \/ Registered(t) \/ RegisterFails(t)
    BY <2>2 DEF QrDrawn, Registered, RegisterFails, HostMoves, hostVars
  <2>3. CASE Unregistered(t)
    BY <2>3, TearDownMoves DEF Unregistered, HostMoves, hostVars
  <2> QED BY <1>5, <2>1, <2>2, <2>3 DEF Continue, Proceed
<1>6. ASSUME NEW h \in Hosts, HostStopped(h) PROVE HostMoves
  BY <1>6 DEF HostStopped, HostMoves
<1>7. CASE User \/ UNCHANGED vars
  BY <1>7 DEF User, ShowWindow, SecondLaunch, Activate, OnlyWindow, TrayQuit, SetGateway, Clients,
     vars, hostVars, HostMoves, HostCalls
<1> QED BY <1>1, <1>2, <1>3, <1>4, <1>5, <1>6, <1>7
        DEF Next, Begin, HostStop, CloseWindow

LEMMA HostStep == IInv /\ HostInv /\ [Next]_vars => HostInv'
<1> SUFFICES ASSUME IInv, HostInv, [Next]_vars, ~overlapped' PROVE Serial' /\ HostKept'
  BY DEF HostInv
<1>1. ~overlapped /\ Serial'
  <2>1. CASE UNCHANGED vars
    <3>1. Serial' <=> Serial
      BY <2>1 DEF vars, hostVars, taskVars, uiVars, Serial
    <3> QED BY <2>1, <3>1 DEF vars, HostInv
  <2> QED BY <2>1 DEF Next, Note
<1>2. HostKept /\ \A h, g \in Hosts : phase[h] # "off" /\ phase[g] # "off" => h = g
  BY <1>1 DEF HostInv, Serial
<1>3. HostKept'
  BY <1>2, HostSteps DEF HostMoves, HostCalls, Call, Reject, Resolve, StopCall, StopDone,
     Connects, Disconnects, Move, HostKept, IInv, RestTypes, HostTypeOK
<1> QED BY <1>1, <1>3

\* However many tasks there are: no host is lost, while no two overlap.
THEOREM HostKeptIfSerial == Spec => []SerialHostKept
<1>1. HostInv => SerialHostKept
  BY DEF HostInv, SerialHostKept
<1> QED BY <1>1, Initially, Step, HostInit0, HostStep, PTL DEF Spec

-----------------------------------------------------------------------------
(* Hosts and the tasks that await them, with any overlaps.                 *)

AtHost == {"hosting", "draining"}

\* What `running` points to is up or being stopped, and every await of a host is one
\* that the host will answer.
HostAwaits ==
  /\ running # None => phase[running] \in {"up", "stopping"}
  /\ \A t \in Tasks :
       /\ pc[t] = "hosting" => phase[awaits[t]] = "starting"
       /\ pc[t] = "draining" => phase[awaits[t]] = "stopping"
  /\ \A t, u \in Tasks : pc[t] = "hosting" /\ pc[u] = "hosting" /\ awaits[t] = awaits[u] => t = u
  /\ \A h \in Hosts :
       /\ phase[h] = "starting" => \E t \in Tasks : pc[t] = "hosting" /\ awaits[t] = h
       /\ phase[h] = "stopping" => \E t \in Tasks : pc[t] = "draining" /\ awaits[t] = h

\* The task goes on to an await that is not of a host.
LeavesHost(t) == \E what \in PC \ AtHost, x \in Hosts \cup Sessions \cup {None} : Await(t, what, x)

Quiet == /\ UNCHANGED <<phase, running>>
         /\ \A t \in Tasks : pc[t] \in AtHost \/ pc'[t] \in AtHost
                              => pc'[t] = pc[t] /\ awaits'[t] = awaits[t]

Calls(t) == /\ pc[t] \notin AtHost /\ UNCHANGED running
            /\ \E h \in Hosts : Call(h) /\ Await(t, "hosting", h)

Answered(t) == /\ pc[t] = "hosting" /\ LeavesHost(t)
               /\ \/ Resolve(awaits[t]) /\ running' = awaits[t]
                  \/ Reject(awaits[t]) /\ UNCHANGED running

Drains(t) == /\ pc[t] \notin AtHost /\ running \in Hosts /\ UNCHANGED running
             /\ Await(t, "draining", running)
             /\ StopCall(running) \/ (phase[running] # "up" /\ UNCHANGED phase)

HostTaskMoves ==
  Quiet \/ (\E t \in Tasks : Calls(t) \/ Answered(t) \/ Drains(t)) \/ \E h \in Hosts : HostStopped(h)

LEMMA AwaitsInit == Init => HostAwaits
BY NoneAssumption DEF Init, HostAwaits, HostInit

LEMMA LeavesQuietly ==
  ASSUME IInv, NEW t \in Tasks, pc[t] \notin AtHost, LeavesHost(t), UNCHANGED <<phase, running>>
  PROVE  Quiet
BY DEF IInv, TaskInv, TaskTypes, LeavesHost, Await, Quiet

LEMMA ReturnLeaves == ASSUME NEW t \in Tasks, Return(t) PROVE LeavesHost(t)
BY DEF Return, LeavesHost, PC, AtHost

LEMMA EnsureLeaves == ASSUME NEW t \in Tasks, EnsureGatewaySession(t) PROVE LeavesHost(t)
<1>1. CASE gatewaySession = None
  BY <1>1 DEF EnsureGatewaySession, LeavesHost, PC, AtHost
<1> QED BY <1>1, ReturnLeaves DEF EnsureGatewaySession

LEMMA StopLeaves ==
  ASSUME IInv, NEW t \in Tasks, StopGatewaySession(t)
  PROVE  LeavesHost(t)
BY DEF IInv, TaskInv, TaskTypes, StopGatewaySession, LeavesHost, PC, AtHost

LEMMA TearDownDrains ==
  ASSUME IInv, NEW t \in Tasks, pc[t] \notin AtHost, TearDown(t)
  PROVE  Quiet \/ Drains(t)
<1>1. CASE running = None
  BY <1>1, LeavesQuietly, ReturnLeaves DEF TearDown, hostVars
<1>2. CASE running # None
  BY <1>2 DEF TearDown, Drains, hostVars, IInv, RestTypes
<1> QED BY <1>1, <1>2

LEMMA HostTaskSteps == IInv /\ [Next]_vars => HostTaskMoves
<1> SUFFICES ASSUME IInv, [Next]_vars PROVE HostTaskMoves
  OBVIOUS
<1>1. CASE AppReady
  <2>1. Boot \in Tasks /\ pc[Boot] \notin AtHost
    BY <1>1 DEF AppReady, Tasks, AtHost
  <2> QED BY <1>1, <2>1, LeavesQuietly, ReturnLeaves DEF AppReady, Calls, HostTaskMoves, hostVars
<1>2. ASSUME NEW t \in Clicks, TrayToggle(t) PROVE HostTaskMoves
  <2>1. t \in Tasks /\ pc[t] \notin AtHost /\ UNCHANGED <<phase, running>>
    BY <1>2 DEF TrayToggle, Tasks, AtHost, hostVars
  <2>2. LeavesHost(t)
    BY <1>2, <2>1, EnsureLeaves, StopLeaves, ReturnLeaves DEF TrayToggle
  <2> QED BY <2>1, <2>2, LeavesQuietly DEF HostTaskMoves
<1>3. ASSUME NEW t \in Starts, HostStart(t) PROVE HostTaskMoves
  <2>1. t \in Tasks /\ pc[t] \notin AtHost /\ UNCHANGED running
    BY <1>3 DEF HostStart, Tasks, AtHost
  <2>2. Await(t, "qr", None) => LeavesHost(t)
    BY DEF LeavesHost, PC, AtHost
  <2> QED BY <1>3, <2>1, <2>2, LeavesQuietly DEF HostStart, Calls, HostTaskMoves, hostVars
<1>4. ASSUME NEW t \in Stops \cup Closings, pc[t] = "idle", StopSessionAndHost(t)
      PROVE  HostTaskMoves
  <2>1. t \in Tasks /\ pc[t] \notin AtHost
    BY <1>4 DEF Tasks, AtHost
  <2>2. CASE StopGatewaySession(t) /\ UNCHANGED <<hostVars, running, app>>
    BY <2>1, <2>2, StopLeaves, LeavesQuietly DEF HostTaskMoves, hostVars
  <2>3. CASE TearDown(t)
    BY <2>1, <2>3, TearDownDrains DEF HostTaskMoves
  <2> QED BY <1>4, <2>2, <2>3 DEF StopSessionAndHost
<1>5. ASSUME NEW t \in Tasks, Continue(t) PROVE HostTaskMoves
  <2>1. CASE HostUp(t)
    <3>1. Await(t, "qr", None) => LeavesHost(t)
      BY DEF LeavesHost, PC, AtHost
    <3>2. LeavesHost(t)
      BY <2>1, <3>1, EnsureLeaves, ReturnLeaves DEF HostUp
    <3> QED BY <2>1, <3>2 DEF HostUp, Answered, HostTaskMoves
  <2>2. CASE HostFailed(t)
    BY <2>2, ReturnLeaves DEF HostFailed, Answered, HostTaskMoves
  <2>3. CASE QrDrawn(t)
    BY <2>3, EnsureLeaves, ReturnLeaves, LeavesQuietly DEF QrDrawn, AtHost, HostTaskMoves, hostVars
  <2>4. CASE Registered(t) \/ RegisterFails(t)
    BY <2>4, ReturnLeaves, LeavesQuietly DEF Registered, RegisterFails, AtHost, HostTaskMoves, hostVars
  <2>5. CASE Unregistered(t)
    <3>1. pc[t] \notin AtHost
      BY <2>5 DEF Unregistered, AtHost
    <3> QED BY <2>5, <3>1, ReturnLeaves, LeavesQuietly, TearDownDrains
            DEF Unregistered, HostTaskMoves, hostVars
  <2> QED BY <1>5, <2>1, <2>2, <2>3, <2>4, <2>5 DEF Continue, Proceed
<1>6. CASE User \/ UNCHANGED vars
  <2>1. UNCHANGED <<pc, awaits, running, phase>>
    BY <1>6 DEF User, ShowWindow, SecondLaunch, Activate, OnlyWindow, TrayQuit, SetGateway, Clients,
       Connects, Disconnects, vars, hostVars, taskVars
  <2> QED BY <2>1 DEF Quiet, HostTaskMoves
<1> QED BY <1>1, <1>2, <1>3, <1>4, <1>5, <1>6
        DEF Next, Begin, HostStop, CloseWindow, HostTaskMoves

LEMMA AwaitsStep == IInv /\ HostAwaits /\ [Next]_vars => HostAwaits'
<1> SUFFICES ASSUME IInv, HostAwaits, [Next]_vars PROVE HostAwaits'
  OBVIOUS
<1>1. /\ pc \in [Tasks -> PC] /\ awaits \in [Tasks -> Hosts \cup Sessions \cup {None}]
      /\ phase \in [Hosts -> HostPhase] /\ running \in Hosts \cup {None}
      /\ \A t \in Tasks : pc[t] \in AtHost => awaits[t] \in Hosts
      /\ \A t \in Tasks : pc'[t] \in AtHost => awaits'[t] \in Hosts
  BY Step DEF IInv, TaskInv, TaskTypes, RestTypes, HostTypeOK, HoldsSession, AtHost
<1> USE NoneAssumption, <1>1 DEF HostAwaits, AtHost
<1>2. CASE Quiet
  BY <1>2 DEF Quiet
<1>3. ASSUME NEW t \in Tasks, Calls(t) PROVE HostAwaits'
  BY <1>3 DEF Calls, Call, Move, Await
<1>4. ASSUME NEW t \in Tasks, Answered(t) PROVE HostAwaits'
  <2>1. PICK what \in PC \ AtHost, x \in Hosts \cup Sessions \cup {None} : Await(t, what, x)
    BY <1>4 DEF Answered, LeavesHost
  <2>2. PICK to \in {"up", "off"} :
          /\ Move(awaits[t], "starting", to)
          /\ running' = IF to = "up" THEN awaits[t] ELSE running
    BY <1>4 DEF Answered, Resolve, Reject
  <2> QED BY <1>4, <2>1, <2>2 DEF Answered, Await, Move
<1>5. ASSUME NEW t \in Tasks, Drains(t) PROVE HostAwaits'
  BY <1>5 DEF Drains, StopCall, Move, Await
<1>6. ASSUME NEW h \in Hosts, HostStopped(h) PROVE HostAwaits'
  BY <1>6 DEF HostStopped, StopDone, Move
<1> QED BY <1>2, <1>3, <1>4, <1>5, <1>6, HostTaskSteps DEF HostTaskMoves

\* However many tasks overlap: each of them waits for something that is under way, and
\* whatever is under way has a task that waits for it.
THEOREM AwaitsAreAnswered == Spec => []EveryAwaitIsAnswered
<1>1. IInv /\ PointerInv /\ HostAwaits => EveryAwaitIsAnswered
  <2> SUFFICES ASSUME IInv, PointerInv, HostAwaits PROVE EveryAwaitIsAnswered
    OBVIOUS
  <2>1. HoldsSession /\ \A s \in Sessions : session[s] \in {"requested", "closing"} => Held(s)
    BY DEF IInv, TaskInv, PointerInv
  <2> QED BY <2>1 DEF HoldsSession, Held, AtGateway, HostAwaits, EveryAwaitIsAnswered
<1> QED BY <1>1, Initially, Step, PointerInit, PointerStep, AwaitsInit, AwaitsStep, PTL DEF Spec

-----------------------------------------------------------------------------
(* A closed window.                                                        *)

LEMMA EndingInit == Init => ClosedIsEnding
BY DEF Init, ClosedIsEnding

\* A teardown goes on to the host, or ends the process.
LEMMA TearDownEnds ==
  ASSUME IInv, NEW t \in Closings, TearDown(t), ~darwin
  PROVE  pc'[t] = "draining" \/ app' = "closed"
BY DEF TearDown, Quit, Await, IInv, TaskInv, TaskTypes, Tasks

\* What another task does leaves a task where it is.
LEMMA OtherTask ==
  ASSUME IInv, NEW t \in Tasks, NEW u \in Tasks, t # u,
         \/ Continue(u)
         \/ u = Boot /\ AppReady
         \/ TrayToggle(u) \/ HostStart(u) \/ HostStop(u) \/ CloseWindow(u)
  PROVE  pc'[t] = pc[t]
<1> USE DEF IInv, TaskInv, TaskTypes, Await, Return, EnsureGatewaySession, StopGatewaySession,
        StopSessionAndHost, TearDown, taskVars
<1>1. CASE Continue(u)
  BY <1>1 DEF Continue, Proceed, HostUp, HostFailed, QrDrawn, Registered, RegisterFails, Unregistered
<1>2. CASE u = Boot /\ AppReady
  BY <1>2 DEF AppReady
<1>3. CASE TrayToggle(u) \/ HostStart(u) \/ HostStop(u) \/ CloseWindow(u)
  BY <1>3 DEF TrayToggle, HostStart, HostStop, CloseWindow
<1> QED BY <1>1, <1>2, <1>3

LEMMA EndingStep == IInv /\ ClosedIsEnding /\ [Next]_vars => ClosedIsEnding'
<1> SUFFICES ASSUME IInv, ClosedIsEnding, Next,
                    window' = "closed", ~darwin, app' = "alive"
             PROVE  \E t \in Closings : pc'[t] \in {"unregistering", "draining"}
  BY DEF ClosedIsEnding, Next, Note, vars, taskVars, uiVars
<1> USE TasksAssumption DEF Tasks
<1>1. ASSUME NEW t \in Closings, CloseWindow(t)
      PROVE  pc'[t] \in {"unregistering", "draining"}
  <2>1. CASE StopGatewaySession(t)
    BY <2>1 DEF StopGatewaySession, Await, IInv, TaskInv, TaskTypes
  <2>2. CASE TearDown(t)
    BY <2>2, TearDownEnds
  <2> QED BY <1>1, <2>1, <2>2 DEF CloseWindow, StopSessionAndHost
<1>2. ASSUME ~\E t \in Closings : CloseWindow(t)
      PROVE  \E t \in Closings : pc'[t] \in {"unregistering", "draining"}
  <2>1. window = "closed" /\ app = "alive"
    <3>1. app = "alive"
      BY DEF Next
    <3>2. ASSUME NEW t \in Tasks, Continue(t) PROVE UNCHANGED window
      BY <3>2 DEF Continue, Proceed, HostUp, HostFailed, QrDrawn, Registered, RegisterFails, Unregistered, uiVars
    <3>3. ASSUME NEW h \in Hosts, HostStopped(h) PROVE UNCHANGED window
      BY <3>3 DEF HostStopped, uiVars
    <3>4. CASE Begin
      BY <1>2, <3>4 DEF Begin, AppReady, TrayToggle, HostStart, HostStop, uiVars
    <3>5. CASE User
      BY <3>5 DEF User, ShowWindow, SecondLaunch, Activate, OnlyWindow, TrayQuit, SetGateway, Clients,
         uiVars
    <3> QED BY <3>1, <3>2, <3>3, <3>4, <3>5 DEF Next
  <2>2. PICK t \in Closings : pc[t] \in {"unregistering", "draining"}
    BY <2>1 DEF ClosedIsEnding
  <2>3. t \in Tasks /\ t \notin Clicks
    OBVIOUS
  <2>4. ASSUME NEW u \in Tasks, Continue(u) PROVE pc'[t] \in {"unregistering", "draining"}
    <3>1. CASE u # t
      BY <2>2, <2>3, <2>4, <3>1, OtherTask
    <3>2. CASE u = t
      <4>1. Unregistered(t)
        BY <2>2, <2>4, <3>2 DEF Continue, Proceed, HostUp, HostFailed, QrDrawn, Registered, RegisterFails
      <4>2. TearDown(t)
        BY <2>3, <4>1 DEF Unregistered
      <4> QED BY <4>2, TearDownEnds
    <3> QED BY <3>1, <3>2
  <2>5. ASSUME NEW h \in Hosts, HostStopped(h) PROVE pc'[t] \in {"unregistering", "draining"}
    <3>1. t \notin {u \in Tasks : pc[u] = "draining" /\ awaits[u] = h}
      BY <2>5 DEF HostStopped, Quit
    <3> QED BY <2>2, <2>3, <2>5, <3>1 DEF HostStopped
  <2>6. CASE Begin
    <3>1. PICK u \in Tasks : (u = Boot /\ AppReady) \/ TrayToggle(u) \/ HostStart(u) \/ HostStop(u)
      BY <1>2, <2>6 DEF Begin
    <3>2. pc[u] = "idle"
      BY <3>1 DEF AppReady, TrayToggle, HostStart, HostStop
    <3>3. u # t
      BY <2>2, <3>2
    <3>4. pc'[t] = pc[t]
      BY <2>3, <3>1, <3>3, OtherTask
    <3> QED BY <2>2, <3>4
  <2>7. CASE User
    BY <2>2, <2>7 DEF User, ShowWindow, SecondLaunch, Activate, OnlyWindow, TrayQuit, SetGateway, Clients,
       taskVars
  <2> QED BY <2>2, <2>4, <2>5, <2>6, <2>7 DEF Next
<1> QED BY <1>1, <1>2

\* However many windows were closed and stops asked for: with the last window gone, the
\* process ends or a task is under way that ends it.
THEOREM ClosingEnds == Spec => []ClosedIsEnding
BY Initially, Step, EndingInit, EndingStep, PTL DEF Spec
=============================================================================
