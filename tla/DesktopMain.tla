----------------------------- MODULE DesktopMain -----------------------------
(***************************************************************************)
(* The Electron main process, src/main/index.ts: the boot of the app, the  *)
(* IPC handlers host:start and host:stop, the tray's gateway toggle and    *)
(* the teardown on window-all-closed, over the LAN host (HostService).     *)
(*                                                                         *)
(* Each of them is an async function; a task is one call of one.  Between  *)
(* two awaits it runs alone, so an action is what a task does from one     *)
(* await to the next.  `running` and `gatewaySession` are the module       *)
(* variables that they share across their awaits.                          *)
(*                                                                         *)
(* A definition named X_Bug... is X with a plausible mistake in it, used   *)
(* only to show that a property is about X.                                *)
(***************************************************************************)
EXTENDS HostService

CONSTANTS Boot,      \* app.whenReady
          Clicks,    \* clicks on the tray's checkbox
          Starts,    \* host:start calls
          Stops,     \* host:stop calls
          Closings,  \* window-all-closed events
          Sessions,  \* sessions at the gateway
          Overrides, \* what RAZZOOZLE_GATEWAY_ENABLED may be set to
          None

Tasks == {Boot} \cup Clicks \cup Starts \cup Stops \cup Closings

ASSUME NoneAssumption == None \notin Hosts \cup Sessions
ASSUME TasksAssumption ==
  /\ Boot \notin Clicks \cup Starts \cup Stops \cup Closings
  /\ Clicks \cap (Starts \cup Stops \cup Closings) = {}
  /\ Starts \cap (Stops \cup Closings) = {}
  /\ Stops \cap Closings = {}

VARIABLES
  pc,              \* what each task awaits
  awaits,          \* the host or the session it awaits
  running,         \* the host to stop
  gatewaySession,  \* the session to stop
  session,         \* each session, from the POST to the end of the DELETE
  beating,         \* the sessions whose heartbeat interval is armed
  tunnelled,       \* the sessions whose tunnel is dialled and redialled
  override,        \* RAZZOOZLE_GATEWAY_ENABLED: "on" forces on, "off" off
  config,          \* useGateway in config.json: "off", or anything else for "on"
  menu,            \* the tray's checkbox
  choice,          \* history: what the user last made it
  window,          \* mainWindow
  app,             \* the process
  darwin,          \* process.platform is darwin
  overlapped       \* history: tasks ran into each other, see Serial

taskVars == <<pc, awaits>>
sessionVars == <<gatewaySession, session, beating, tunnelled>>
uiVars == <<override, config, menu, choice, window>>
vars == <<hostVars, taskVars, running, sessionVars, uiVars, app, darwin, overlapped>>

PC == {"idle", "hosting", "qr", "registering", "unregistering", "draining", "done"}

Init ==
  /\ HostInit
  /\ pc = [t \in Tasks |-> "idle"]
  /\ awaits = [t \in Tasks |-> None]
  /\ running = None
  /\ gatewaySession = None
  /\ session = [s \in Sessions |-> "none"]
  /\ beating = {} /\ tunnelled = {}
  /\ override \in Overrides
  /\ config \in {"on", "off"}
  /\ menu = "none" /\ choice = "none"
  /\ window = "none"
  /\ app = "alive"
  /\ darwin \in BOOLEAN
  /\ overlapped = FALSE

-----------------------------------------------------------------------------
(* Settings                                                                *)

\* getUseGateway: the environment, else the file, else on.
UseGateway(saved) == override = "on" \/ (override = "unset" /\ saved # "off")

\* readConfig, a field changed, writeConfig: a write that fails is only logged, one
\* that is cut short leaves a file that reads as {} and so as the default.
WriteConfig(value) == config' \in {config, value, "on"}

SetUseGateway(value) == WriteConfig(value)

Checkbox(saved) == IF UseGateway(saved) THEN "on" ELSE "off"

-----------------------------------------------------------------------------
(* Awaiting and returning                                                  *)

Await(t, what, x) ==
  /\ pc' = [pc EXCEPT ![t] = what]
  /\ awaits' = [awaits EXCEPT ![t] = x]

Return(t) == Await(t, IF t = Boot THEN "done" ELSE "idle", None)

\* A click ends, and the boot goes on, with a menu that shows the saved setting.
RebuildMenu(t, saved, shown) ==
  menu' = IF t \in Clicks \cup {Boot} /\ pc'[t] \in {"idle", "done"}
          THEN Checkbox(saved) ELSE shown

-----------------------------------------------------------------------------
(* The gateway session                                                     *)

EnsureGatewaySession_BugNoCheck(t) ==
  /\ \E s \in Sessions : /\ session[s] = "none"
                         /\ session' = [session EXCEPT ![s] = "requested"]
                         /\ Await(t, "registering", s)
  /\ UNCHANGED <<gatewaySession, beating, tunnelled>>

\* Unless there is a session: startGatewaySession, up to the answer to its POST.
EnsureGatewaySession(t) ==
  /\ IF gatewaySession = None
     THEN \E s \in Sessions : /\ session[s] = "none"
                              /\ session' = [session EXCEPT ![s] = "requested"]
                              /\ Await(t, "registering", s)
     ELSE Return(t) /\ UNCHANGED session
  /\ UNCHANGED <<gatewaySession, beating, tunnelled>>

\* The POST was answered: heartbeat and tunnel start, the session is published.
Registered(t) ==
  /\ pc[t] = "registering"
  /\ LET s == awaits[t] IN
     /\ session' = [session EXCEPT ![s] = "live"]
     /\ beating' = beating \cup {s}
     /\ tunnelled' = tunnelled \cup {s}
     /\ gatewaySession' = s
  /\ Return(t)
  /\ RebuildMenu(t, config, menu)
  /\ UNCHANGED <<hostVars, running, override, config, choice, window, app>>

RegisterFails_BugThrows(t) ==
  /\ pc[t] = "registering"
  /\ session' = [session EXCEPT ![awaits[t]] = "none"]
  /\ Await(t, "qr", None)
  /\ UNCHANGED <<hostVars, running, gatewaySession, beating, tunnelled, uiVars, app>>

\* No address to advertise, no answer, a refusal: hosting goes on without it.
RegisterFails(t) ==
  /\ pc[t] = "registering"
  /\ session' = [session EXCEPT ![awaits[t]] = "none"]
  /\ Return(t)
  /\ RebuildMenu(t, config, menu)
  /\ UNCHANGED <<hostVars, running, gatewaySession, beating, tunnelled,
                 override, config, choice, window, app>>

StopGatewaySession_BugTimerLeft(t) ==
  /\ gatewaySession # None
  /\ gatewaySession' = None
  /\ tunnelled' = tunnelled \ {gatewaySession}
  /\ session' = [session EXCEPT ![gatewaySession] = "closing"]
  /\ Await(t, "unregistering", gatewaySession)
  /\ UNCHANGED beating

StopGatewaySession_BugKeepsPointer(t) ==
  /\ gatewaySession # None
  /\ tunnelled' = tunnelled \ {gatewaySession}
  /\ beating' = beating \ {gatewaySession}
  /\ session' = [session EXCEPT ![gatewaySession] = "closing"]
  /\ Await(t, "unregistering", gatewaySession)
  /\ UNCHANGED gatewaySession

\* stopGatewaySession with a session: up to the answer to its DELETE.
StopGatewaySession(t) ==
  /\ gatewaySession # None
  /\ gatewaySession' = None
  /\ tunnelled' = tunnelled \ {gatewaySession}
  /\ beating' = beating \ {gatewaySession}
  /\ session' = [session EXCEPT ![gatewaySession] = "closing"]
  /\ Await(t, "unregistering", gatewaySession)

-----------------------------------------------------------------------------
(* The host                                                                *)

Quit_BugWrongPlatform(done) ==
  app' = IF done \cap Closings # {} /\ darwin THEN "closed" ELSE app

\* window-all-closed ends with app.quit(), but not on macOS.
Quit(done) ==
  app' = IF done \cap Closings # {} /\ ~darwin THEN "closed" ELSE app

TearDown_BugForgetsFirst(t) ==
  \/ /\ running = None
     /\ Return(t) /\ Quit({t})
     /\ UNCHANGED <<hostVars, running>>
  \/ /\ running # None
     /\ Await(t, "draining", running)
     /\ running' = None
     /\ IF phase[running] = "up" THEN StopCall(running) ELSE UNCHANGED hostVars
     /\ UNCHANGED app

\* After stopGatewaySession, in host:stop and window-all-closed: stop the host.
\* A host that is being stopped already is awaited with the others.
TearDown(t) ==
  /\ \/ /\ running = None
        /\ Return(t) /\ Quit({t})
        /\ UNCHANGED hostVars
     \/ /\ running # None
        /\ Await(t, "draining", running)
        /\ IF phase[running] = "up" THEN StopCall(running) ELSE UNCHANGED hostVars
        /\ UNCHANGED app
  /\ UNCHANGED running

\* The DELETE is answered, refused or given up: the task goes on in any case.
Unregistered(t) ==
  /\ pc[t] = "unregistering"
  /\ session' = [session EXCEPT ![awaits[t]] = "none"]
  /\ \/ /\ t \in Clicks
        /\ Return(t)
        /\ UNCHANGED <<hostVars, running, app>>
     \/ /\ t \notin Clicks
        /\ TearDown(t)
  /\ RebuildMenu(t, config, menu)
  /\ UNCHANGED <<gatewaySession, beating, tunnelled, override, config, choice, window>>

HostStopped_BugWakesOne(h) ==
  \E t \in Tasks :
    /\ pc[t] = "draining" /\ awaits[t] = h
    /\ StopDone(h)
    /\ running' = None
    /\ Await(t, "idle", None)
    /\ Quit({t})
    /\ UNCHANGED <<sessionVars, uiVars>>

\* stop() resolves for all who await it; each of them forgets `running`.
HostStopped(h) ==
  LET waiting == {t \in Tasks : pc[t] = "draining" /\ awaits[t] = h} IN
  /\ waiting # {}
  /\ StopDone(h)
  /\ running' = None
  /\ pc' = [t \in Tasks |-> IF t \in waiting THEN "idle" ELSE pc[t]]
  /\ awaits' = [t \in Tasks |-> IF t \in waiting THEN None ELSE awaits[t]]
  /\ Quit(waiting)
  /\ UNCHANGED <<sessionVars, uiVars>>

\* startHost resolved.  The boot goes on to the gateway at once, host:start when
\* its QR code is drawn.
HostUp(t) ==
  /\ pc[t] = "hosting"
  /\ Resolve(awaits[t])
  /\ running' = awaits[t]
  /\ \/ t = Boot /\ UseGateway(config) /\ EnsureGatewaySession(t)
     \/ t = Boot /\ ~UseGateway(config) /\ Return(t) /\ UNCHANGED sessionVars
     \/ t # Boot /\ Await(t, "qr", None) /\ UNCHANGED sessionVars
  /\ UNCHANGED <<override, config>>
  /\ RebuildMenu(t, config, menu)
  /\ UNCHANGED <<choice, window, app>>

HostFailed_BugSilent(t) ==
  /\ pc[t] = "hosting"
  /\ Reject(awaits[t])
  /\ Await(t, "qr", None)
  /\ UNCHANGED <<running, sessionVars, uiVars, app>>

\* startHost rejected: an error page without a tray, or ok: false.
HostFailed(t) ==
  /\ pc[t] = "hosting"
  /\ Reject(awaits[t])
  /\ Return(t)
  /\ UNCHANGED <<running, sessionVars, uiVars, app>>

\* The QR code is drawn.  The renderer's toggle overrides the setting.
QrDrawn(t) ==
  /\ t \in Starts /\ pc[t] = "qr"
  /\ \/ EnsureGatewaySession(t)
     \/ Return(t) /\ UNCHANGED sessionVars
  /\ UNCHANGED <<hostVars, running, uiVars, app>>

-----------------------------------------------------------------------------
(* The tasks begin                                                         *)

\* app.whenReady: without game.json there is an error page and nothing else.
AppReady ==
  /\ pc[Boot] = "idle"
  /\ window' = "hidden"
  /\ \/ \E h \in Hosts : Call(h) /\ Await(Boot, "hosting", h)
     \/ Return(Boot) /\ UNCHANGED hostVars
  /\ UNCHANGED <<running, sessionVars, override, config, menu, choice, app>>

TrayToggle_BugOnlyPersists(t) ==
  /\ pc[t] = "idle" /\ menu # "none"
  /\ LET value == IF menu = "off" THEN "on" ELSE "off" IN
     /\ SetUseGateway(value)
     /\ choice' = value
     /\ \/ value = "on" /\ EnsureGatewaySession(t)
        \/ value = "off" /\ Return(t) /\ UNCHANGED sessionVars
     /\ RebuildMenu(t, config', value)
  /\ UNCHANGED <<hostVars, running, override, window, app>>

\* A click on the checkbox: the box changes at once, the menu is rebuilt later.
TrayToggle(t) ==
  /\ pc[t] = "idle" /\ menu # "none"
  /\ LET value == IF menu = "off" THEN "on" ELSE "off" IN
     /\ SetUseGateway(value)
     /\ choice' = value
     /\ \/ value = "on" /\ EnsureGatewaySession(t)
        \/ value = "off" /\ StopGatewaySession(t)
        \/ value = "off" /\ gatewaySession = None /\ Return(t) /\ UNCHANGED sessionVars
     /\ RebuildMenu(t, config', value)
  /\ UNCHANGED <<hostVars, running, override, window, app>>

\* The IPC handlers: their callers are pages of an open window.
HostStart(t) ==
  /\ pc[t] = "idle" /\ window \in {"hidden", "shown"}
  /\ \/ running = None /\ \E h \in Hosts : Call(h) /\ Await(t, "hosting", h)
     \/ running # None /\ Await(t, "qr", None) /\ UNCHANGED hostVars
  /\ UNCHANGED <<running, sessionVars, uiVars, app>>

StopSessionAndHost(t) ==
  \/ StopGatewaySession(t) /\ UNCHANGED <<hostVars, running, app>>
  \/ gatewaySession = None /\ TearDown(t) /\ UNCHANGED sessionVars

HostStop(t) ==
  /\ pc[t] = "idle" /\ window \in {"hidden", "shown"}
  /\ StopSessionAndHost(t)
  /\ UNCHANGED uiVars

\* The user closes the window: window-all-closed.
CloseWindow(t) ==
  /\ pc[t] = "idle" /\ window = "shown"
  /\ window' = "closed"
  /\ StopSessionAndHost(t)
  /\ UNCHANGED <<override, config, menu, choice>>

-----------------------------------------------------------------------------
(* The window, the tray's quit and a second launch                         *)

OnlyWindow(now) ==
  /\ window' = now
  /\ UNCHANGED <<hostVars, taskVars, running, sessionVars, override, config, menu, choice, app>>

\* The page got past the login, the 7 s are over, or it is an error page.
ShowWindow == pc[Boot] = "done" /\ window = "hidden" /\ OnlyWindow("shown")

\* A second instance quits and tells this one.
SecondLaunch == OnlyWindow(IF window = "hidden" THEN "shown" ELSE window)

Activate == darwin /\ window = "closed" /\ OnlyWindow("hidden")

\* "Beenden": app.quit() emits no window-all-closed.
TrayQuit ==
  /\ menu # "none"
  /\ app' = "quit"
  /\ UNCHANGED <<hostVars, taskVars, running, sessionVars, uiVars>>

\* config:setGateway writes the same file for the sake of another field.
SetGateway ==
  /\ window \in {"hidden", "shown"}
  /\ WriteConfig(config)
  /\ UNCHANGED <<hostVars, taskVars, running, sessionVars, override, menu, choice, window, app>>

Clients ==
  /\ \E h \in Hosts : Connects(h) \/ Disconnects(h)
  /\ UNCHANGED <<taskVars, running, sessionVars, uiVars, app>>

Begin ==
  \/ AppReady
  \/ \E t \in Clicks : TrayToggle(t)
  \/ \E t \in Starts : HostStart(t)
  \/ \E t \in Stops : HostStop(t)
  \/ \E t \in Closings : CloseWindow(t)

Proceed(t) == QrDrawn(t) \/ Registered(t) \/ RegisterFails(t) \/ Unregistered(t)

Continue(t) == HostUp(t) \/ HostFailed(t) \/ Proceed(t)

User == ShowWindow \/ SecondLaunch \/ Activate \/ TrayQuit \/ SetGateway \/ Clients

\* Only one registration is under way, none against the user's choice, and a host
\* is started when the one before it is gone.
Serial ==
  /\ \A t, u \in Tasks : pc[t] = "registering" /\ pc[u] = "registering" => t = u
  /\ choice = "off" => \A t \in Tasks : pc[t] # "registering"
  /\ \A h, g \in Hosts : phase[h] # "off" /\ phase[g] # "off" => h = g

Note == overlapped' = (overlapped \/ ~Serial') /\ UNCHANGED darwin

Next ==
  /\ app = "alive"
  /\ \/ Begin
     \/ \E t \in Tasks : Continue(t)
     \/ \E h \in Hosts : HostStopped(h)
     \/ User
  /\ Note

\* A request to the gateway is aborted after 10 s, QR codes are drawn, and stop()
\* completes when no connection is left (LocalServer, StopWaitsOnlyForClients).  That
\* startHost resolves or rejects is not assumed: it need not (StartSettles).
Fairness == /\ \A t \in Tasks : WF_vars(app = "alive" /\ Proceed(t) /\ Note)
            /\ \A h \in Hosts : WF_vars(app = "alive" /\ HostStopped(h) /\ Note)

Spec == Init /\ [][Next]_vars
FairSpec == Spec /\ Fairness

-----------------------------------------------------------------------------
(* Properties                                                              *)

TypeOK ==
  /\ HostTypeOK
  /\ pc \in [Tasks -> PC]
  /\ awaits \in [Tasks -> Hosts \cup Sessions \cup {None}]
  /\ running \in Hosts \cup {None}
  /\ gatewaySession \in Sessions \cup {None}
  /\ session \in [Sessions -> {"none", "requested", "live", "closing"}]
  /\ beating \in SUBSET Sessions /\ tunnelled \in SUBSET Sessions
  /\ override \in Overrides /\ config \in {"on", "off"}
  /\ menu \in {"none", "on", "off"} /\ choice \in {"none", "on", "off"}
  /\ window \in {"none", "hidden", "shown", "closed"}
  /\ app \in {"alive", "closed", "quit"}
  /\ darwin \in BOOLEAN /\ overlapped \in BOOLEAN

Closing == {t \in Tasks : pc[t] = "unregistering"}

\* However the tasks interleave: what gatewaySession points to is registered,
\* with its heartbeat armed and its tunnel up, and a session whose DELETE is on
\* its way has neither any more (index.ts:303-327, 234-264).
SessionsIntact ==
  /\ gatewaySession # None => session[gatewaySession] = "live"
  /\ beating = {s \in Sessions : session[s] = "live"}
  /\ tunnelled = beating

\* No two tasks unregister the same session: the pointer is taken before the
\* first await (index.ts:304-306).
UnregisteredOnce ==
  \A t, u \in Closing : awaits[t] = awaits[u] => t = u

\* index.ts:598 has ensureGatewaySession "Start the gateway session if enabled +
\* not already running": there is one session at a time, and it can be stopped.
OneSession ==
  \A s \in Sessions : session[s] = "live" => gatewaySession = s

NothingInFlight == \A t \in Tasks : pc[t] \in {"idle", "done"}

\* Once the last click on the tray's checkbox is done, the host is on the gateway
\* only if that click said so (index.ts:682-685, 702-712).
OptOutHonoured ==
  NothingInFlight /\ choice = "off" => \A s \in Sessions : session[s] = "none"

\* A host that is up or being stopped is the one that `running` points to: until
\* stop() is complete someone can still ask for it (index.ts:403-404, 917-918).
HostKept == \A h \in Hosts : phase[h] \in {"up", "stopping"} => running = h

\* As long as no two registrations overlap there is one session at a time, and it
\* can be stopped: the overlap is all that ensureGatewaySession lacks
\* (index.ts:601-606, 375-378, 303-306).
SerialOneSession == ~overlapped => OneSession

\* As long as no registration overlaps the click that switches the gateway off,
\* the click is honoured, whatever becomes of the write of the setting
\* (index.ts:98-102, 303-327, 702-712).
SerialOptOut == ~overlapped => OptOutHonoured

\* As long as a host is started only when the one before it is gone, the host that
\* is up or draining can be stopped (index.ts:339-354, 402-405, 771-775, 916-919).
SerialHostKept == ~overlapped => HostKept

\* Nobody waits for what does not come, and nothing is under way that nobody waits for,
\* also where tasks overlap: a task that awaits a host or a session awaits one that is
\* in the state its await stands for, a start has one task that awaits it, and a stop
\* or a call to the gateway at least one (index.ts:303-318, 345-376, 403-404, 771-786,
\* 917-918).
EveryAwaitIsAnswered ==
  /\ \A t \in Tasks :
       /\ pc[t] = "hosting" => phase[awaits[t]] = "starting"
       /\ pc[t] = "draining" => phase[awaits[t]] = "stopping"
       /\ pc[t] = "registering" => session[awaits[t]] = "requested"
       /\ pc[t] = "unregistering" => session[awaits[t]] = "closing"
  /\ \A t, u \in Tasks : pc[t] = "hosting" /\ pc[u] = "hosting" /\ awaits[t] = awaits[u] => t = u
  /\ \A h \in Hosts :
       /\ phase[h] = "starting" => \E t \in Tasks : pc[t] = "hosting" /\ awaits[t] = h
       /\ phase[h] = "stopping" => \E t \in Tasks : pc[t] = "draining" /\ awaits[t] = h
  /\ \A s \in Sessions :
       session[s] \in {"requested", "closing"} =>
         \E t \in Tasks : pc[t] \in {"registering", "unregistering"} /\ awaits[t] = s

\* A closed window never leaves a process without a window and without a task that
\* ends it, whatever else overlaps and whoever else stops the host (index.ts:913-922).
ClosedIsEnding ==
  window = "closed" /\ ~darwin /\ app = "alive" =>
    \E t \in Closings : pc[t] \in {"unregistering", "draining"}

\* A click ends with a rebuilt menu, whatever the gateway does (index.ts:702-713).
ClickSettles ==
  \A t \in Clicks : pc[t] # "idle" ~> (pc[t] = "idle" \/ app # "alive")

\* The boot comes to its end whatever the gateway does and also when the host fails to
\* start: only a startHost that neither resolves nor rejects can hold it up for good
\* (index.ts:771-786, 862-877).
BootSettles ==
  []<>(pc[Boot] # "hosting") => (pc[Boot] # "idle" ~> (pc[Boot] = "done" \/ app # "alive"))

\* A closed window ends the app, if no connection to a host stays (index.ts:913-922).
CloseEndsApp ==
  []<>(connected = {}) /\ ~darwin => (window = "closed" ~> app # "alive")

=============================================================================
