---------------------------- MODULE TunnelClient ----------------------------
(***************************************************************************)
(* The host side of the relay tunnel, src/main/tunnel-client.ts.           *)
(*                                                                         *)
(* One CONTROL WebSocket to the gateway is kept alive by a reconnect timer *)
(* with backoff.  Each "open" message on it starts a data WebSocket that,  *)
(* once open, is piped to a fresh TCP connection to the local game server. *)
(*                                                                         *)
(* The client is single threaded: every action below is one callback run   *)
(* to completion.  The interleavings are those of the callbacks, which the *)
(* network, the gateway, the game server and the caller of close() decide. *)
(*                                                                         *)
(* A member of Conns or Streams stands for a socket object.  It is "absent"*)
(* before it is created and after its 'close' event, and may then stand    *)
(* for another object.  The life of a WebSocket of the `ws' library:       *)
(*   connecting -> open -> closing -> absent                               *)
(* 'open' is emitted on the first step; 'error' is emitted at most on the  *)
(* way to "closing"; 'close' is emitted once, on the last step, also when  *)
(* close() aborted a handshake.                                            *)
(*                                                                         *)
(* A definition named X_Bug... is X with a plausible mistake in it.  It is *)
(* not part of the model: put in the place of X it must make a property    *)
(* fail, which shows that the property is about X.                         *)
(***************************************************************************)
EXTENDS Integers, Sequences

CONSTANTS Conns,    \* control sockets
          Streams,  \* data sockets, each with the local socket it may get
          None      \* the null of state.control

ASSUME NoneAssumption == None \notin Conns

VARIABLES
  dialThrows,       \* the WebSocket constructor rejects the gateway's URL
  stopped,          \* state.stopped
  control,          \* state.control
  reconnectTimer,   \* state.reconnectTimer: "null" or "armed"
  nextReconnectMs,  \* state.nextReconnectMs
  dataPipes,        \* state.dataPipes: the streams that are piped
  ctl,              \* the life of each control socket
  dataWs,           \* the life of each data socket
  local             \* the life of the TCP socket behind each data socket

streamVars == <<dataPipes, dataWs, local>>
supervisorVars == <<dialThrows, stopped, control, reconnectTimer, nextReconnectMs>>
vars == <<dialThrows, stopped, control, reconnectTimer, nextReconnectMs,
          dataPipes, ctl, dataWs, local>>

WsState == {"absent", "connecting", "open", "closing"}
LocalState == {"absent", "live", "ended"}

Alive(c) == ctl[c] # "absent"

-----------------------------------------------------------------------------
(* Reconnecting                                                            *)

reconnectBackoff == <<1000, 2000, 5000, 10000>>

NextDelay_BugSkips(ms) == IF ms < 2000 THEN 2000 ELSE 10000

\* The index is computed from the last delay, in whole seconds.
NextDelay(ms) ==
  LET wanted == ms \div 1000
      last == Len(reconnectBackoff) - 1
  IN  reconnectBackoff[1 + (IF wanted < last THEN wanted ELSE last)]

\* Arms the timer; an armed one is cleared first, so there is never a second.
ScheduleReconnect ==
  /\ nextReconnectMs' = NextDelay(nextReconnectMs)
  /\ reconnectTimer' = "armed"

DialectControl_BugForgets(c) ==
  /\ ctl' = [ctl EXCEPT ![c] = "connecting"]
  /\ reconnectTimer' = "null"
  /\ UNCHANGED <<control, nextReconnectMs>>

\* dialectControl of a client that is not stopped.
DialectControl(c) ==
  \/ /\ dialThrows
     /\ ScheduleReconnect
     /\ UNCHANGED <<control, ctl>>
  \/ /\ ~dialThrows
     /\ ctl[c] = "absent"
     /\ ctl' = [ctl EXCEPT ![c] = "connecting"]
     /\ control' = c
     /\ reconnectTimer' = "null"
     /\ UNCHANGED nextReconnectMs

\* startTunnel dials before it returns.
Init ==
  /\ dialThrows \in BOOLEAN
  /\ stopped = FALSE
  /\ dataPipes = {}
  /\ dataWs = [s \in Streams |-> "absent"]
  /\ local = [s \in Streams |-> "absent"]
  /\ \/ /\ dialThrows
        /\ ctl = [c \in Conns |-> "absent"]
        /\ control = None
        /\ reconnectTimer = "armed"
        /\ nextReconnectMs = NextDelay(0)
     \/ /\ ~dialThrows
        /\ \E c \in Conns :
             /\ ctl = [d \in Conns |-> IF d = c THEN "connecting" ELSE "absent"]
             /\ control = c
        /\ reconnectTimer = "null"
        /\ nextReconnectMs = 0

\* The armed timer fires and runs dialectControl.
ReconnectTimerFires ==
  /\ reconnectTimer = "armed"
  /\ IF stopped
     THEN reconnectTimer' = "null" /\ UNCHANGED <<nextReconnectMs, control, ctl>>
     ELSE \E c \in Conns : DialectControl(c)
  /\ UNCHANGED <<dialThrows, stopped, streamVars>>

-----------------------------------------------------------------------------
(* The control socket                                                      *)

ControlOpen_BugNoReset(c) ==
  /\ ctl[c] = "connecting"
  /\ ctl' = [ctl EXCEPT ![c] = "open"]
  /\ UNCHANGED <<supervisorVars, streamVars>>

\* The handshake completes.  It never does after close(), which aborts it.
ControlOpen(c) ==
  /\ ctl[c] = "connecting"
  /\ ctl' = [ctl EXCEPT ![c] = IF stopped THEN "closing" ELSE "open"]
  /\ nextReconnectMs' = IF stopped THEN nextReconnectMs ELSE 0
  /\ UNCHANGED <<dialThrows, stopped, control, reconnectTimer, streamVars>>

\* An "open" message: onStreamOpen dials a data socket.  Its constructor gets
\* the base URL the control socket was made with, so it does not throw.
ControlMessage(c, s) ==
  /\ ctl[c] = "open"
  /\ ~stopped
  /\ dataWs[s] = "absent"
  /\ dataWs' = [dataWs EXCEPT ![s] = "connecting"]
  /\ UNCHANGED <<supervisorVars, ctl, dataPipes, local>>

ControlError_BugReconnects(c) ==
  /\ ctl[c] \in {"connecting", "open"}
  /\ ~stopped
  /\ ctl' = [ctl EXCEPT ![c] = "closing"]
  /\ control' = None
  /\ ScheduleReconnect
  /\ UNCHANGED <<dialThrows, stopped, streamVars>>

\* A failed dial or a protocol error.  The 'close' event is still to come.
ControlError(c) ==
  /\ ctl[c] \in {"connecting", "open"}
  /\ ctl' = [ctl EXCEPT ![c] = "closing"]
  /\ control' = IF stopped THEN control ELSE None
  /\ UNCHANGED <<dialThrows, stopped, reconnectTimer, nextReconnectMs, streamVars>>

\* The gateway or the network ends the connection; no handler runs yet.
ControlDropped(c) ==
  /\ ctl[c] = "open"
  /\ ctl' = [ctl EXCEPT ![c] = "closing"]
  /\ UNCHANGED <<supervisorVars, streamVars>>

ControlClose_BugNoRetry(c) ==
  /\ ctl[c] = "closing"
  /\ ctl' = [ctl EXCEPT ![c] = "absent"]
  /\ UNCHANGED <<supervisorVars, streamVars>>

ControlClose(c) ==
  /\ ctl[c] = "closing"
  /\ ctl' = [ctl EXCEPT ![c] = "absent"]
  /\ \/ stopped /\ UNCHANGED <<control, reconnectTimer, nextReconnectMs>>
     \/ ~stopped /\ control' = None /\ ScheduleReconnect
  /\ UNCHANGED <<dialThrows, stopped, streamVars>>

-----------------------------------------------------------------------------
(* A data socket and its local socket                                      *)

\* What close() makes of a socket.
Closing(st) == IF st = "absent" THEN "absent" ELSE "closing"

DataOpen_BugIgnoresStop(s) ==
  /\ dataWs[s] = "connecting"
  /\ dataWs' = [dataWs EXCEPT ![s] = "open"]
  /\ local' = [local EXCEPT ![s] = "live"]
  /\ dataPipes' = dataPipes \cup {s}
  /\ UNCHANGED <<supervisorVars, ctl>>

\* The handshake of a data socket completes: connect to the game server and
\* pipe the two, or hang up if the client was stopped meanwhile.  (connect
\* throws only for an illegal port, and the port is a constant of the app.)
DataOpen(s) ==
  /\ dataWs[s] = "connecting"
  /\ \/ /\ stopped
        /\ dataWs' = [dataWs EXCEPT ![s] = "closing"]
        /\ UNCHANGED <<dataPipes, local>>
     \/ /\ ~stopped
        /\ dataWs' = [dataWs EXCEPT ![s] = "open"]
        /\ local' = [local EXCEPT ![s] = "live"]
        /\ dataPipes' = dataPipes \cup {s}
  /\ UNCHANGED <<supervisorVars, ctl>>

LocalEnd_BugKeepsPipe(s) ==
  /\ local[s] = "live"
  /\ local' = [local EXCEPT ![s] = "ended"]
  /\ dataWs' = [dataWs EXCEPT ![s] = Closing(@)]
  /\ UNCHANGED <<supervisorVars, ctl, dataPipes>>

\* The game server ends its side; the local socket closes by itself later.
LocalEnd(s) ==
  /\ local[s] = "live"
  /\ local' = [local EXCEPT ![s] = "ended"]
  /\ dataPipes' = dataPipes \ {s}
  /\ dataWs' = [dataWs EXCEPT ![s] = Closing(@)]
  /\ UNCHANGED <<supervisorVars, ctl>>

\* The game server refuses or resets the connection.
LocalError(s) ==
  /\ local[s] = "live"
  /\ local' = [local EXCEPT ![s] = "absent"]
  /\ dataPipes' = dataPipes \ {s}
  /\ dataWs' = [dataWs EXCEPT ![s] = Closing(@)]
  /\ UNCHANGED <<supervisorVars, ctl>>

LocalFinished(s) ==
  /\ local[s] = "ended"
  /\ local' = [local EXCEPT ![s] = "absent"]
  /\ UNCHANGED <<supervisorVars, ctl, dataPipes, dataWs>>

\* Before the handshake only the handler that logs is there, and there is
\* nothing to unpipe; afterwards the pipe's handler runs as well.
DataError(s) ==
  /\ dataWs[s] # "absent"
  /\ dataWs' = [dataWs EXCEPT ![s] = "closing"]
  /\ dataPipes' = dataPipes \ {s}
  /\ local' = [local EXCEPT ![s] = "absent"]
  /\ UNCHANGED <<supervisorVars, ctl>>

DataDropped(s) ==
  /\ dataWs[s] = "open"
  /\ dataWs' = [dataWs EXCEPT ![s] = "closing"]
  /\ UNCHANGED <<supervisorVars, ctl, dataPipes, local>>

DataClose(s) ==
  /\ dataWs[s] = "closing"
  /\ dataWs' = [dataWs EXCEPT ![s] = "absent"]
  /\ dataPipes' = dataPipes \ {s}
  /\ local' = [local EXCEPT ![s] = "absent"]
  /\ UNCHANGED <<supervisorVars, ctl>>

-----------------------------------------------------------------------------
(* TunnelHandle.close().  A second call returns at once.                   *)

Close ==
  /\ ~stopped
  /\ stopped' = TRUE
  /\ reconnectTimer' = "null"
  /\ ctl' = [c \in Conns |-> IF c = control THEN Closing(ctl[c]) ELSE ctl[c]]
  /\ control' = None
  /\ dataWs' = [s \in Streams |-> IF s \in dataPipes THEN Closing(dataWs[s])
                                                     ELSE dataWs[s]]
  /\ local' = [s \in Streams |-> IF s \in dataPipes THEN "absent" ELSE local[s]]
  /\ dataPipes' = {}
  /\ UNCHANGED <<dialThrows, nextReconnectMs>>

-----------------------------------------------------------------------------
ControlNext ==
  \E c \in Conns :
    \/ ControlOpen(c) \/ ControlError(c) \/ ControlDropped(c) \/ ControlClose(c)
    \/ \E s \in Streams : ControlMessage(c, s)

StreamNext ==
  \E s \in Streams :
    \/ DataOpen(s) \/ DataError(s) \/ DataDropped(s) \/ DataClose(s)
    \/ LocalEnd(s) \/ LocalError(s) \/ LocalFinished(s)

Next == ReconnectTimerFires \/ ControlNext \/ StreamNext \/ Close

\* A timer fires; a closing WebSocket is closed, by the peer's answer or by the
\* library's own timeout.  Nothing obliges a handshake to end: the dial sets no
\* timeout.  Nothing obliges the gateway, the players or the caller to act.
Fairness ==
  /\ WF_vars(ReconnectTimerFires)
  /\ \A c \in Conns : WF_vars(ControlClose(c))
  /\ \A s \in Streams : WF_vars(DataClose(s))

Spec == Init /\ [][Next]_vars
FairSpec == Spec /\ Fairness

-----------------------------------------------------------------------------
(* Properties                                                              *)

TypeOK ==
  /\ dialThrows \in BOOLEAN
  /\ stopped \in BOOLEAN
  /\ control \in Conns \cup {None}
  /\ reconnectTimer \in {"null", "armed"}
  /\ nextReconnectMs \in {0, 1000, 2000, 5000, 10000}
  /\ dataPipes \in SUBSET Streams
  /\ ctl \in [Conns -> WsState]
  /\ dataWs \in [Streams -> WsState]
  /\ local \in [Streams -> LocalState]

\* There is at most one control socket, and a client that is not stopped has a
\* control socket or an armed timer but never both: it neither gives up nor
\* runs two reconnect chains, whatever order 'error', 'close' and the timer
\* come in (tunnel-client.ts:120-131, 184-211).
SupervisedControl ==
  /\ \A c, d \in Conns : Alive(c) /\ Alive(d) => c = d
  /\ ~stopped => (reconnectTimer = "armed" <=> \A c \in Conns : ~Alive(c))

\* state.control is the socket that close() must hang up: no usable control
\* socket is ever out of its reach (tunnel-client.ts:123, 130, 133, 156-163).
ControlReachable ==
  /\ \A c \in Conns : ctl[c] \in {"connecting", "open"} => control = c
  /\ control # None => ~stopped /\ Alive(control)

\* dataPipes holds exactly the streams whose TCP socket is in use, and an open
\* data socket is always in it: no player connection to the game server is
\* orphaned by any order of end, error and close (tunnel-client.ts:251-338).
PipesExact ==
  \A s \in Streams :
    /\ s \in dataPipes <=> local[s] = "live"
    /\ local[s] # "absent" => dataWs[s] \in {"open", "closing"}
    /\ dataWs[s] = "open" => local[s] = "live"

\* After close() no timer is armed, no control socket is usable, nothing is
\* piped and no TCP socket to the game server is in use, and late events of
\* the sockets that are still closing do not revive any
\* (tunnel-client.ts:147-180).
StoppedQuiet ==
  stopped => /\ reconnectTimer = "null"
             /\ control = None
             /\ \A c \in Conns : ctl[c] \in {"absent", "closing"}
             /\ dataPipes = {}
             /\ \A s \in Streams : dataWs[s] # "open" /\ local[s] # "live"

\* close() can end everything there is, and has: a usable control socket is
\* state.control, a stream in use is in dataPipes, and of a stopped client
\* nothing is armed, usable or piped, in whatever order the callbacks come
\* (tunnel-client.ts:123-133, 147-180, 251-338).
NothingOutOfReach == ControlReachable /\ PipesExact /\ StoppedQuiet

\* The inductive invariant.
IInv == /\ TypeOK
        /\ SupervisedControl
        /\ ControlReachable
        /\ PipesExact
        /\ StoppedQuiet

\* The documented waits, each with the one that follows it: 1 s, 2 s, 5 s and
\* then always 10 s.
Ladder == {<<0, 1000>>, <<1000, 2000>>, <<2000, 5000>>,
           <<5000, 10000>>, <<10000, 10000>>}

\* A step of the backoff: an armed timer takes the next wait, and the sequence
\* starts over only when a control socket opens.
ClimbsLadder ==
  /\ \/ reconnectTimer = "null" /\ reconnectTimer' = "armed"
     \/ nextReconnectMs' > nextReconnectMs
     => <<nextReconnectMs, nextReconnectMs'>> \in Ladder
  /\ nextReconnectMs' < nextReconnectMs =>
       \E c \in Conns : ctl[c] = "connecting" /\ ctl'[c] = "open"

\* Every time the timer is armed its delay is the next of the documented
\* sequence, and the sequence restarts only when a control socket opens
\* (tunnel-client.ts:8, 93, 190-198).
BackoffLadder == [][ClimbsLadder]_vars

\* A step of a stopped client: its sockets close, and nothing else.
OnlyCloses ==
  /\ stopped'
  /\ \A c \in Conns : ctl'[c] # ctl[c] => ctl'[c] = "absent"
  /\ \A s \in Streams : dataWs'[s] # dataWs[s] => dataWs'[s] \in {"closing", "absent"}

\* A stopped client is never revived: no control socket opens, nothing is
\* dialled and no stream is piped (tunnel-client.ts:74, 84, 97, 188, 214, 225).
NothingStartsAfterClose == [][stopped => OnlyCloses]_vars

\* Whatever the gateway and the network do, the client that is not stopped is
\* again and again dialling or connected (or its URL is rejected, and it goes
\* on trying): tunnel-client.ts:7-8, 120-125, 207-210.
NeverGivesUp ==
  []<>(stopped \/ dialThrows \/ \E c \in Conns : ctl[c] \in {"connecting", "open"})

\* The control link as its abstract specification sees it.
LinkPhase ==
  IF stopped THEN "stopped"
  ELSE IF reconnectTimer = "armed" THEN "waiting"
  ELSE IF \E c \in Conns : ctl[c] = "open" THEN "up"
  ELSE IF \E c \in Conns : ctl[c] = "connecting" THEN "trying"
  ELSE "losing"

\* The rung of the ladder whose wait is ms.
RungOf(ms) ==
  IF ms = 0 THEN 0
  ELSE CHOOSE i \in 1..Len(reconnectBackoff) : reconnectBackoff[i] = ms

Link == INSTANCE LinkSupervisor WITH
          Delays <- reconnectBackoff, phase <- LinkPhase, rung <- RungOf(nextReconnectMs)

\* The sockets, handlers and timer of the control link together behave as the
\* abstract supervisor, whose waits they compute instead of looking them up
\* (tunnel-client.ts:73-142, 184-211).
RefinesLinkSupervisor == Link!Spec
=============================================================================
