------------------------- MODULE TunnelClientProofs -------------------------
(* Theorems about TunnelClient, for every set of control sockets and streams. *)
EXTENDS TunnelClient, TLAPS

\* The arithmetic of scheduleReconnect looks the next delay of the documented
\* sequence up (tunnel-client.ts:190-196).
LEMMA NextDelayIsLadder ==
  ASSUME NEW ms \in {0, 1000, 2000, 5000, 10000}
  PROVE  /\ <<ms, NextDelay(ms)>> \in Ladder
         /\ NextDelay(ms) \in {1000, 2000, 5000, 10000}
<1>1. Len(reconnectBackoff) = 4
  BY DEF reconnectBackoff
<1>2. CASE ms = 0
  <2>1. ms \div 1000 = 0 BY <1>2
  <2> QED BY <1>1, <1>2, <2>1 DEF NextDelay, Ladder, reconnectBackoff
<1>3. CASE ms = 1000
  <2>1. ms \div 1000 = 1 BY <1>3
  <2> QED BY <1>1, <1>3, <2>1 DEF NextDelay, Ladder, reconnectBackoff
<1>4. CASE ms = 2000
  <2>1. ms \div 1000 = 2 BY <1>4
  <2> QED BY <1>1, <1>4, <2>1 DEF NextDelay, Ladder, reconnectBackoff
<1>5. CASE ms = 5000
  <2>1. ms \div 1000 = 5 BY <1>5
  <2> QED BY <1>1, <1>5, <2>1 DEF NextDelay, Ladder, reconnectBackoff
<1>6. CASE ms = 10000
  <2>1. ms \div 1000 = 10 BY <1>6
  <2> QED BY <1>1, <1>6, <2>1 DEF NextDelay, Ladder, reconnectBackoff
<1> QED BY <1>2, <1>3, <1>4, <1>5, <1>6

-----------------------------------------------------------------------------
(* Types *)

LEMMA InitTypeOK == Init => TypeOK
<1> SUFFICES ASSUME Init PROVE TypeOK
  OBVIOUS
<1>1. NextDelay(0) = 1000
  BY NextDelayIsLadder DEF Ladder
<1>2. /\ control \in Conns \cup {None}
      /\ reconnectTimer \in {"null", "armed"}
      /\ nextReconnectMs \in {0, 1000}
      /\ ctl \in [Conns -> WsState]
  <2>1. CASE dialThrows
    BY <1>1, <2>1 DEF Init, WsState
  <2>2. CASE ~dialThrows
    BY <2>2 DEF Init, WsState
  <2> QED
    BY <2>1, <2>2
<1>3. /\ stopped \in BOOLEAN
      /\ dataPipes \in SUBSET Streams
      /\ dataWs \in [Streams -> WsState]
      /\ local \in [Streams -> LocalState]
  BY DEF Init, WsState, LocalState
<1>4. dialThrows \in BOOLEAN
  BY DEF Init
<1> QED
  BY <1>2, <1>3, <1>4 DEF TypeOK

LEMMA NextTypeOK == TypeOK /\ [Next]_vars => TypeOK'
<1> SUFFICES ASSUME TypeOK, [Next]_vars PROVE TypeOK'
  OBVIOUS
<1>1. ScheduleReconnect => /\ reconnectTimer' = "armed"
                           /\ nextReconnectMs' \in {1000, 2000, 5000, 10000}
  BY NextDelayIsLadder DEF ScheduleReconnect, TypeOK
<1> USE DEF TypeOK, WsState, LocalState, supervisorVars, streamVars
<1>2. CASE ReconnectTimerFires
  <2>1. CASE stopped
    BY <1>2, <2>1 DEF ReconnectTimerFires
  <2>2. ASSUME NEW c \in Conns, ~stopped, DialectControl(c)
        PROVE  TypeOK'
    <3>1. CASE dialThrows
      BY <1>1, <1>2, <2>2, <3>1 DEF ReconnectTimerFires, DialectControl
    <3>2. CASE ~dialThrows
      BY <1>2, <2>2, <3>2 DEF ReconnectTimerFires, DialectControl
    <3> QED
      BY <3>1, <3>2
  <2> QED
    BY <1>2, <2>1, <2>2 DEF ReconnectTimerFires
<1>3. ASSUME NEW c \in Conns,
             \/ ControlOpen(c) \/ ControlError(c) \/ ControlDropped(c)
             \/ ControlClose(c) \/ \E s \in Streams : ControlMessage(c, s)
      PROVE  TypeOK'
  <2>1. CASE ControlOpen(c)
    BY <2>1 DEF ControlOpen
  <2>2. CASE ControlError(c)
    BY <2>2 DEF ControlError
  <2>3. CASE ControlDropped(c)
    BY <2>3 DEF ControlDropped
  <2>4. CASE ControlClose(c)
    BY <1>1, <2>4 DEF ControlClose
  <2>5. ASSUME NEW s \in Streams, ControlMessage(c, s)
        PROVE  TypeOK'
    BY <2>5 DEF ControlMessage
  <2> QED
    BY <1>3, <2>1, <2>2, <2>3, <2>4, <2>5
<1>4. ASSUME NEW s \in Streams,
             \/ DataOpen(s) \/ DataError(s) \/ DataDropped(s) \/ DataClose(s)
             \/ LocalEnd(s) \/ LocalError(s) \/ LocalFinished(s)
      PROVE  TypeOK'
  <2>1. CASE DataOpen(s)
    BY <2>1 DEF DataOpen
  <2>2. CASE DataError(s) \/ DataDropped(s) \/ DataClose(s)
    BY <2>2 DEF DataError, DataDropped, DataClose
  <2>3. CASE LocalEnd(s) \/ LocalError(s) \/ LocalFinished(s)
    BY <2>3 DEF LocalEnd, LocalError, LocalFinished, Closing
  <2> QED
    BY <1>4, <2>1, <2>2, <2>3
<1>5. CASE Close
  BY <1>5 DEF Close, Closing
<1>6. CASE UNCHANGED vars
  BY <1>6 DEF vars
<1> QED
  BY <1>2, <1>3, <1>4, <1>5, <1>6 DEF Next, ControlNext, StreamNext

\* Every variable keeps its type; in particular the wait is always one of the
\* table of tunnel-client.ts:70.
THEOREM TypeCorrect == Spec => []TypeOK
BY InitTypeOK, NextTypeOK, PTL DEF Spec

-----------------------------------------------------------------------------
(* The inductive invariant: its parts hold together or not at all.  A control  *)
(* socket is alive or the timer is armed (SupervisedControl) because a socket  *)
(* whose 'close' schedules the reconnect is still to close; what close() can   *)
(* reach (ControlReachable, PipesExact) is what StoppedQuiet rests on.         *)

LEMMA InitIInv == Init => IInv
<1> SUFFICES ASSUME Init PROVE IInv
  OBVIOUS
<1>1. SupervisedControl /\ ControlReachable
  <2>1. CASE dialThrows
    BY <2>1, NoneAssumption DEF Init, SupervisedControl, ControlReachable, Alive
  <2>2. CASE ~dialThrows
    <3>1. PICK c \in Conns :
            /\ ctl = [d \in Conns |-> IF d = c THEN "connecting" ELSE "absent"]
            /\ control = c
      BY <2>2 DEF Init
    <3>2. reconnectTimer = "null" /\ ~stopped
      BY <2>2 DEF Init
    <3> QED
      BY <3>1, <3>2, NoneAssumption DEF SupervisedControl, ControlReachable, Alive
  <2> QED
    BY <2>1, <2>2
<1>2. PipesExact /\ StoppedQuiet
  BY DEF Init, PipesExact, StoppedQuiet
<1> QED
  BY InitTypeOK, <1>1, <1>2 DEF IInv

\* The control socket's callbacks and the timer leave the streams alone, but
\* for the message that makes a new one.
LEMMA ControlPreservesStreams ==
  ASSUME IInv,
         \/ UNCHANGED dataWs
         \/ \E s \in Streams :
              dataWs[s] = "absent" /\ dataWs' = [dataWs EXCEPT ![s] = "connecting"],
         UNCHANGED <<dataPipes, local>>
  PROVE  PipesExact'
<1> USE DEF IInv, TypeOK, PipesExact
<1>1. CASE UNCHANGED dataWs
  BY <1>1
<1>2. ASSUME NEW s \in Streams, dataWs[s] = "absent",
             dataWs' = [dataWs EXCEPT ![s] = "connecting"]
      PROVE  PipesExact'
  BY <1>2
<1> QED
  BY <1>1, <1>2

LEMMA TimerPreserves == IInv /\ ReconnectTimerFires => IInv'
<1> SUFFICES ASSUME IInv, ReconnectTimerFires PROVE IInv'
  OBVIOUS
<1>1. TypeOK'
  BY NextTypeOK DEF IInv, Next
<1>2. PipesExact'
  BY ControlPreservesStreams DEF ReconnectTimerFires, streamVars
<1>3. ~stopped
  BY DEF ReconnectTimerFires, IInv, StoppedQuiet
<1>4. \A c \in Conns : ctl[c] = "absent"
  BY <1>3 DEF ReconnectTimerFires, IInv, SupervisedControl, Alive
<1>5. control = None
  BY <1>4, NoneAssumption DEF IInv, TypeOK, ControlReachable, Alive
<1>6. PICK c \in Conns : DialectControl(c)
  BY <1>3 DEF ReconnectTimerFires
<1>7. CASE dialThrows
  <2>1. reconnectTimer' = "armed" /\ UNCHANGED <<control, ctl, stopped>>
    BY <1>6, <1>7 DEF DialectControl, ScheduleReconnect, ReconnectTimerFires
  <2> QED
    BY <1>1, <1>2, <1>3, <1>4, <1>5, <2>1
    DEF IInv, SupervisedControl, ControlReachable, StoppedQuiet, Alive
<1>8. CASE ~dialThrows
  <2>1. /\ ctl' = [ctl EXCEPT ![c] = "connecting"]
        /\ control' = c
        /\ reconnectTimer' = "null"
        /\ ~stopped'
    BY <1>3, <1>6, <1>8 DEF DialectControl, ReconnectTimerFires
  <2>2. \A d \in Conns : ctl'[d] = IF d = c THEN "connecting" ELSE "absent"
    BY <1>4, <2>1 DEF IInv, TypeOK
  <2> QED
    BY <1>1, <1>2, <2>1, <2>2, NoneAssumption
    DEF IInv, SupervisedControl, ControlReachable, StoppedQuiet, Alive
<1> QED
  BY <1>7, <1>8

LEMMA ControlPreserves == IInv /\ ControlNext => IInv'
<1> SUFFICES ASSUME IInv, NEW c \in Conns,
                    \/ ControlOpen(c) \/ ControlError(c) \/ ControlDropped(c)
                    \/ ControlClose(c) \/ \E s \in Streams : ControlMessage(c, s)
             PROVE  IInv'
  BY DEF ControlNext
<1>1. TypeOK'
  BY NextTypeOK DEF IInv, Next, ControlNext
<1>2. PipesExact'
  BY ControlPreservesStreams
  DEF ControlOpen, ControlError, ControlDropped, ControlClose, ControlMessage, streamVars
<1> USE NoneAssumption
        DEF IInv, TypeOK, SupervisedControl, ControlReachable, StoppedQuiet, Alive,
            supervisorVars, streamVars
<1>3. CASE ControlOpen(c)
  BY <1>1, <1>2, <1>3 DEF ControlOpen
<1>4. CASE ControlError(c)
  BY <1>1, <1>2, <1>4 DEF ControlError
<1>5. CASE ControlDropped(c)
  BY <1>1, <1>2, <1>5 DEF ControlDropped
<1>6. CASE ControlClose(c)
  BY <1>1, <1>2, <1>6 DEF ControlClose, ScheduleReconnect
<1>7. ASSUME NEW s \in Streams, ControlMessage(c, s)
      PROVE  IInv'
  BY <1>1, <1>2, <1>7 DEF ControlMessage
<1> QED
  BY <1>3, <1>4, <1>5, <1>6, <1>7

LEMMA StreamPreserves == IInv /\ StreamNext => IInv'
<1> SUFFICES ASSUME IInv, NEW s \in Streams,
                    \/ DataOpen(s) \/ DataError(s) \/ DataDropped(s) \/ DataClose(s)
                    \/ LocalEnd(s) \/ LocalError(s) \/ LocalFinished(s)
             PROVE  IInv'
  BY DEF StreamNext
<1> USE DEF supervisorVars
<1>1. TypeOK'
  BY NextTypeOK DEF IInv, Next, StreamNext
<1>2. SupervisedControl' /\ ControlReachable'
  BY DEF IInv, SupervisedControl, ControlReachable, Alive, DataOpen, DataError,
     DataDropped, DataClose, LocalEnd, LocalError, LocalFinished
<1> USE DEF IInv, TypeOK, PipesExact, StoppedQuiet, Closing
<1>3. CASE DataOpen(s)
  BY <1>1, <1>2, <1>3 DEF DataOpen
<1>4. CASE DataError(s)
  BY <1>1, <1>2, <1>4 DEF DataError
<1>5. CASE DataDropped(s)
  BY <1>1, <1>2, <1>5 DEF DataDropped
<1>6. CASE DataClose(s)
  BY <1>1, <1>2, <1>6 DEF DataClose
<1>7. CASE LocalEnd(s)
  BY <1>1, <1>2, <1>7 DEF LocalEnd
<1>8. CASE LocalError(s)
  BY <1>1, <1>2, <1>8 DEF LocalError
<1>9. CASE LocalFinished(s)
  BY <1>1, <1>2, <1>9 DEF LocalFinished
<1> QED
  BY <1>3, <1>4, <1>5, <1>6, <1>7, <1>8, <1>9

LEMMA ClosePreserves == IInv /\ Close => IInv'
<1> SUFFICES ASSUME IInv, Close PROVE IInv'
  OBVIOUS
<1>1. TypeOK'
  BY NextTypeOK DEF IInv, Next
<1> USE DEF IInv, TypeOK, Close, Closing
<1>2. SupervisedControl'
  BY DEF SupervisedControl, Alive
<1>3. ControlReachable'
  BY DEF ControlReachable, Alive, WsState
<1>4. PipesExact'
  BY DEF PipesExact
<1>5. StoppedQuiet'
  BY DEF ControlReachable, PipesExact, StoppedQuiet, WsState
<1> QED
  BY <1>1, <1>2, <1>3, <1>4, <1>5

LEMMA StutterPreserves == IInv /\ UNCHANGED vars => IInv'
BY DEF vars, IInv, TypeOK, SupervisedControl, ControlReachable, PipesExact,
   StoppedQuiet, Alive

LEMMA NextIInv == IInv /\ [Next]_vars => IInv'
BY TimerPreserves, ControlPreserves, StreamPreserves, ClosePreserves,
   StutterPreserves DEF Next

LEMMA Inductive == Spec => []IInv
BY InitIInv, NextIInv, PTL DEF Spec

-----------------------------------------------------------------------------
(* What follows *)

\* Exactly one reconnect chain: never two control sockets, never a socket and
\* an armed timer, never neither (tunnel-client.ts:120-131, 184-211).
THEOREM OneReconnectChain == Spec => []SupervisedControl
BY Inductive, PTL DEF IInv

\* Every usable control socket, and every stream in use, is in the reach of
\* close(), and after it nothing is armed, piped or usable, whatever late callback
\* comes (tunnel-client.ts:133, 147-180, 251-338).
THEOREM AllInReach == Spec => []NothingOutOfReach
<1>1. IInv => NothingOutOfReach
  BY DEF IInv, NothingOutOfReach
<1> QED
  BY <1>1, Inductive, PTL

LEMMA LadderStep == IInv /\ [Next]_vars => ClimbsLadder
<1> SUFFICES ASSUME IInv, [Next]_vars PROVE ClimbsLadder
  OBVIOUS
<1> USE DEF ClimbsLadder
<1>1. nextReconnectMs \in {0, 1000, 2000, 5000, 10000}
  BY DEF IInv, TypeOK
<1>2. ASSUME ScheduleReconnect PROVE ClimbsLadder
  <2>1. <<nextReconnectMs, nextReconnectMs'>> \in Ladder
    BY <1>1, <1>2, NextDelayIsLadder DEF ScheduleReconnect
  <2>2. nextReconnectMs' >= nextReconnectMs
    BY <1>1, <2>1 DEF Ladder
  <2>3. ~(nextReconnectMs' < nextReconnectMs)
    BY <1>1, <2>1, <2>2 DEF Ladder
  <2> QED
    BY <2>1, <2>3
<1>3. ASSUME UNCHANGED <<reconnectTimer, nextReconnectMs>> PROVE ClimbsLadder
  BY <1>1, <1>3
<1>4. CASE ReconnectTimerFires
  <2>1. PICK c \in Conns : DialectControl(c)
    BY <1>4 DEF ReconnectTimerFires, IInv, StoppedQuiet
  <2>2. CASE dialThrows
    BY <1>2, <2>1, <2>2 DEF DialectControl
  <2>3. CASE ~dialThrows
    <3>1. UNCHANGED nextReconnectMs /\ reconnectTimer' = "null"
      BY <2>1, <2>3 DEF DialectControl
    <3> QED
      BY <1>1, <3>1
  <2> QED
    BY <2>2, <2>3
<1>5. CASE ControlNext
  <2>1. PICK c \in Conns :
          \/ ControlOpen(c) \/ ControlError(c) \/ ControlDropped(c)
          \/ ControlClose(c) \/ \E s \in Streams : ControlMessage(c, s)
    BY <1>5 DEF ControlNext
  <2>2. CASE ControlOpen(c)
    <3>1. CASE stopped
      BY <1>3, <2>2, <3>1 DEF ControlOpen
    <3>2. CASE ~stopped
      <4>1. /\ ctl[c] = "connecting" /\ ctl'[c] = "open"
            /\ nextReconnectMs' = 0
            /\ UNCHANGED reconnectTimer
        BY <2>2, <3>2 DEF ControlOpen, IInv, TypeOK
      <4> QED
        BY <1>1, <4>1
    <3> QED
      BY <3>1, <3>2
  <2>3. CASE ControlClose(c)
    BY <1>2, <1>3, <2>3 DEF ControlClose
  <2>4. CASE ControlError(c) \/ ControlDropped(c) \/ \E s \in Streams : ControlMessage(c, s)
    BY <1>3, <2>4 DEF ControlError, ControlDropped, ControlMessage, supervisorVars
  <2> QED
    BY <2>1, <2>2, <2>3, <2>4
<1>6. CASE StreamNext
  BY <1>3, <1>6 DEF StreamNext, DataOpen, DataError, DataDropped, DataClose,
     LocalEnd, LocalError, LocalFinished, supervisorVars
<1>7. CASE Close
  BY <1>1, <1>7 DEF Close
<1>8. CASE UNCHANGED vars
  BY <1>3, <1>8 DEF vars
<1> QED
  BY <1>4, <1>5, <1>6, <1>7, <1>8 DEF Next

\* The wait before a reconnect always is the next one of 1 s, 2 s, 5 s, 10 s,
\* 10 s, ... and starts over only when a control socket has opened
\* (tunnel-client.ts:8, 93, 190-198).
THEOREM BackoffFollowsLadder == Spec => BackoffLadder
BY LadderStep, Inductive, PTL DEF Spec, BackoffLadder

LEMMA StoppedStep == IInv /\ [Next]_vars => [stopped => OnlyCloses]_vars
<1> SUFFICES ASSUME IInv, Next, stopped PROVE OnlyCloses
  OBVIOUS
<1>1. ~ReconnectTimerFires /\ ~Close
  BY DEF IInv, ReconnectTimerFires, Close, StoppedQuiet
<1>2. ASSUME NEW c \in Conns,
             \/ ControlOpen(c) \/ ControlError(c) \/ ControlDropped(c)
             \/ ControlClose(c) \/ \E s \in Streams : ControlMessage(c, s)
      PROVE  OnlyCloses
  <2>1. ctl[c] \notin {"connecting", "open"}
    BY DEF IInv, StoppedQuiet
  <2>2. ControlClose(c)
    BY <1>2, <2>1 DEF ControlOpen, ControlError, ControlDropped, ControlMessage
  <2> QED
    BY <2>2 DEF ControlClose, OnlyCloses, IInv, TypeOK, streamVars
<1>3. ASSUME NEW s \in Streams,
             \/ DataOpen(s) \/ DataError(s) \/ DataDropped(s) \/ DataClose(s)
             \/ LocalEnd(s) \/ LocalError(s) \/ LocalFinished(s)
      PROVE  OnlyCloses
  <2> USE DEF IInv, TypeOK, OnlyCloses, supervisorVars
  <2>1. CASE DataOpen(s)
    BY <2>1 DEF DataOpen
  <2>2. CASE DataError(s)
    BY <2>2 DEF DataError
  <2>3. CASE DataDropped(s)
    BY <2>3 DEF DataDropped
  <2>4. CASE DataClose(s)
    BY <2>4 DEF DataClose
  <2>5. CASE LocalEnd(s)
    BY <2>5 DEF LocalEnd, Closing
  <2>6. CASE LocalError(s)
    BY <2>6 DEF LocalError, Closing
  <2>7. CASE LocalFinished(s)
    BY <2>7 DEF LocalFinished
  <2> QED
    BY <1>3, <2>1, <2>2, <2>3, <2>4, <2>5, <2>6, <2>7
<1> QED
  BY <1>1, <1>2, <1>3 DEF Next, ControlNext, StreamNext

\* A stopped client stays stopped, and no callback that still comes opens,
\* dials or pipes anything (tunnel-client.ts:74, 84, 97, 188, 214, 225).
THEOREM StoppedForGood == Spec => NothingStartsAfterClose
BY StoppedStep, Inductive, PTL DEF Spec, NothingStartsAfterClose

-----------------------------------------------------------------------------
(* The control link implements its abstract specification *)

LEMMA Rungs ==
  /\ RungOf(0) = 0 /\ RungOf(1000) = 1 /\ RungOf(2000) = 2
  /\ RungOf(5000) = 3 /\ RungOf(10000) = 4
<1>1. reconnectBackoff = <<1000, 2000, 5000, 10000>> /\ Len(reconnectBackoff) = 4
  BY DEF reconnectBackoff
<1>2. \A i \in 1..4 : i = 1 \/ i = 2 \/ i = 3 \/ i = 4
  OBVIOUS
<1>3. /\ reconnectBackoff[1] = 1000 /\ reconnectBackoff[2] = 2000
      /\ reconnectBackoff[3] = 5000 /\ reconnectBackoff[4] = 10000
  BY <1>1
<1>4. ASSUME NEW k \in 1..4
      PROVE  (CHOOSE i \in 1..4 : reconnectBackoff[i] = reconnectBackoff[k]) = k
  <2>1. \A i \in 1..4 : reconnectBackoff[i] = reconnectBackoff[k] => i = k
    BY <1>2, <1>3
  <2> QED
    BY <2>1
<1>5. \A k \in 1..4 : RungOf(reconnectBackoff[k]) = k
  BY <1>1, <1>2, <1>3, <1>4 DEF RungOf
<1>6. RungOf(0) = 0
  BY DEF RungOf
<1> QED
  BY <1>3, <1>5, <1>6

\* The next wait is one rung up, or the last one again.
LEMMA ScheduleClimbs ==
  ASSUME NEW ms \in {0, 1000, 2000, 5000, 10000}
  PROVE  RungOf(NextDelay(ms)) = IF RungOf(ms) < Len(reconnectBackoff)
                                 THEN RungOf(ms) + 1 ELSE RungOf(ms)
<1>1. Len(reconnectBackoff) = 4
  BY DEF reconnectBackoff
<1> QED
  BY <1>1, Rungs, NextDelayIsLadder DEF Ladder

\* The phase of the abstract supervisor, told from the socket that is alive.
LEMMA Phases ==
  ASSUME IInv, ~stopped
  PROVE  /\ reconnectTimer = "armed" <=> LinkPhase = "waiting"
         /\ \A c \in Conns :
              /\ ctl[c] = "open" => LinkPhase = "up"
              /\ ctl[c] = "connecting" => LinkPhase = "trying"
              /\ ctl[c] = "closing" => LinkPhase = "losing"
<1> USE DEF IInv, TypeOK, SupervisedControl, Alive, LinkPhase
<1>1. reconnectTimer = "armed" <=> LinkPhase = "waiting"
  OBVIOUS
<1>2. ASSUME NEW c \in Conns, ctl[c] # "absent"
      PROVE  reconnectTimer = "null" /\ \A d \in Conns : ctl[d] # "absent" => d = c
  BY <1>2
<1> QED
  BY <1>1, <1>2

\* The same of the next state.
LEMMA NextPhases ==
  ASSUME IInv', ~stopped'
  PROVE  /\ reconnectTimer' = "armed" <=> LinkPhase' = "waiting"
         /\ \A c \in Conns :
              /\ ctl'[c] = "open" => LinkPhase' = "up"
              /\ ctl'[c] = "connecting" => LinkPhase' = "trying"
              /\ ctl'[c] = "closing" => LinkPhase' = "losing"
<1> USE DEF IInv, TypeOK, SupervisedControl, Alive, LinkPhase
<1>1. reconnectTimer' = "armed" <=> LinkPhase' = "waiting"
  OBVIOUS
<1>2. ASSUME NEW c \in Conns, ctl'[c] # "absent"
      PROVE  reconnectTimer' = "null" /\ \A d \in Conns : ctl'[d] # "absent" => d = c
  BY <1>2
<1> QED
  BY <1>1, <1>2

LEMMA StoppedPhase == /\ stopped => LinkPhase = "stopped"
                      /\ stopped' => LinkPhase' = "stopped"
BY DEF LinkPhase

LEMMA LinkInit == Init => Link!Init
<1> SUFFICES ASSUME Init PROVE Link!Init
  OBVIOUS
<1>1. ~stopped /\ IInv
  BY InitIInv DEF Init
<1>2. NextDelay(0) = 1000
  BY NextDelayIsLadder DEF Ladder
<1>3. CASE dialThrows
  <2>1. reconnectTimer = "armed" /\ nextReconnectMs = 1000
    BY <1>2, <1>3 DEF Init
  <2> QED
    BY <1>1, <2>1, Phases, Rungs DEF Link!Init
<1>4. CASE ~dialThrows
  <2>1. PICK c \in Conns :
          ctl = [d \in Conns |-> IF d = c THEN "connecting" ELSE "absent"]
    BY <1>4 DEF Init
  <2>2. ctl[c] = "connecting" /\ nextReconnectMs = 0
    BY <1>4, <2>1 DEF Init
  <2>3. LinkPhase = "trying"
    BY <1>1, <2>1, <2>2, Phases
  <2> QED
    BY <2>2, <2>3, Rungs DEF Link!Init
<1> QED
  BY <1>3, <1>4

LEMMA LinkStep == IInv /\ [Next]_vars => [Link!Next]_(Link!vars)
<1> SUFFICES ASSUME IInv, Next PROVE Link!Next \/ UNCHANGED Link!vars
  <2>1. UNCHANGED vars => UNCHANGED Link!vars
    BY DEF vars, Link!vars, LinkPhase, RungOf
  <2> QED
    BY <2>1
<1>1. IInv'
  BY NextIInv
<1>2. nextReconnectMs \in {0, 1000, 2000, 5000, 10000}
  BY DEF IInv, TypeOK
<1>3. ASSUME ScheduleReconnect
      PROVE  Link!Climb /\ reconnectTimer' = "armed"
  BY <1>2, <1>3, ScheduleClimbs DEF ScheduleReconnect, Link!Climb
<1>4. ASSUME UNCHANGED <<stopped, reconnectTimer, nextReconnectMs, ctl>>
      PROVE  UNCHANGED Link!vars
  BY <1>4 DEF Link!vars, LinkPhase, RungOf
<1>5. CASE ReconnectTimerFires
  <2>1. ~stopped /\ ~stopped' /\ reconnectTimer = "armed"
    BY <1>5 DEF ReconnectTimerFires, IInv, StoppedQuiet
  <2>2. PICK c \in Conns : DialectControl(c)
    BY <1>5, <2>1 DEF ReconnectTimerFires
  <2>3. LinkPhase = "waiting"
    BY <2>1, Phases
  <2>4. CASE dialThrows
    <3>1. Link!Climb /\ reconnectTimer' = "armed"
      BY <1>3, <2>2, <2>4 DEF DialectControl
    <3>2. LinkPhase' = "waiting"
      BY <1>1, <2>1, <3>1, NextPhases
    <3> QED
      BY <2>3, <3>1, <3>2 DEF Link!Next, Link!WaitAgain
  <2>5. CASE ~dialThrows
    <3>1. ctl'[c] = "connecting" /\ UNCHANGED nextReconnectMs
      BY <2>2, <2>5 DEF DialectControl, IInv, TypeOK
    <3>2. LinkPhase' = "trying"
      BY <1>1, <2>1, <3>1, NextPhases
    <3> QED
      BY <2>3, <3>1, <3>2 DEF Link!Next, Link!Retry
  <2> QED
    BY <2>4, <2>5
<1>6. CASE Close
  <2>1. LinkPhase # "stopped" /\ LinkPhase' = "stopped" /\ UNCHANGED nextReconnectMs
    BY <1>6 DEF Close, LinkPhase
  <2> QED
    BY <2>1 DEF Link!Next, Link!Stop
<1>7. CASE StreamNext
  BY <1>4, <1>7 DEF StreamNext, DataOpen, DataError, DataDropped, DataClose,
     LocalEnd, LocalError, LocalFinished, supervisorVars
<1>8. CASE ControlNext
  <2>1. PICK c \in Conns :
          \/ ControlOpen(c) \/ ControlError(c) \/ ControlDropped(c)
          \/ ControlClose(c) \/ \E s \in Streams : ControlMessage(c, s)
    BY <1>8 DEF ControlNext
  <2>2. UNCHANGED stopped
    BY <2>1 DEF ControlOpen, ControlError, ControlDropped, ControlClose,
       ControlMessage, supervisorVars
  <2>3. ASSUME stopped PROVE Link!Next \/ UNCHANGED Link!vars
    <3>1. LinkPhase = "stopped" /\ LinkPhase' = "stopped"
      BY <2>2, <2>3, StoppedPhase
    <3>2. ctl[c] \notin {"connecting", "open"}
      BY <2>3 DEF IInv, StoppedQuiet
    <3>3. UNCHANGED nextReconnectMs
      BY <2>1, <2>3, <3>2 DEF ControlOpen, ControlError, ControlDropped,
         ControlClose, ControlMessage
    <3> QED
      BY <3>1, <3>3 DEF Link!vars
  <2>4. CASE ~stopped /\ ControlOpen(c)
    <3>1. ctl[c] = "connecting" /\ ctl'[c] = "open" /\ nextReconnectMs' = 0
      BY <2>4 DEF ControlOpen, IInv, TypeOK
    <3>2. LinkPhase = "trying"
      BY <2>4, <3>1, Phases
    <3>3. LinkPhase' = "up"
      BY <1>1, <2>2, <2>4, <3>1, NextPhases
    <3> QED
      BY <3>1, <3>2, <3>3, Rungs DEF Link!Next, Link!Up
  <2>5. CASE ~stopped /\ (ControlError(c) \/ ControlDropped(c))
    <3>1. /\ ctl[c] \in {"connecting", "open"}
          /\ ctl'[c] = "closing"
          /\ UNCHANGED nextReconnectMs
      BY <2>5 DEF ControlError, ControlDropped, IInv, TypeOK, supervisorVars
    <3>2. LinkPhase \in {"trying", "up"}
      BY <2>5, <3>1, Phases
    <3>3. LinkPhase' = "losing"
      BY <1>1, <2>2, <2>5, <3>1, NextPhases
    <3> QED
      BY <3>1, <3>2, <3>3 DEF Link!Next, Link!Lose
  <2>6. CASE ~stopped /\ ControlClose(c)
    <3>1. ctl[c] = "closing" /\ ScheduleReconnect
      BY <2>6 DEF ControlClose
    <3>2. LinkPhase = "losing"
      BY <2>6, <3>1, Phases
    <3>3. LinkPhase' = "waiting"
      BY <1>1, <1>3, <2>2, <2>6, <3>1, NextPhases
    <3> QED
      BY <1>3, <3>1, <3>2, <3>3 DEF Link!Next, Link!WaitAgain
  <2>7. CASE \E s \in Streams : ControlMessage(c, s)
    BY <1>4, <2>7 DEF ControlMessage, supervisorVars
  <2> QED
    BY <2>1, <2>3, <2>4, <2>5, <2>6, <2>7
<1> QED
  BY <1>5, <1>6, <1>7, <1>8 DEF Next

\* The control link is an implementation of LinkSupervisor: seen from outside,
\* the two handlers that clear the pointer, the timer and the arithmetic of the
\* delay are one link with one ladder of waits (tunnel-client.ts:73-142, 184-211).
THEOREM ImplementsLinkSupervisor == Spec => RefinesLinkSupervisor
BY LinkInit, LinkStep, Inductive, PTL DEF Spec, RefinesLinkSupervisor, Link!Spec

=============================================================================
