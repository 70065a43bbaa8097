--------------------------- MODULE TunnelPipeProofs ---------------------------
(***************************************************************************)
(* For any number of pieces: a relayed connection loses what is under way  *)
(* only to an end or a failure, and each direction is a byte stream.       *)
(*                                                                         *)
(* OnlyEndsLose is not inductive: that a piece is dropped is decided by    *)
(* the guard of the data handlers, so Phases says which states of the two  *)
(* sockets go with a stream that is still piped, and DownInv and UpInv     *)
(* that after the first loss nothing is passed on that way.                *)
(***************************************************************************)
EXTENDS TunnelPipe, TLAPS

LEMMA Initially == Init => IInv
BY DEF Init, IInv, TypeOK, Ws, Tcp, Down, Up, Phases, DownInv, UpInv, Shut, OnlyEndsLose

LEMMA StopKeepsShape == TypeOK /\ Phases /\ Stop => TypeOK' /\ Phases'
BY DEF TypeOK, Ws, Tcp, Down, Up, Phases, Stop, Destroy, Lose, Unpipe

LEMMA StepKeeps == IInv /\ [Next]_vars => IInv'
<1> SUFFICES ASSUME IInv, [Next]_vars PROVE IInv'
  OBVIOUS
<1> USE ChunksAssumption
    DEF IInv, TypeOK, Ws, Tcp, Down, Up, Phases, DownInv, UpInv, Shut, OnlyEndsLose, Forwards
<1>1. ASSUME NEW i \in Chunks, Message(i) PROVE IInv'
  BY <1>1 DEF Message, Next1
<1>2. ASSUME NEW i \in Chunks, LocalWritten(i) PROVE IInv'
  BY <1>2 DEF LocalWritten, Next1
<1>3. ASSUME NEW i \in Chunks, LocalData(i) PROVE IInv'
  BY <1>3 DEF LocalData, Next1
<1>4. ASSUME NEW i \in Chunks, GatewayReceives(i) PROVE IInv'
  BY <1>4 DEF GatewayReceives, Next1
<1>5. ASSUME NEW i \in Chunks, GatewaySends(i) PROVE IInv'
  BY <1>5 DEF GatewaySends, Next1
<1>6. ASSUME NEW i \in Chunks, GameSends(i) PROVE IInv'
  BY <1>6 DEF GameSends, Next1
<1>7. CASE GameEnds
  BY <1>7 DEF GameEnds
<1>8. CASE GatewayHangsUp
  BY <1>8 DEF GatewayHangsUp
<1>9. CASE LocalEnd
  BY <1>9 DEF LocalEnd, None, Unpipe, Close
<1>10. CASE LocalFinished
  BY <1>10 DEF LocalFinished, None
<1>11. CASE CloseFrame
  BY <1>11 DEF CloseFrame, None
<1>12. CASE DataClosed
  BY <1>12 DEF DataClosed, None, Lose, Unpipe
<1>13. CASE DataOpen
  BY <1>13 DEF DataOpen
<1>14. CASE LocalConnected
  BY <1>14 DEF LocalConnected
<1>15. CASE LocalError
  BY <1>15 DEF LocalError, Destroy, Lose, Unpipe
<1>16. CASE DataError
  BY <1>16 DEF DataError, Lose, Unpipe
<1>17. CASE Stop
  <2>1. TypeOK' /\ Phases'
    BY <1>17, StopKeepsShape
  <2>2. DownInv' /\ UpInv' /\ OnlyEndsLose'
    BY <1>17 DEF Stop, Destroy, Lose, Unpipe
  <2> QED
    BY <2>1, <2>2
<1>18. CASE UNCHANGED vars
  BY <1>18 DEF vars
<1> QED
  BY <1>1, <1>2, <1>3, <1>4, <1>5, <1>6, <1>7, <1>8, <1>9,
     <1>10, <1>11, <1>12, <1>13, <1>14, <1>15, <1>16, <1>17, <1>18
     DEF Next, Bytes, Peers, Ends

LEMMA Inductive == Spec => []IInv
BY Initially, StepKeeps, PTL DEF Spec

\* Whatever the order of data, ends and failures, a piece is lost only to a failure,
\* to a stop or to an end (tunnel-client.ts:165-177, 224-338).
THEOREM OnlyEndsLoseAlways == Spec => []OnlyEndsLose
<1>1. IInv => OnlyEndsLose
  BY DEF IInv
<1> QED
  BY <1>1, Inductive, PTL

-----------------------------------------------------------------------------
(* The streams                                                             *)

LEMMA StreamsInit == Init => GameStream!StreamInit /\ GatewayStream!StreamInit
BY DEF Init, GameStream!StreamInit, GatewayStream!StreamInit

LEMMA DownSteps == IInv /\ [Next]_vars =>
  [\E i \in Chunks : GameStream!Write(i) \/ GameStream!Receive(i)]_<<
     {i \in Chunks : toGame[i] # "gateway"}, {i \in Chunks : toGame[i] = "game"}>>
<1> DEFINE written == {i \in Chunks : toGame[i] # "gateway"}
           received == {i \in Chunks : toGame[i] = "game"}
<1> SUFFICES ASSUME IInv, [Next]_vars
             PROVE  \/ \E i \in Chunks : GameStream!Write(i) \/ GameStream!Receive(i)
                    \/ written' = written /\ received' = received
  OBVIOUS
<1> USE ChunksAssumption DEF IInv, TypeOK, Down, Phases, DownInv, Shut, Forwards
<1>1. ASSUME NEW i \in Chunks, GatewaySends(i) PROVE GameStream!Write(i)
  BY <1>1 DEF GatewaySends, Next1, GameStream!Write
<1>2. ASSUME NEW i \in Chunks, LocalWritten(i) PROVE GameStream!Receive(i)
  BY <1>2 DEF LocalWritten, Next1, GameStream!Receive
<1>3. ASSUME NEW i \in Chunks, Message(i) PROVE written' = written /\ received' = received
  BY <1>3 DEF Message, Next1
<1>4. ASSUME toGame' = Lose(toGame, {"local"}) \/ toGame' = Lose(toGame, {"ws", "local"})
      PROVE  written' = written /\ received' = received
  BY <1>4 DEF Lose
<1>5. CASE UNCHANGED toGame
  BY <1>5
<1> QED
  BY <1>1, <1>2, <1>3, <1>4, <1>5
     DEF Next, Bytes, Peers, Ends, vars, LocalData, GatewayReceives, GameSends, GameEnds,
         GatewayHangsUp, LocalEnd, LocalFinished, CloseFrame, DataClosed, DataOpen,
         LocalConnected, LocalError, DataError, Stop, Destroy

LEMMA UpSteps == IInv /\ [Next]_vars =>
  [\E i \in Chunks : GatewayStream!Write(i) \/ GatewayStream!Receive(i)]_<<
     {i \in Chunks : toGateway[i] # "game"}, {i \in Chunks : toGateway[i] = "gateway"}>>
<1> DEFINE written == {i \in Chunks : toGateway[i] # "game"}
           received == {i \in Chunks : toGateway[i] = "gateway"}
<1> SUFFICES ASSUME IInv, [Next]_vars
             PROVE  \/ \E i \in Chunks : GatewayStream!Write(i) \/ GatewayStream!Receive(i)
                    \/ written' = written /\ received' = received
  OBVIOUS
<1> USE ChunksAssumption DEF IInv, TypeOK, Up, Phases, UpInv, Shut, Forwards
<1>1. ASSUME NEW i \in Chunks, GameSends(i) PROVE GatewayStream!Write(i)
  BY <1>1 DEF GameSends, Next1, GatewayStream!Write
<1>2. ASSUME NEW i \in Chunks, GatewayReceives(i) PROVE GatewayStream!Receive(i)
  BY <1>2 DEF GatewayReceives, Next1, GatewayStream!Receive
<1>3. ASSUME NEW i \in Chunks, LocalData(i) PROVE written' = written /\ received' = received
  BY <1>3 DEF LocalData, Next1
<1>4. ASSUME \/ toGateway' = Lose(toGateway, {"local"})
             \/ toGateway' = Lose(toGateway, {"ws", "local"})
      PROVE  written' = written /\ received' = received
  BY <1>4 DEF Lose
<1>5. CASE UNCHANGED toGateway
  BY <1>5
<1> QED
  BY <1>1, <1>2, <1>3, <1>4, <1>5
     DEF Next, Bytes, Peers, Ends, vars, Message, LocalWritten, GatewaySends, GameEnds,
         GatewayHangsUp, LocalEnd, Close, LocalFinished, CloseFrame, DataClosed, DataOpen,
         LocalConnected, LocalError, DataError, Stop, Destroy

\* Both directions of a relayed connection are byte streams, for any number of
\* pieces (tunnel-client.ts:224-338).
THEOREM StreamsKept == Spec => ImplementsStreams
BY StreamsInit, DownSteps, UpSteps, Inductive, PTL
   DEF Spec, ImplementsStreams, GameStream!StreamSpec, GatewayStream!StreamSpec
=============================================================================
