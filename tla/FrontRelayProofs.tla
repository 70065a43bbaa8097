--------------------------- MODULE FrontRelayProofs ---------------------------
(***************************************************************************)
(* For any number of pieces: what a client sends through the front reaches *)
(* the socket server as a byte stream.  The direction back is not one      *)
(* (RelaysGame is refuted by a run); it is one from the head on, which is  *)
(* what the second part proves.  The third is about the front behind the   *)
(* relay tunnel, PlayerPath.                                               *)
(*                                                                         *)
(* What makes it inductive: a piece is lost only together with a socket    *)
(* that is closed, and of two pieces the earlier is never behind; back,    *)
(* the front ends the client's socket only when nothing is left to pass on.*)
(* Behind the tunnel, the front has exactly the pieces that the tunnel's   *)
(* socket has written, and sees it end only when it is closed (Joined);    *)
(* with that a step of the path is a step of each of the two, whose        *)
(* invariants are the ones proved here and in TunnelPipeProofs.            *)
(***************************************************************************)
EXTENDS PlayerPath, TLAPS

LEMMA Initially == Init => IInv
BY DEF Init, IInv, TypeOK, Phase, Down, Up, Places, InOrder

LEMMA StepKeeps == IInv /\ [Next]_vars => IInv'
<1> SUFFICES ASSUME IInv, [Next]_vars PROVE IInv'
  OBVIOUS
<1> USE ChunksAssumption DEF IInv, TypeOK, Phase, Down, Up, Places, InOrder
<1>1. ASSUME NEW i \in Chunks, ClientSends(i) PROVE IInv'
  BY <1>1 DEF ClientSends, First
<1>2. CASE ClientEnds
  BY <1>2 DEF ClientEnds
<1>3. ASSUME NEW a \in {"upgrade", "response"}, GameAnswers(a) PROVE IInv'
  BY <1>3 DEF GameAnswers
<1>4. ASSUME NEW i \in Chunks, GameSends(i) PROVE IInv'
  BY <1>4 DEF GameSends, First
<1>5. CASE GameEnds
  BY <1>5 DEF GameEnds
<1>6. CASE Upgrade
  BY <1>6 DEF Upgrade, SameRead
<1>7. CASE Upgraded
  BY <1>7 DEF Upgraded, Head, SameRead
<1>8. CASE Responded
  BY <1>8 DEF Responded
<1>9. CASE RequestFails
  BY <1>9 DEF RequestFails, Drop
<1>10. ASSUME NEW i \in Chunks, PipeToGame(i) PROVE IInv'
  BY <1>10 DEF PipeToGame, First, Drop
<1>11. ASSUME NEW i \in Chunks, GameReceives(i) PROVE IInv'
  BY <1>11 DEF GameReceives, First
<1>12. ASSUME NEW i \in Chunks, PipeToClient(i) PROVE IInv'
  BY <1>12 DEF PipeToClient, First
<1>13. CASE ClientEndPassed
  BY <1>13 DEF ClientEndPassed
<1>14. CASE GameEndPassed
  BY <1>14 DEF GameEndPassed
<1>15. CASE ClientClosed
  BY <1>15 DEF ClientClosed, Nothing
<1>16. CASE ClientResets
  BY <1>16 DEF ClientResets, Drop
<1>17. CASE GameResets
  BY <1>17 DEF GameResets, Drop
<1>18. CASE ProxyCloses
  BY <1>18 DEF ProxyCloses
<1>19. CASE UNCHANGED vars
  BY <1>19 DEF vars
<1> QED
  BY <1>1, <1>2, <1>3, <1>4, <1>5, <1>6, <1>7, <1>8, <1>9, <1>10,
     <1>11, <1>12, <1>13, <1>14, <1>15, <1>16, <1>17, <1>18, <1>19
     DEF Next, Ends, Passes

LEMMA Inductive == Spec => []IInv
BY Initially, StepKeeps, PTL DEF Spec

\* Every variable keeps its type and no place holds what it cannot hold.
THEOREM TypedAndInOrder == Spec => [](TypeOK /\ Places /\ InOrder)
<1>1. IInv => TypeOK /\ Places /\ InOrder
  BY DEF IInv
<1> QED
  BY <1>1, Inductive, PTL

LEMMA StreamInit == Init => ClientBytes!StreamInit
BY DEF Init, ClientBytes!StreamInit

LEMMA StreamSteps == IInv /\ [Next]_vars =>
  [\E i \in Chunks : ClientBytes!Write(i) \/ ClientBytes!Receive(i)]_<<
     {i \in Chunks : toGame[i] # "client"}, {i \in Chunks : toGame[i] = "game"}>>
<1> DEFINE written == {i \in Chunks : toGame[i] # "client"}
           received == {i \in Chunks : toGame[i] = "game"}
<1> SUFFICES ASSUME IInv, [Next]_vars
             PROVE  \/ \E i \in Chunks : ClientBytes!Write(i) \/ ClientBytes!Receive(i)
                    \/ written' = written /\ received' = received
  OBVIOUS
<1> USE ChunksAssumption DEF IInv, TypeOK, Places, InOrder
<1>1. ASSUME NEW i \in Chunks, ClientSends(i) PROVE ClientBytes!Write(i)
  BY <1>1 DEF ClientSends, First, ClientBytes!Write
<1>2. ASSUME NEW i \in Chunks, GameReceives(i) PROVE ClientBytes!Receive(i)
  BY <1>2 DEF GameReceives, First, ClientBytes!Receive
<1>3. ASSUME \A i \in Chunks :
               \/ toGame'[i] = toGame[i]
               \/ toGame[i] \in {"wire", "head", "up"} /\ toGame'[i] \in {"head", "up", "lost"}
      PROVE  written' = written /\ received' = received
  BY <1>3
<1>4. ASSUME NEW i \in Chunks, PipeToGame(i) PROVE written' = written /\ received' = received
  BY <1>3, <1>4 DEF PipeToGame, First, Drop
<1>5. CASE Upgrade
  BY <1>3, <1>5 DEF Upgrade, SameRead
<1>6. CASE Upgraded
  BY <1>3, <1>6 DEF Upgraded, Head
<1>7. CASE RequestFails \/ ClientResets \/ GameResets
  BY <1>3, <1>7 DEF RequestFails, ClientResets, GameResets, Drop
<1>8. CASE ProxyCloses \/ ClientClosed
  BY <1>3, <1>8 DEF ProxyCloses, ClientClosed
<1>9. CASE UNCHANGED toGame
  BY <1>9
<1> QED
  BY <1>1, <1>2, <1>4, <1>5, <1>6, <1>7, <1>8, <1>9
     DEF Next, Ends, Passes, vars, ClientEnds, GameAnswers, GameSends, GameEnds, Responded,
         PipeToClient, ClientEndPassed, GameEndPassed

\* Bytes that came with the request first, then what the pipe carries, each once and in
\* order, until an end or a failure (local-server.ts:451-474).
THEOREM ClientRelayed == Spec => RelaysClient
BY StreamInit, StreamSteps, Inductive, PTL DEF Spec, RelaysClient, ClientBytes!StreamSpec

-----------------------------------------------------------------------------
(* The direction back                                                      *)

LEMMA BackInit == Init => BackInv
BY Initially DEF Init, BackInv, PlacesBack, InOrderBack

LEMMA BackKeeps == BackInv /\ [Next]_vars => BackInv'
<1> SUFFICES ASSUME BackInv, [Next]_vars PROVE (PlacesBack /\ InOrderBack)'
  BY StepKeeps DEF BackInv
<1> USE ChunksAssumption DEF BackInv, IInv, TypeOK, Phase, Down, Up, Places, PlacesBack, InOrderBack, Nothing
<1>1. ASSUME NEW i \in Chunks, ClientSends(i) \/ GameReceives(i)
      PROVE  (PlacesBack /\ InOrderBack)'
  BY <1>1 DEF ClientSends, GameReceives
<1>2. CASE ClientEnds \/ GameEnds \/ Upgrade \/ ClientEndPassed
  BY <1>2 DEF ClientEnds, GameEnds, Upgrade, ClientEndPassed
<1>3. ASSUME NEW a \in {"upgrade", "response"}, GameAnswers(a)
      PROVE  (PlacesBack /\ InOrderBack)'
  BY <1>3 DEF GameAnswers
<1>4. ASSUME NEW i \in Chunks, GameSends(i) PROVE (PlacesBack /\ InOrderBack)'
  BY <1>4 DEF GameSends, First
<1>5. CASE Upgraded
  <2>1. \A i \in Chunks : toClient[i] \in {"game", "wire"}
    BY <1>5 DEF Upgraded
  <2>2. PICK n \in Chunks \cup {-1} :
          toClient' = [i \in Chunks |-> IF toClient[i] = "wire" /\ i <= n THEN "ignored" ELSE toClient[i]]
    BY <1>5 DEF Upgraded, SameRead
  <2>3. \A i, j \in Chunks : j < i => (i <= n => j <= n)
    OBVIOUS
  <2> QED
    BY <1>5, <2>1, <2>2, <2>3 DEF Upgraded
<1>6. CASE Responded
  BY <1>6 DEF Responded
<1>7. CASE RequestFails \/ ClientResets \/ GameResets
  BY <1>7 DEF RequestFails, ClientResets, GameResets, Drop
<1>8. ASSUME NEW i \in Chunks, PipeToGame(i) PROVE (PlacesBack /\ InOrderBack)'
  BY <1>8 DEF PipeToGame, Drop
<1>9. ASSUME NEW i \in Chunks, PipeToClient(i) PROVE (PlacesBack /\ InOrderBack)'
  BY <1>9 DEF PipeToClient, First
<1>10. CASE GameEndPassed
  BY <1>10 DEF GameEndPassed
<1>11. CASE ClientClosed
  BY <1>11 DEF ClientClosed
<1>12. CASE ProxyCloses
  BY <1>12 DEF ProxyCloses
<1>13. CASE UNCHANGED vars
  BY <1>13 DEF vars
<1> QED
  BY <1>1, <1>2, <1>3, <1>4, <1>5, <1>6, <1>7, <1>8, <1>9, <1>10, <1>11, <1>12, <1>13
     DEF Next, Ends, Passes

\* For any number of pieces, a client misses the ignored head, and what comes after the
\* first piece that a closed socket lost; there is no other gap (local-server.ts:462-473).
THEOREM HeadAlone == Spec => []OnlyHeadMissing
<1>1. BackInv => OnlyHeadMissing
  BY DEF BackInv, PlacesBack, InOrderBack, OnlyHeadMissing
<1> QED
  BY <1>1, BackInit, BackKeeps, PTL DEF Spec

-----------------------------------------------------------------------------
(* Behind the tunnel                                                       *)

PipeProofs == INSTANCE TunnelPipeProofs WITH
  Chunks <- {Request} \cup Chunks,
  toGame <- inbound, toGateway <- outbound, gameEnded <- frontEnded

LEMMA PieceNumbers == PipeProofs!ChunksAssumption
BY ChunksAssumption, RequestAssumption DEF PipeProofs!ChunksAssumption

LEMMA SameInv == Pipe!IInv <=> PipeProofs!IInv
BY DEF Pipe!IInv, Pipe!TypeOK, Pipe!Ws, Pipe!Tcp, Pipe!Down, Pipe!Up, Pipe!Phases,
         Pipe!DownInv, Pipe!UpInv, Pipe!Shut, Pipe!Forwards, Pipe!OnlyEndsLose,
         PipeProofs!IInv, PipeProofs!TypeOK, PipeProofs!Ws, PipeProofs!Tcp, PipeProofs!Down,
         PipeProofs!Up, PipeProofs!Phases, PipeProofs!DownInv, PipeProofs!UpInv,
         PipeProofs!Shut, PipeProofs!Forwards, PipeProofs!OnlyEndsLose

LEMMA SameStep == [Pipe!Next]_pipeVars => [PipeProofs!Next]_(PipeProofs!vars)
<1>1. Pipe!Next => PipeProofs!Next
  BY DEF Pipe!Next, Pipe!Bytes, Pipe!Peers, Pipe!Ends, Pipe!Message, Pipe!LocalWritten,
         Pipe!LocalData, Pipe!GatewayReceives, Pipe!GatewaySends, Pipe!GameSends,
         Pipe!GameEnds, Pipe!GatewayHangsUp, Pipe!LocalEnd, Pipe!LocalFinished,
         Pipe!CloseFrame, Pipe!DataClosed, Pipe!DataOpen, Pipe!LocalConnected,
         Pipe!LocalError, Pipe!DataError, Pipe!Stop, Pipe!Next1, Pipe!None, Pipe!Lose,
         Pipe!Unpipe, Pipe!Destroy, Pipe!Close, Pipe!Forwards, PipeProofs!Next,
         PipeProofs!Bytes, PipeProofs!Peers, PipeProofs!Ends, PipeProofs!Message,
         PipeProofs!LocalWritten, PipeProofs!LocalData, PipeProofs!GatewayReceives,
         PipeProofs!GatewaySends, PipeProofs!GameSends, PipeProofs!GameEnds,
         PipeProofs!GatewayHangsUp, PipeProofs!LocalEnd, PipeProofs!LocalFinished,
         PipeProofs!CloseFrame, PipeProofs!DataClosed, PipeProofs!DataOpen,
         PipeProofs!LocalConnected, PipeProofs!LocalError, PipeProofs!DataError,
         PipeProofs!Stop, PipeProofs!Next1, PipeProofs!None, PipeProofs!Lose,
         PipeProofs!Unpipe, PipeProofs!Destroy, PipeProofs!Close, PipeProofs!Forwards
<1>2. UNCHANGED pipeVars => UNCHANGED PipeProofs!vars
  BY DEF pipeVars, PipeProofs!vars
<1> QED
  BY <1>1, <1>2

LEMMA PipeInit == Pipe!Init => Pipe!IInv
<1>1. Pipe!Init => PipeProofs!Init
  BY DEF Pipe!Init, PipeProofs!Init
<1> QED
  BY <1>1, SameInv, PieceNumbers, PipeProofs!Initially

LEMMA PipeKeeps == Pipe!IInv /\ [Pipe!Next]_pipeVars => Pipe!IInv'
<1>1. PipeProofs!IInv /\ [PipeProofs!Next]_(PipeProofs!vars) => PipeProofs!IInv'
  BY PieceNumbers, PipeProofs!StepKeeps
<1>2. Pipe!IInv' <=> PipeProofs!IInv'
  BY SameInv, PTL
<1> QED
  BY <1>1, <1>2, SameInv, SameStep

\* Every step of the path is one of the tunnel's stream, or leaves it alone.
LEMMA PathIsPipe == [PathNext]_pathVars => [Pipe!Next]_pipeVars
BY DEF PathNext, pathVars, pipeVars, PathBytes, Arrives, Answers, Upgrades, FrontEnds, LocalFails,
       LocalGone, LocalReset, Tunnel, Front, Pipe!Next, Pipe!Bytes, Pipe!Peers

-----------------------------------------------------------------------------
(* The two joined                                                          *)

\* What the front does by itself sends nothing for the client and reopens nothing.
LEMMA FrontAlone == IInv /\ (Front \/ Upgrades \/ LocalReset) =>
  /\ \A i \in Chunks : toGame'[i] = "client" <=> toGame[i] = "client"
  /\ clientSocket = "closed" => clientSocket' = "closed"
  /\ clientDone' = clientDone
  /\ UNCHANGED pipeVars
<1> SUFFICES ASSUME IInv, Front \/ Upgrades \/ LocalReset
             PROVE  /\ \A i \in Chunks : toGame'[i] = "client" <=> toGame[i] = "client"
                    /\ clientSocket = "closed" => clientSocket' = "closed"
                    /\ clientDone' = clientDone
  BY DEF Front, Upgrades, LocalReset
<1> USE DEF IInv, TypeOK, Places
<1>1. ASSUME NEW i \in Chunks, PipeToGame(i) \/ GameReceives(i) \/ PipeToClient(i) \/ GameSends(i)
      PROVE  /\ \A j \in Chunks : toGame'[j] = "client" <=> toGame[j] = "client"
             /\ clientSocket = "closed" => clientSocket' = "closed"
             /\ clientDone' = clientDone
  BY <1>1 DEF PipeToGame, GameReceives, PipeToClient, GameSends, First, Drop
<1>2. CASE ClientEndPassed \/ GameEndPassed \/ ProxyCloses \/ ClientClosed \/ Responded \/ GameEnds
  BY <1>2 DEF ClientEndPassed, GameEndPassed, ProxyCloses, ClientClosed, Responded, GameEnds
<1>3. CASE Upgrade \/ Upgraded
  BY <1>3 DEF Upgrade, Upgraded, SameRead, Head
<1>4. CASE RequestFails \/ GameResets \/ ClientResets
  BY <1>4 DEF RequestFails, GameResets, ClientResets, Drop
<1>5. ASSUME NEW a \in {"upgrade", "response"}, GameAnswers(a)
      PROVE  /\ \A j \in Chunks : toGame'[j] = "client" <=> toGame[j] = "client"
             /\ clientSocket = "closed" => clientSocket' = "closed"
             /\ clientDone' = clientDone
  BY <1>5 DEF GameAnswers
<1> QED
  BY <1>1, <1>2, <1>3, <1>4, <1>5 DEF Front, Passes, Upgrades, LocalReset

\* What the tunnel does by itself writes nothing to the front and reopens nothing.
LEMMA TunnelAlone ==
  ASSUME Pipe!IInv, NEW i \in {Request} \cup Chunks,
         Tunnel \/ LocalFails \/ FrontEnds \/ Answers \/ (PathBytes(i) /\ ~Arrives(i))
  PROVE  /\ \A j \in Chunks : inbound'[j] = "game" <=> inbound[j] = "game"
         /\ local = "closed" => local' = "closed"
         /\ UNCHANGED vars
<1> DEFINE Kept == /\ \A j \in Chunks : inbound'[j] = "game" <=> inbound[j] = "game"
                   /\ local = "closed" => local' = "closed"
<1> SUFFICES Kept
  BY DEF Tunnel, LocalFails, FrontEnds, Answers, PathBytes
<1> USE DEF Pipe!IInv, Pipe!TypeOK, Pipe!Phases, Pipe!Tcp
<1>1. ASSUME NEW k \in {Request} \cup Chunks,
             Pipe!GatewaySends(k) \/ Pipe!Message(k)
      PROVE  Kept
  BY <1>1 DEF Pipe!GatewaySends, Pipe!Message, Pipe!Next1
<1>2. CASE Pipe!GameSends(Request) \/ Pipe!LocalData(i) \/ Pipe!GatewayReceives(i)
  BY <1>2 DEF Pipe!GameSends, Pipe!LocalData, Pipe!GatewayReceives
<1>3. CASE Pipe!GameEnds \/ Pipe!GatewayHangsUp \/ Pipe!DataOpen \/ Pipe!LocalConnected
  BY <1>3 DEF Pipe!GameEnds, Pipe!GatewayHangsUp, Pipe!DataOpen, Pipe!LocalConnected
<1>4. CASE Pipe!LocalEnd \/ Pipe!LocalFinished \/ Pipe!CloseFrame
  BY <1>4 DEF Pipe!LocalEnd, Pipe!LocalFinished, Pipe!CloseFrame
<1>5. CASE Pipe!DataClosed \/ Pipe!DataError
  BY <1>5 DEF Pipe!DataClosed, Pipe!DataError, Pipe!Lose
<1>6. CASE Pipe!LocalError \/ Pipe!Stop
  BY <1>6 DEF Pipe!LocalError, Pipe!Stop, Pipe!Destroy, Pipe!Lose
<1> QED
  BY <1>1, <1>2, <1>3, <1>4, <1>5, <1>6
     DEF Tunnel, LocalFails, FrontEnds, Answers, PathBytes, Pipe!Ends

\* A piece that the tunnel's socket writes is the front's next, or falls on a closed socket.
LEMMA ArrivesNext ==
  ASSUME PathInv, NEW i \in Chunks, Arrives(i), clientSocket # "closed"
  PROVE  ClientSends(i)
<1>1. inbound[i] = "local" /\ local \in {"up", "ended"}
  BY DEF Arrives, Pipe!LocalWritten, Pipe!Next1
<1>2. ~clientDone /\ toGame[i] = "client"
  BY <1>1 DEF PathInv, Joined, IInv, TypeOK
<1>3. ASSUME NEW j \in Chunks, toGame[j] = "client" PROVE i <= j
  <2>1. inbound[j] # "game"
    BY <1>3 DEF PathInv, Joined
  <2>2. inbound[j] = "local" => i <= j
    BY DEF Arrives, Pipe!LocalWritten, Pipe!Next1
  <2> QED
    BY <1>1, <2>1, <2>2, ChunksAssumption DEF PathInv, Pipe!IInv, Pipe!DownInv
<1> QED
  BY <1>2, <1>3 DEF Arrives, ClientSends, First

LEMMA PathIsFront == PathInv /\ [PathNext]_pathVars => [Next]_vars
<1> SUFFICES ASSUME PathInv, [PathNext]_pathVars PROVE [Next]_vars
  OBVIOUS
<1>1. ASSUME NEW i \in {Request} \cup Chunks, Arrives(i) PROVE [Next]_vars
  BY <1>1, ArrivesNext DEF Arrives, Next, Ends, vars
<1>2. CASE Front
  BY <1>2 DEF Front, Next, Ends
<1> QED
  BY <1>1, <1>2 DEF PathNext, pathVars, PathBytes, Answers, Upgrades, FrontEnds, LocalFails,
       LocalGone, LocalReset, Tunnel, Next, Ends

LEMMA PathStarts == PathInit => PathInv
BY Initially, PipeInit DEF PathInit, PathInv, Joined, Init, Pipe!Init

LEMMA PathKeeps == PathInv /\ [PathNext]_pathVars => PathInv'
<1> SUFFICES ASSUME PathInv, [PathNext]_pathVars PROVE Joined'
  BY PathIsFront, PathIsPipe, PipeKeeps, StepKeeps DEF PathInv
<1> USE DEF PathInv, Joined
<1>1. ASSUME NEW i \in {Request} \cup Chunks, Arrives(i) PROVE Joined'
  BY <1>1 DEF Arrives, Pipe!LocalWritten, Pipe!Next1, Pipe!IInv, Pipe!TypeOK, IInv, TypeOK
<1>2. CASE LocalGone
  BY <1>2 DEF LocalGone, ClientEnds, pipeVars
<1>3. CASE Front \/ Upgrades \/ LocalReset
  BY <1>3, FrontAlone DEF pipeVars
<1>4. CASE Tunnel \/ LocalFails \/ FrontEnds \/ Answers
  BY <1>4, TunnelAlone DEF vars
<1>5. ASSUME NEW i \in {Request} \cup Chunks, PathBytes(i) /\ ~Arrives(i)
      PROVE  Joined'
  BY <1>5, TunnelAlone DEF vars
<1>6. CASE UNCHANGED pathVars
  BY <1>6 DEF pathVars, vars, pipeVars
<1> QED
  BY <1>1, <1>2, <1>3, <1>4, <1>5, <1>6 DEF PathNext

LEMMA PathInductive == PathSpec => []PathInv
BY PathStarts, PathKeeps, PTL DEF PathSpec

\* For any number of pieces, the composition shows the front only what a client of the
\* LAN may do, so that what is proved above holds behind the tunnel (tunnel-client.ts:
\* 236-326, local-server.ts:451-474).
THEOREM PathShowsFront == PathSpec => FrontAsAlone
<1>1. PathInit => Init
  BY DEF PathInit
<1> QED
  BY <1>1, PathIsFront, PathInductive, PTL DEF PathSpec, FrontAsAlone, Spec

-----------------------------------------------------------------------------
(* From the player to the game                                             *)

LEMMA PlayerInit == PathInit => Player!StreamInit
BY DEF PathInit, Init, Pipe!Init, Player!StreamInit

LEMMA PlayerSteps == PathInv /\ [PathNext]_pathVars =>
  [\E i \in Chunks : Player!Write(i) \/ Player!Receive(i)]_<<
     {i \in Chunks : inbound[i] # "gateway"}, {i \in Chunks : toGame[i] = "game"}>>
<1> DEFINE written == {i \in Chunks : inbound[i] # "gateway"}
           received == {i \in Chunks : toGame[i] = "game"}
<1> SUFFICES ASSUME PathInv, [PathNext]_pathVars
             PROVE  \/ \E i \in Chunks : Player!Write(i) \/ Player!Receive(i)
                    \/ written' = written /\ received' = received
  OBVIOUS
<1>1. CASE UNCHANGED pipeVars
  <2>1. written' = written
    BY <1>1 DEF pipeVars
  <2>2. {i \in Chunks : toGame[i] # "client"} \subseteq written
    BY DEF PathInv, Joined
  <2>3. \/ \E i \in Chunks : ClientBytes!Write(i) \/ ClientBytes!Receive(i)
        \/ received' = received
    BY StreamSteps, PathIsFront DEF PathInv
  <2> QED
    BY <2>1, <2>2, <2>3 DEF ClientBytes!Write, ClientBytes!Receive, Player!Receive
<1>2. ASSUME NEW i \in {Request} \cup Chunks, Arrives(i)
      PROVE  written' = written /\ received' = received
  BY <1>2, ArrivesNext
     DEF Arrives, Pipe!LocalWritten, Pipe!Next1, ClientSends, First,
         PathInv, IInv, TypeOK, Pipe!IInv, Pipe!TypeOK
<1>3. ASSUME NEW i \in {Request} \cup Chunks, Pipe!GatewaySends(i), UNCHANGED vars
      PROVE  (i \in Chunks /\ Player!Write(i)) \/ (written' = written /\ received' = received)
  <2>1. i \in Chunks => Player!Write(i)
    BY <1>3, ChunksAssumption
       DEF Pipe!GatewaySends, Pipe!Next1, Player!Write, vars, PathInv, Pipe!IInv, Pipe!TypeOK
  <2>2. i \notin Chunks => written' = written
    BY <1>3 DEF Pipe!GatewaySends, PathInv, Pipe!IInv, Pipe!TypeOK
  <2> QED
    BY <1>3, <2>1, <2>2 DEF vars
<1>4. ASSUME [Pipe!Next]_pipeVars, \A i \in {Request} \cup Chunks : ~Pipe!GatewaySends(i)
      PROVE  written' = written
  BY <1>4
     DEF PathInv, Pipe!IInv, Pipe!TypeOK, pipeVars, Pipe!Next, Pipe!Bytes, Pipe!Peers, Pipe!Ends,
         Pipe!Message, Pipe!LocalWritten, Pipe!LocalData, Pipe!GatewayReceives, Pipe!GameSends,
         Pipe!GameEnds, Pipe!GatewayHangsUp, Pipe!LocalEnd, Pipe!LocalFinished, Pipe!CloseFrame,
         Pipe!DataClosed, Pipe!DataOpen, Pipe!LocalConnected, Pipe!LocalError, Pipe!DataError,
         Pipe!Stop, Pipe!Destroy, Pipe!Lose, Pipe!Next1
<1>5. CASE UNCHANGED vars
  <2>1. received' = received
    BY <1>5 DEF vars
  <2>2. CASE \E i \in {Request} \cup Chunks : Pipe!GatewaySends(i)
    BY <1>3, <1>5, <2>2
  <2> QED
    BY <1>4, <2>1, <2>2, PathIsPipe
<1> QED
  BY <1>1, <1>2, <1>5 DEF PathNext, pathVars, PathBytes, Answers, Upgrades, FrontEnds, LocalFails,
       LocalGone, LocalReset, Tunnel, Front

\* What a remote player sends reaches the socket server as a byte stream, for any number of
\* pieces and through both relays (tunnel-client.ts:297-326, local-server.ts:462-474).
THEOREM PlayerReachesGame == PathSpec => ReachesGame
BY PlayerInit, PlayerSteps, PathInductive, PTL DEF PathSpec, ReachesGame, Player!StreamSpec
=============================================================================
