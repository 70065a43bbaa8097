------------------------------ MODULE PlayerPath ------------------------------
(***************************************************************************)
(* One remote player from end to end: a stream of the relay tunnel         *)
(* (TunnelPipe) whose TCP connection on the host's computer is the client  *)
(* of an upgraded connection of the front (FrontRelay).  net.connect of    *)
(* src/main/tunnel-client.ts and the 'upgrade' handler of                  *)
(* src/main/local-server.ts know nothing of each other: what one of them   *)
(* takes for its peer, bytes, ends and resets, is here what the other does.*)
(*                                                                         *)
(* The pieces a player sends are its request and then Chunks.  Of the way  *)
(* back the ends are joined, but not the pieces: the front's first is the  *)
(* answer, and it leaves out what came with the 101.  In the tunnel one    *)
(* piece stands for all that the front sends.                              *)
(***************************************************************************)
EXTENDS FrontRelay

CONSTANT Request     \* the piece with the upgrade request

ASSUME RequestAssumption == Request \in Nat /\ \A i \in Chunks : Request < i

VARIABLES stopped, piped, dataWs, local, hungUp, faulty,     \* as in TunnelPipe
          inbound, outbound,      \* its toGame and toGateway
          frontEnded              \* its gameEnded: the front has ended its side

pipeVars == <<stopped, piped, dataWs, local, inbound, outbound, hungUp, frontEnded, faulty>>
pathVars == <<vars, pipeVars>>

Pipe == INSTANCE TunnelPipe WITH
  Chunks <- {Request} \cup Chunks,
  toGame <- inbound, toGateway <- outbound, gameEnded <- frontEnded

PathInit == Init /\ Pipe!Init

-----------------------------------------------------------------------------
(* The connection between the two                                          *)

\* A piece is written to the connection; a socket that is closed takes nothing.
Arrives(i) ==
  /\ Pipe!LocalWritten(i)
  /\ toGame' = IF i \in Chunks /\ clientSocket # "closed"
               THEN [toGame EXCEPT ![i] = "wire"] ELSE toGame
  /\ UNCHANGED <<phase, answer, clientSocket, proxySocket, clientDone, gameDone, toClient>>

Requested == inbound[Request] = "game"

\* front 'upgrade', when the request is there.
Upgrades == Requested /\ Upgrade /\ UNCHANGED pipeVars

\* The front's answer and what it passes on.
Answers ==
  /\ phase \in {"piped", "refused"} /\ clientSocket = "open"
  /\ Pipe!GameSends(Request)
  /\ UNCHANGED vars

\* The front has ended or destroyed its socket: the tunnel's sees an end,
FrontEnds == clientSocket # "open" /\ Pipe!GameEnds /\ UNCHANGED vars

\* or a reset; and before it is connected it may be refused.
LocalFails ==
  /\ local = "connecting" \/ clientSocket = "closed"
  /\ Pipe!LocalError
  /\ UNCHANGED vars

\* The tunnel's socket has ended or was destroyed: the front's sees an end, or a reset.
LocalGone == Requested /\ local = "closed" /\ ClientEnds /\ UNCHANGED pipeVars
LocalReset == Requested /\ local = "closed" /\ ClientResets /\ UNCHANGED pipeVars

-----------------------------------------------------------------------------
PathBytes(i) == \/ Arrives(i)
                \/ /\ Pipe!Message(i) \/ Pipe!LocalData(i) \/ Pipe!GatewayReceives(i)
                   /\ UNCHANGED vars

\* What the tunnel does without the front.
Tunnel ==
  /\ \/ \E i \in {Request} \cup Chunks : Pipe!GatewaySends(i)
     \/ Pipe!GatewayHangsUp
     \/ Pipe!DataOpen \/ Pipe!LocalConnected \/ Pipe!Ends
     \/ Pipe!DataError \/ Pipe!Stop
  /\ UNCHANGED vars

\* What the front does without the tunnel.
Front ==
  /\ \/ Passes \/ Upgraded \/ Responded \/ RequestFails \/ GameResets
     \/ GameEnds
     \/ \E i \in Chunks : GameSends(i)
     \/ \E a \in {"upgrade", "response"} : GameAnswers(a)
  /\ UNCHANGED pipeVars

PathNext ==
  \/ \E i \in {Request} \cup Chunks : PathBytes(i)
  \/ Answers \/ Upgrades \/ FrontEnds \/ LocalFails \/ LocalGone \/ LocalReset
  \/ Tunnel \/ Front

\* That of the two, an end or a reset of one socket being one for the other.
PathFairness ==
  /\ \A i \in {Request} \cup Chunks : WF_pathVars(PathBytes(i))
  /\ WF_pathVars((Pipe!LocalConnected \/ Pipe!Ends) /\ UNCHANGED vars)
  /\ WF_pathVars(LocalGone)
  /\ WF_pathVars(Passes /\ UNCHANGED pipeVars)
  /\ WF_pathVars((proxySocket = "ended" \/ clientSocket = "closed") /\ GameEnds /\ UNCHANGED pipeVars)

PathSpec == PathInit /\ [][PathNext]_pathVars
FairPathSpec == PathSpec /\ PathFairness

-----------------------------------------------------------------------------
(* Properties                                                              *)

Player == INSTANCE ByteStream WITH
  written <- {i \in Chunks : inbound[i] # "gateway"},
  received <- {i \in Chunks : toGame[i] = "game"}

\* Behind the tunnel the front does what it does for a client on the LAN: what the
\* tunnel passes on, however late it connects and wherever it breaks, is what such a
\* client may send (tunnel-client.ts:236-326, local-server.ts:451-474).
FrontAsAlone == Spec

\* What a remote player sends after its request reaches the socket server as a byte
\* stream, through both relays and whichever of the four sockets breaks first
\* (tunnel-client.ts:297-326, local-server.ts:462-474).
ReachesGame == Player!StreamSpec

\* When a remote player hangs up, or the tunnel is stopped or breaks, the connection that
\* stop() waits for, the front's to the tunnel, is closed in the end, unless the player
\* sent something that the front did not read before the game had ended
\* (tunnel-client.ts:147-180, 316-326, local-server.ts:470-473, 514).
PlayerLeaves ==
  phase = "piped" /\ (hungUp \/ stopped \/ faulty)
    ~> \/ clientSocket = "closed"
       \/ clientSocket = "ended" /\ proxySocket = "closed" /\ ~Nothing(toGame, "wire")

-----------------------------------------------------------------------------
(* The invariant that joins the two                                        *)

\* The front has, or had, the pieces that the tunnel's socket has written.
Joined ==
  /\ \A i \in Chunks :
       /\ toGame[i] # "client" => inbound[i] = "game"
       /\ clientSocket # "closed" /\ inbound[i] = "game" => toGame[i] # "client"
  /\ clientDone => local = "closed"

PathInv == IInv /\ Pipe!IInv /\ Joined
=============================================================================
