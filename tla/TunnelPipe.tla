------------------------------ MODULE TunnelPipe ------------------------------
(***************************************************************************)
(* The bytes of one relayed player, src/main/tunnel-client.ts, the 'open'  *)
(* handler of a data WebSocket: what the gateway sends is written to a TCP *)
(* connection to the game server and back, through the buffers of both     *)
(* sockets, while either side may connect late, end, fail or be closed.    *)
(* TunnelClient has the sockets of all streams without their bytes.        *)
(*                                                                         *)
(* Chunk i of a direction is where toGame[i] or toGateway[i] says.  A      *)
(* WebSocket and a TCP connection keep the order; 'end' and the close      *)
(* frame come after the data before them.                                  *)
(*                                                                         *)
(* A definition named X_Bug... is X with a plausible mistake in it, used   *)
(* only to show that a property is about X.                                *)
(***************************************************************************)
EXTENDS Integers

CONSTANT Chunks      \* of each direction, in the order of sending

ASSUME ChunksAssumption == Chunks \subseteq Nat

VARIABLES
  stopped,      \* state.stopped
  piped,        \* state.dataPipes.has(pipe)
  dataWs,       \* the data WebSocket
  local,        \* the TCP socket to the game server
  toGame, toGateway,
  hungUp,       \* the gateway has sent its close frame
  gameEnded,    \* the game server has ended its side
  faulty        \* a connection failed, or a close handshake timed out

vars == <<stopped, piped, dataWs, local, toGame, toGateway, hungUp, gameEnded, faulty>>

Ws == {"connecting", "open", "closing", "closed"}
Tcp == {"none", "connecting", "up", "ended", "closed"}
Down == {"gateway", "ws", "local", "game", "lost"}
Up == {"game", "local", "ws", "gateway", "lost"}

Init ==
  /\ stopped = FALSE /\ piped = FALSE
  /\ dataWs = "connecting" /\ local = "none"
  /\ toGame = [i \in Chunks |-> "gateway"]
  /\ toGateway = [i \in Chunks |-> "game"]
  /\ hungUp = FALSE /\ gameEnded = FALSE /\ faulty = FALSE

\* i is the next chunk at that place.
Next1(f, place, i) == f[i] = place /\ \A j \in Chunks : f[j] = place => i <= j

None(f, place) == \A i \in Chunks : f[i] # place

Lose(f, places) == [i \in Chunks |-> IF f[i] \in places THEN "lost" ELSE f[i]]

Unpipe == piped' = FALSE

\* What local.destroy() makes of the socket and of what it still held.
Destroy ==
  /\ local' = IF local = "none" THEN "none" ELSE "closed"
  /\ toGame' = Lose(toGame, {"local"})
  /\ toGateway' = Lose(toGateway, {"local"})

Close_BugTerminates ==
  /\ dataWs' = IF dataWs = "closed" THEN "closed" ELSE "closing"
  /\ toGateway' = Lose(toGateway, {"local", "ws"})

\* dataWs.close(): the close frame goes after what was sent before it.
Close ==
  /\ dataWs' = IF dataWs = "closed" THEN "closed" ELSE "closing"
  /\ UNCHANGED toGateway

-----------------------------------------------------------------------------
(* From the gateway to the game                                            *)

GatewaySends(i) ==
  /\ dataWs \in {"connecting", "open"} /\ ~hungUp
  /\ Next1(toGame, "gateway", i)
  /\ toGame' = [toGame EXCEPT ![i] = "ws"]
  /\ UNCHANGED <<stopped, piped, dataWs, local, toGateway, hungUp, gameEnded, faulty>>

Forwards_BugDropsUnconnected == ~stopped /\ piped /\ local # "connecting"

\* The guard of both data handlers.
Forwards == ~stopped /\ piped

\* 'message': written to the local socket, which keeps it until it is connected.
Message(i) ==
  /\ dataWs \in {"open", "closing"}
  /\ Next1(toGame, "ws", i)
  /\ toGame' = [toGame EXCEPT ![i] = IF Forwards THEN "local" ELSE "lost"]
  /\ UNCHANGED <<stopped, piped, dataWs, local, toGateway, hungUp, gameEnded, faulty>>

LocalWritten(i) ==
  /\ local \in {"up", "ended"}
  /\ Next1(toGame, "local", i)
  /\ toGame' = [toGame EXCEPT ![i] = "game"]
  /\ UNCHANGED <<stopped, piped, dataWs, local, toGateway, hungUp, gameEnded, faulty>>

-----------------------------------------------------------------------------
(* From the game to the gateway                                            *)

GameSends(i) ==
  /\ local = "up" /\ ~gameEnded
  /\ Next1(toGateway, "game", i)
  /\ toGateway' = [toGateway EXCEPT ![i] = "local"]
  /\ UNCHANGED <<stopped, piped, dataWs, local, toGame, hungUp, gameEnded, faulty>>

\* 'data': send() on a socket that is closing drops it.
LocalData(i) ==
  /\ local = "up"
  /\ Next1(toGateway, "local", i)
  /\ toGateway' = [toGateway EXCEPT ![i] =
                     IF Forwards /\ dataWs = "open" THEN "ws" ELSE "lost"]
  /\ UNCHANGED <<stopped, piped, dataWs, local, toGame, hungUp, gameEnded, faulty>>

GatewayReceives(i) ==
  /\ dataWs \in {"open", "closing"}
  /\ Next1(toGateway, "ws", i)
  /\ toGateway' = [toGateway EXCEPT ![i] = "gateway"]
  /\ UNCHANGED <<stopped, piped, dataWs, local, toGame, hungUp, gameEnded, faulty>>

-----------------------------------------------------------------------------
(* The sockets                                                             *)

DataOpen_BugNotAdded ==
  /\ dataWs = "connecting" /\ ~stopped
  /\ dataWs' = "open" /\ local' = "connecting"
  /\ UNCHANGED <<stopped, piped, toGame, toGateway, hungUp, gameEnded, faulty>>

\* 'open': hang up if the client was stopped, else connect and pipe.
DataOpen ==
  /\ dataWs = "connecting"
  /\ IF stopped THEN dataWs' = "closing" /\ UNCHANGED <<piped, local>>
     ELSE dataWs' = "open" /\ local' = "connecting" /\ piped' = TRUE
  /\ UNCHANGED <<stopped, toGame, toGateway, hungUp, gameEnded, faulty>>

LocalConnected ==
  /\ local = "connecting" /\ local' = "up"
  /\ UNCHANGED <<stopped, piped, dataWs, toGame, toGateway, hungUp, gameEnded, faulty>>

GameEnds ==
  /\ local = "up" /\ ~gameEnded /\ gameEnded' = TRUE
  /\ UNCHANGED <<stopped, piped, dataWs, local, toGame, toGateway, hungUp, faulty>>

\* 'end', after the data before it.
LocalEnd ==
  /\ local = "up" /\ gameEnded /\ None(toGateway, "local")
  /\ local' = "ended"
  /\ Unpipe /\ Close
  /\ UNCHANGED <<stopped, toGame, hungUp, gameEnded, faulty>>

\* The socket ends its own side after what it still has to write.
LocalFinished ==
  /\ local = "ended" /\ None(toGame, "local")
  /\ local' = "closed"
  /\ UNCHANGED <<stopped, piped, dataWs, toGame, toGateway, hungUp, gameEnded, faulty>>

\* 'error': refused or reset.
LocalError ==
  /\ local \in {"connecting", "up", "ended"}
  /\ Destroy /\ Unpipe
  /\ dataWs' = IF dataWs = "closed" THEN "closed" ELSE "closing"
  /\ faulty' = TRUE
  /\ UNCHANGED <<stopped, hungUp, gameEnded>>

GatewayHangsUp ==
  /\ dataWs = "open" /\ ~hungUp /\ hungUp' = TRUE
  /\ UNCHANGED <<stopped, piped, dataWs, local, toGame, toGateway, gameEnded, faulty>>

\* The close frame arrives, after the messages before it.
CloseFrame ==
  /\ hungUp /\ dataWs = "open" /\ None(toGame, "ws")
  /\ dataWs' = "closing"
  /\ UNCHANGED <<stopped, piped, local, toGame, toGateway, hungUp, gameEnded, faulty>>

DataClosed_BugLocalLeft ==
  /\ dataWs = "closing" /\ None(toGateway, "ws")
  /\ dataWs' = "closed"
  /\ toGame' = Lose(toGame, {"ws"})
  /\ Unpipe
  /\ UNCHANGED <<stopped, local, toGateway, hungUp, gameEnded, faulty>>

\* 'close' of a handshake that was completed: the gateway has read everything.
DataClosed ==
  /\ dataWs = "closing" /\ None(toGateway, "ws")
  /\ dataWs' = "closed"
  /\ local' = IF local = "none" THEN "none" ELSE "closed"
  /\ toGame' = Lose(toGame, {"ws", "local"})
  /\ toGateway' = Lose(toGateway, {"local"})
  /\ Unpipe
  /\ UNCHANGED <<stopped, hungUp, gameEnded, faulty>>

\* 'error', or the handshake times out: the connection is gone.
DataError ==
  /\ dataWs # "closed"
  /\ dataWs' = "closed" /\ faulty' = TRUE
  /\ local' = IF local = "none" THEN "none" ELSE "closed"
  /\ toGame' = Lose(toGame, {"ws", "local"})
  /\ toGateway' = Lose(toGateway, {"ws", "local"})
  /\ Unpipe
  /\ UNCHANGED <<stopped, hungUp, gameEnded>>

\* TunnelHandle.close(): only a stream that is piped is hung up.
Stop ==
  /\ ~stopped /\ stopped' = TRUE
  /\ IF piped
     THEN /\ Destroy /\ Unpipe
          /\ dataWs' = IF dataWs = "closed" THEN "closed" ELSE "closing"
     ELSE UNCHANGED <<piped, dataWs, local, toGame, toGateway>>
  /\ UNCHANGED <<hungUp, gameEnded, faulty>>

-----------------------------------------------------------------------------
Bytes(i) == \/ Message(i) \/ LocalWritten(i) \/ LocalData(i) \/ GatewayReceives(i)

Peers == \/ \E i \in Chunks : GatewaySends(i) \/ GameSends(i)
         \/ GameEnds \/ GatewayHangsUp

Ends == \/ LocalEnd \/ LocalFinished \/ CloseFrame \/ DataClosed

Next == \/ \E i \in Chunks : Bytes(i)
        \/ Peers \/ Ends
        \/ DataOpen \/ LocalConnected
        \/ LocalError \/ DataError \/ Stop

\* Bytes that are under way arrive, a connection to the own computer is made or
\* refused, and a close handshake ends.  Nothing obliges the gateway or the game to
\* send or to end, nor the handshake of the data WebSocket to end.
Fairness == /\ \A i \in Chunks : WF_vars(Bytes(i))
            /\ WF_vars(LocalConnected) /\ WF_vars(Ends)

Spec == Init /\ [][Next]_vars
FairSpec == Spec /\ Fairness

-----------------------------------------------------------------------------
(* Properties                                                              *)

TypeOK ==
  /\ stopped \in BOOLEAN /\ piped \in BOOLEAN
  /\ hungUp \in BOOLEAN /\ gameEnded \in BOOLEAN /\ faulty \in BOOLEAN
  /\ dataWs \in Ws /\ local \in Tcp
  /\ toGame \in [Chunks -> Down] /\ toGateway \in [Chunks -> Up]

GameStream == INSTANCE ByteStream WITH
  written <- {i \in Chunks : toGame[i] # "gateway"},
  received <- {i \in Chunks : toGame[i] = "game"}

GatewayStream == INSTANCE ByteStream WITH
  written <- {i \in Chunks : toGateway[i] # "game"},
  received <- {i \in Chunks : toGateway[i] = "gateway"}

\* Each direction is a byte stream, through late connections, ends and failures:
\* nothing is passed on after a piece that was lost (tunnel-client.ts:224-338).
ImplementsStreams == GameStream!StreamSpec /\ GatewayStream!StreamSpec

\* A piece is lost only when a connection failed, the tunnel was stopped or the
\* receiving side had ended; and the gateway's end may cost the last pieces it sent.
\* In particular all that the game sent before it ended its side reaches the
\* gateway (tunnel-client.ts:254-338, 165-177).
OnlyEndsLose ==
  \A i \in Chunks :
    /\ toGame[i] = "lost" => faulty \/ stopped \/ hungUp \/ gameEnded
    /\ toGateway[i] = "lost" => faulty \/ stopped \/ hungUp

Healthy == ~faulty /\ ~stopped /\ ~hungUp /\ ~gameEnded

\* As long as nobody ends the connection, what is sent arrives, also what came
\* before the local socket was connected (tunnel-client.ts:236, 254-271, 297-314).
HealthyDelivers ==
  []Healthy =>
    \A i \in Chunks :
      /\ (dataWs = "open" /\ toGame[i] # "gateway") ~> toGame[i] = "game"
      /\ toGateway[i] # "game" ~> toGateway[i] = "gateway"

-----------------------------------------------------------------------------
(* The inductive invariant                                                 *)

\* What goes with what among the two sockets and the pipe.
Phases ==
  /\ dataWs = "connecting" => local = "none"
  /\ piped <=> local \in {"connecting", "up"}
  /\ dataWs = "open" => piped
  /\ stopped => ~piped
  /\ dataWs = "closed" => local \in {"none", "closed"}
  /\ dataWs \in {"closing", "closed"} =>
       \/ faulty \/ stopped \/ hungUp
       \/ gameEnded /\ local \in {"ended", "closed"}
  /\ local \in {"none", "connecting"} => \A i \in Chunks : toGateway[i] = "game"
  /\ local \in {"none", "closed"} => \A i \in Chunks : toGame[i] # "local"
  /\ local \in {"none", "ended", "closed"} => \A i \in Chunks : toGateway[i] # "local"
  /\ dataWs = "closed" => \A i \in Chunks : toGame[i] # "ws" /\ toGateway[i] # "ws"

Shut(f) == \E i \in Chunks : f[i] = "lost"

\* Once a chunk was lost on its way, no other takes that way any more.
DownInv ==
  /\ Shut(toGame) => ~Forwards /\ dataWs # "connecting"
  /\ \A i, j \in Chunks : j < i =>
       /\ toGame[i] # "gateway" => toGame[j] # "gateway"
       /\ toGame[i] = "local" => toGame[j] \in {"local", "game"}
       /\ toGame[i] = "game" => toGame[j] = "game"

UpInv ==
  /\ Shut(toGateway) => dataWs # "connecting" /\ ~(Forwards /\ dataWs = "open")
  /\ \A i, j \in Chunks : j < i =>
       /\ toGateway[i] # "game" => toGateway[j] # "game"
       /\ toGateway[i] = "ws" => toGateway[j] \in {"ws", "gateway"}
       /\ toGateway[i] = "gateway" => toGateway[j] = "gateway"

IInv == TypeOK /\ Phases /\ DownInv /\ UpInv /\ OnlyEndsLose
=============================================================================
