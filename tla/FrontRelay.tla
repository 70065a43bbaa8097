------------------------------ MODULE FrontRelay ------------------------------
(***************************************************************************)
(* One upgraded connection through the public front, the 'upgrade' handler *)
(* of src/main/local-server.ts: the front asks the socket server, relays   *)
(* its answer, and joins the two sockets if the answer was a 101.          *)
(*                                                                         *)
(* toGame[i] and toClient[i] say where chunk i of a direction is: with its *)
(* sender, "wire" (sent, not yet passed on by the front), with its         *)
(* receiver or lost; "head" is what came in one read with the request,     *)
(* "up" what is written to the socket server's socket, and "ignored" what  *)
(* was handed to the handler, which did not take it.                       *)
(* Ends and resets are Node's: pipe() passes an end on, and a socket       *)
(* without an 'error' listener passes nothing on.  What pipe() does not do *)
(* is there too: it stops reading when its target has closed, so the bytes *)
(* still to come stay unread, and a target that was destroyed before it    *)
(* was piped to takes the first piece and asks for no other.  A socket     *)
(* with unread bytes never ends.                                           *)
(*                                                                         *)
(* A definition named X_Bug... is X with a plausible mistake in it, used   *)
(* only to show that a property is about X.                                *)
(***************************************************************************)
EXTENDS Integers

CONSTANT Chunks      \* of each direction, in the order of sending

ASSUME ChunksAssumption == Chunks \subseteq Nat

VARIABLES
  phase,        \* of the handler
  answer,       \* what the socket server answered to the upgrade
  clientSocket, proxySocket,
  clientDone,   \* the client has ended its side
  gameDone,     \* the socket server has
  toGame, toClient

vars == <<phase, answer, clientSocket, proxySocket, clientDone, gameDone, toGame, toClient>>

Phase == {"none", "asked", "piped", "refused", "failed"}
Down == {"open", "ended", "closed"}     \* "ended": the front has ended its side
Up == {"none", "leaving"} \cup Down     \* "leaving": both have, it is not closed yet

\* i is the next piece at that place.
First(f, place, i) == f[i] = place /\ \A j \in Chunks : f[j] = place => i <= j

Nothing(f, place) == \A i \in Chunks : f[i] # place

\* The sockets are destroyed: what was not passed on is lost.
Drop(f) == [i \in Chunks |-> IF f[i] \in {"head", "wire", "up"} THEN "lost" ELSE f[i]]

Init ==
  /\ phase = "none" /\ answer = "none"
  /\ clientSocket = "open" /\ proxySocket = "none"
  /\ clientDone = FALSE /\ gameDone = FALSE
  /\ toGame = [i \in Chunks |-> "client"]
  /\ toClient = [i \in Chunks |-> "game"]

-----------------------------------------------------------------------------
(* The two ends                                                            *)

ClientSends(i) ==
  /\ clientSocket # "closed" /\ ~clientDone
  /\ First(toGame, "client", i)
  /\ toGame' = [toGame EXCEPT ![i] = "wire"]
  /\ UNCHANGED <<phase, answer, clientSocket, proxySocket, clientDone, gameDone, toClient>>

ClientEnds ==
  /\ clientSocket # "closed" /\ ~clientDone
  /\ clientDone' = TRUE
  /\ UNCHANGED <<phase, answer, clientSocket, proxySocket, gameDone, toGame, toClient>>

GameAnswers(a) ==
  /\ phase = "asked" /\ answer = "none"
  /\ answer' = a
  /\ UNCHANGED <<phase, clientSocket, proxySocket, clientDone, gameDone, toGame, toClient>>

GameSends(i) ==
  /\ answer # "none" /\ proxySocket # "closed" /\ ~gameDone /\ phase # "failed"
  /\ First(toClient, "game", i)
  /\ toClient' = [toClient EXCEPT ![i] = "wire"]
  /\ UNCHANGED <<phase, answer, clientSocket, proxySocket, clientDone, gameDone, toGame>>

\* Also its ping timeout, when the client has gone without a word.
GameEnds ==
  /\ answer # "none" /\ proxySocket # "closed" /\ ~gameDone /\ phase # "failed"
  /\ gameDone' = TRUE
  /\ UNCHANGED <<phase, answer, clientSocket, proxySocket, clientDone, toGame, toClient>>

-----------------------------------------------------------------------------
(* The upgrade and its answer                                              *)

\* What came in the same read, the first n pieces, is no longer in the socket.
SameRead(f, n, to) == [i \in Chunks |-> IF f[i] = "wire" /\ i <= n THEN to ELSE f[i]]

\* front 'upgrade': the socket server is asked.
Upgrade ==
  /\ phase = "none" /\ clientSocket = "open"
  /\ phase' = "asked"
  /\ \E n \in Chunks \cup {-1} : toGame' = SameRead(toGame, n, "head")
  /\ UNCHANGED <<answer, clientSocket, proxySocket, clientDone, gameDone, toClient>>

Head_BugForgotten == [i \in Chunks |-> IF toGame[i] = "head" THEN "lost" ELSE toGame[i]]

\* proxySocket.write(head), before the client's later bytes are piped.
Head == [i \in Chunks |-> IF toGame[i] = "head" THEN "up" ELSE toGame[i]]

\* 'upgrade': the 101 and the client's head are passed on and the sockets are piped.
\* What the socket server sent in one read with its 101 is the listener's third
\* argument, which the handler does not take.
Upgraded ==
  /\ phase = "asked" /\ answer = "upgrade"
  /\ phase' = "piped" /\ proxySocket' = "open"
  /\ toGame' = Head
  /\ \E n \in Chunks \cup {-1} : toClient' = SameRead(toClient, n, "ignored")
  /\ UNCHANGED <<answer, clientSocket, clientDone, gameDone>>

\* 'response': the status and the body are passed on instead.
Responded ==
  /\ phase = "asked" /\ answer = "response"
  /\ phase' = "refused" /\ proxySocket' = "open"
  /\ UNCHANGED <<answer, clientSocket, clientDone, gameDone, toGame, toClient>>

\* proxyReq 'error'.
RequestFails ==
  /\ phase = "asked"
  /\ phase' = "failed" /\ clientSocket' = "closed"
  /\ toGame' = Drop(toGame) /\ toClient' = Drop(toClient)
  /\ UNCHANGED <<answer, proxySocket, clientDone, gameDone>>

-----------------------------------------------------------------------------
(* Passing on                                                              *)

\* clientSocket.pipe(proxySocket).  When the socket server has ended and proxySocket has
\* not closed yet, the write fails and the 'error' handler destroys the client's; once it
\* has closed nothing is read from the client.
PipeToGame(i) ==
  /\ phase = "piped" /\ clientSocket # "closed"
  /\ First(toGame, "wire", i)
  /\ \/ /\ proxySocket = "open"
        /\ toGame' = [toGame EXCEPT ![i] = "up"]
        /\ UNCHANGED <<clientSocket, proxySocket, toClient>>
     \/ /\ proxySocket = "leaving"
        /\ proxySocket' = "closed" /\ clientSocket' = "closed"
        /\ toGame' = Drop(toGame) /\ toClient' = Drop(toClient)
  /\ UNCHANGED <<phase, answer, clientDone, gameDone>>

GameReceives(i) ==
  /\ First(toGame, "up", i)
  /\ toGame' = [toGame EXCEPT ![i] = "game"]
  /\ UNCHANGED <<phase, answer, clientSocket, proxySocket, clientDone, gameDone, toClient>>

\* The client's socket was destroyed before it was piped to and has lost a piece: its
\* write returned false, and the 'drain' that the pipe waits for does not come.
Paused == phase = "piped" /\ \E i \in Chunks : toClient[i] = "lost"

\* proxySocket.pipe(clientSocket), or the body of the response; a client that is gone
\* takes nothing.
PipeToClient(i) ==
  /\ phase \in {"piped", "refused"} /\ proxySocket # "closed" /\ ~Paused
  /\ First(toClient, "wire", i)
  /\ toClient' = [toClient EXCEPT ![i] = IF clientSocket = "open" THEN "client" ELSE "lost"]
  /\ UNCHANGED <<phase, answer, clientSocket, proxySocket, clientDone, gameDone, toGame>>

\* pipe() ends the other socket after the last byte.
ClientEndPassed ==
  /\ phase = "piped" /\ clientDone /\ clientSocket # "closed" /\ proxySocket = "open"
  /\ Nothing(toGame, "wire")
  /\ proxySocket' = "ended"
  /\ UNCHANGED <<phase, answer, clientSocket, clientDone, gameDone, toGame, toClient>>

GameEndPassed_BugBeforeData ==
  /\ phase \in {"piped", "refused"} /\ gameDone /\ proxySocket \in {"open", "ended"}
  /\ proxySocket' = "leaving"
  /\ clientSocket' = IF clientSocket = "open" THEN "ended" ELSE clientSocket
  /\ UNCHANGED <<phase, answer, clientDone, gameDone, toGame, toClient>>

GameEndPassed_BugKeepsClient ==
  /\ phase \in {"piped", "refused"} /\ gameDone /\ proxySocket \in {"open", "ended"}
  /\ Nothing(toClient, "wire")
  /\ proxySocket' = "leaving"
  /\ UNCHANGED <<phase, answer, clientSocket, clientDone, gameDone, toGame, toClient>>

\* The other way too; and proxySocket is not half-open, so it ends itself,
GameEndPassed ==
  /\ phase \in {"piped", "refused"} /\ gameDone /\ proxySocket \in {"open", "ended"}
  /\ Nothing(toClient, "wire")
  /\ proxySocket' = "leaving"
  /\ clientSocket' = IF clientSocket = "open" THEN "ended" ELSE clientSocket
  /\ UNCHANGED <<phase, answer, clientDone, gameDone, toGame, toClient>>

\* and closes: the client's pipe is undone.
ProxyCloses ==
  /\ proxySocket = "leaving"
  /\ proxySocket' = "closed"
  /\ toGame' = [i \in Chunks |-> IF toGame[i] = "up" THEN "lost" ELSE toGame[i]]
  /\ UNCHANGED <<phase, answer, clientSocket, clientDone, gameDone, toClient>>

\* Both sides have ended, and nothing is unread: the head is not, the handler has it.
ClientClosed ==
  /\ clientSocket = "ended" /\ clientDone /\ Nothing(toGame, "wire")
  /\ clientSocket' = "closed"
  /\ toGame' = [i \in Chunks |-> IF toGame[i] = "head" THEN "lost" ELSE toGame[i]]
  /\ UNCHANGED <<phase, answer, proxySocket, clientDone, gameDone, toClient>>

\* clientSocket 'error'.  Its listener is attached with the pipes: before the 101 and
\* after another answer the socket server hears nothing.
ClientResets ==
  /\ clientSocket # "closed"
  /\ clientSocket' = "closed"
  /\ toGame' = Drop(toGame)
  /\ IF phase = "piped" /\ proxySocket # "closed"
     THEN proxySocket' = "closed" /\ toClient' = Drop(toClient)
     ELSE UNCHANGED <<proxySocket, toClient>>
  /\ UNCHANGED <<phase, answer, clientDone, gameDone>>

\* 'error' of proxySocket, or of the response.
GameResets ==
  /\ phase \in {"piped", "refused"} /\ proxySocket # "closed"
  /\ proxySocket' = "closed" /\ clientSocket' = "closed"
  /\ toGame' = Drop(toGame) /\ toClient' = Drop(toClient)
  /\ UNCHANGED <<phase, answer, clientDone, gameDone>>

-----------------------------------------------------------------------------
Ends == \/ ClientEnds \/ GameEnds
        \/ \E i \in Chunks : ClientSends(i) \/ GameSends(i)
        \/ \E a \in {"upgrade", "response"} : GameAnswers(a)

Passes == \/ \E i \in Chunks : PipeToGame(i) \/ GameReceives(i) \/ PipeToClient(i)
          \/ ClientEndPassed \/ GameEndPassed \/ ProxyCloses \/ ClientClosed

Next == \/ Ends \/ Passes
        \/ Upgrade \/ Upgraded \/ Responded \/ RequestFails
        \/ ClientResets \/ GameResets

\* Sockets pass on what they have; a browser and the socket server close a connection
\* that the other side has ended, the latter also one that answers no pings.
Fairness ==
  /\ WF_vars(Passes)
  /\ WF_vars(clientSocket = "ended" /\ ClientEnds)
  /\ WF_vars((proxySocket = "ended" \/ clientSocket = "closed") /\ GameEnds)

Spec == Init /\ [][Next]_vars
FairSpec == Spec /\ Fairness

-----------------------------------------------------------------------------
(* Properties                                                              *)

ClientBytes == INSTANCE ByteStream WITH
  written <- {i \in Chunks : toGame[i] # "client"},
  received <- {i \in Chunks : toGame[i] = "game"}

GameBytes == INSTANCE ByteStream WITH
  written <- {i \in Chunks : toClient[i] # "game"},
  received <- {i \in Chunks : toClient[i] = "client"}

\* What a client sends, from the first byte after its request, reaches the socket
\* server as a byte stream (local-server.ts:451-474).
RelaysClient == ClientBytes!StreamSpec

\* The same of what the socket server sends: "proxies everything else (incl. the /ws
\* socket.io upgrade) to that child" (local-server.ts:8-9, 462-470).
RelaysGame == GameBytes!StreamSpec

\* What is missing of it is the head the handler does not take (local-server.ts:462) and
\* nothing else: the client has read what came after the head without a gap, and a later
\* piece is lost only when the client's socket is closed, never by the order in which
\* the last bytes and the end reach the front.
OnlyHeadMissing ==
  \A i \in Chunks :
    /\ toClient[i] = "client" => \A j \in Chunks : j < i => toClient[j] \in {"ignored", "client"}
    /\ toClient[i] = "ignored" => \A j \in Chunks : j < i => toClient[j] = "ignored"
    /\ toClient[i] = "lost" => clientSocket = "closed"

\* When one side of a piped connection ends or breaks, both sockets are closed in the
\* end, and only unread bytes keep one open: what the client sent when the socket server
\* had gone, or the second piece for a client that had gone before the pipes were there
\* (local-server.ts:470-473).
EndsMeet ==
  (phase = "piped" /\ (clientDone \/ gameDone \/ "closed" \in {clientSocket, proxySocket}))
    ~> \/ clientSocket = "closed" /\ proxySocket = "closed"
       \/ clientSocket = "ended" /\ proxySocket = "closed" /\ ~Nothing(toGame, "wire")
       \/ clientSocket = "closed" /\ Paused /\ ~Nothing(toClient, "wire")

-----------------------------------------------------------------------------
(* The inductive invariants, first of the client's direction               *)

TypeOK ==
  /\ phase \in Phase /\ answer \in {"none", "upgrade", "response"}
  /\ clientSocket \in Down /\ proxySocket \in Up
  /\ clientDone \in BOOLEAN /\ gameDone \in BOOLEAN
  /\ toGame \in [Chunks -> {"client", "head", "wire", "up", "game", "lost"}]
  /\ toClient \in [Chunks -> {"game", "wire", "ignored", "client", "lost"}]

Places ==
  /\ proxySocket = "none" <=> phase \in {"none", "asked", "failed"}
  /\ \A i \in Chunks :
       /\ toGame[i] = "head" => phase \in {"asked", "refused"}
       /\ toGame[i] \in {"head", "wire"} => clientSocket # "closed"
       /\ toGame[i] = "up" => proxySocket # "closed"
       /\ toGame[i] \in {"up", "game"} => phase = "piped"
       /\ toGame[i] = "lost" => "closed" \in {clientSocket, proxySocket}

InOrder ==
  \A i, j \in Chunks : j < i =>
    /\ toGame[i] # "client" => toGame[j] # "client"
    /\ toGame[i] = "head" => toGame[j] # "wire"
    /\ toGame[i] = "up" => toGame[j] \in {"up", "game"}
    /\ toGame[i] = "game" => toGame[j] = "game"

IInv == TypeOK /\ Places /\ InOrder

(* The direction back                                                      *)

PlacesBack ==
  /\ clientSocket = "ended" => gameDone /\ Nothing(toClient, "wire")
  /\ \A i \in Chunks :
       /\ toClient[i] = "lost" => clientSocket = "closed" /\ phase \in {"piped", "refused", "failed"}
       /\ toClient[i] \in {"ignored", "client"} => phase \in {"piped", "refused"}

InOrderBack ==
  \A i, j \in Chunks : j < i =>
    /\ toClient[i] # "game" => toClient[j] # "game"
    /\ toClient[i] = "wire" => toClient[j] \in {"ignored", "client", "wire", "lost"}
    /\ toClient[i] = "client" => toClient[j] \in {"ignored", "client"}
    /\ toClient[i] = "ignored" => toClient[j] = "ignored"

BackInv == IInv /\ PlacesBack /\ InOrderBack
=============================================================================
