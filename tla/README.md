# TLA+ models of Razzoozle Desktop

Razzoozle Desktop is an Electron app that hosts a quiz game on the user's own
machine. It spawns the game's socket server as a child process, opens an HTTP
front for the players on port 7777 of the LAN, and, unless switched off,
registers with a gateway and dials a relay tunnel so that players from elsewhere
can join too. All of its own code is in `src/main/` (3000 lines of TypeScript,
one Node process, one thread). Paths below are relative to the repository.

One thread does not mean one thing at a time. Every `await` and every callback
is a place where another handler may run: the tray's menu is clicked while the
boot still awaits the gateway, a heartbeat is under way while the session is
stopped, a socket reports `error` and `close` after `close()` was called. Those
interleavings, and what the network, the child process and the user may do in
between, are what the models explore.

## 1. Inventory

| Component | Source | State it keeps | Operations | Talks to |
|---|---|---|---|---|
| Main process | `src/main/index.ts` | `running`, `gatewaySession`, `mainWindow`, `tray`, `config.json` | boot (`whenReady`), `host:start`, `host:stop`, tray clicks, `window-all-closed`, `second-instance`, `activate` | calls all the others |
| LAN host | `src/main/local-server.ts` | internal port, child process, front server, connections, `childExited`, `spawnError` | `startHost`, `stop` | child over loopback HTTP, players over port 7777 |
| Gateway session | `src/main/gateway-client.ts`, `index.ts:216-327` | session id, token, candidates, heartbeat interval | register, `heartbeatTick`, `stopGatewaySession` | gateway over HTTPS |
| Token store | `src/main/token-store.ts` | one encrypted file per session | save, load (never called), clear | disk |
| Relay tunnel | `src/main/tunnel-client.ts` | control socket, reconnect timer, data pipes, `stopped` | `startTunnel`, `close`, socket callbacks | gateway over WebSocket, own front over TCP |
| Front's upgrades | `local-server.ts:451-491` | two sockets per connection | `upgrade`, `response`, pipes | players, child |
| Reachability | `src/main/reachability.ts` | cached default route | `detectLanIpv4`, `buildHostCandidates` | network interfaces, address echo |
| Manager password | `src/main/manager-password.ts` | cached password, registry value, file | `getPassword` | registry, disk |
| Login and navigation | `index.ts:440-590, 796-860` | latch in the page, window shown | `injectManagerScript`, guards | the manager page |
| Settings, identity | `index.ts:61-102, 169-209` | `config.json`, `host-id`, `game.json` | read, write | disk |
| Gateway | another repository | sessions, candidates, TTL | POST, PATCH, DELETE | hosts and players |
| Game | `vendor/razzoozle` | the game | started as child | players |

What is hard about each, and what makes it correct:

- **Main process.** Handlers overlap at their awaits and share two variables,
  `running` and `gatewaySession`. Correct means: at most one session, reachable
  through the pointer; an opt-out that holds; no host and no session that nobody
  can stop any more; every click, the boot and the closing of the window come to
  an end whatever the gateway does.
- **LAN host.** A start can fail before, at and after the spawn, while polling
  and while listening; the child can die at any moment; another start may run.
  Its front is closed while connections are in every state from accepted to
  upgraded. Correct means: no child is left behind, one front, a start settles
  unless the answer to its poll breaks off, and `stop()` waits for nothing but
  connections that a client keeps.
- **Gateway session.** Requests and answers get lost, the host sleeps, crashes,
  changes networks. Correct means: the session lives as long as heartbeats do,
  the gateway shows the current addresses, and a session let go of disappears.
- **Relay tunnel.** Four kinds of callbacks on each socket and a timer. Correct
  means: exactly one reconnect chain, the documented backoff, no socket out of
  the reach of `close()`, silence afterwards; and each direction of a stream is a
  byte stream, though its two sockets open, end and fail independently.
- **Front's upgrades.** The first bytes of either side may come with the request
  or with the answer; either side may go before the two are joined. Correct means:
  a byte stream each way, and an end that reaches both.
- **Reachability.** The network changes around and during calls; the default
  route is remembered for ever. Correct means: the address is right for the
  interfaces of the call, whatever was remembered, and in the end for the present.
- **Password and login.** Two stores that may fail to be read or written,
  `game.json` with somebody else's settings in it, and a script that races with
  the page it is injected into. Correct means: the password in use outlives the
  process and is the one the game compares with, and the host is logged in.

`PROJECT.json` lists every component with its status and, under `hazards`, each
place where these things bite.

## 2. Modules

| Module | Models |
|---|---|
| `TunnelClient` | `tunnel-client.ts`: one action per callback, all streams |
| `LinkSupervisor` | abstract: what the tunnel promises of its control link |
| `TunnelPipe` | the `open` handler of a data socket: one stream with its bytes |
| `FrontRelay` | the `upgrade` handler of the front: one connection with its bytes |
| `PlayerPath` | the two composed: a remote player from the gateway to the game |
| `ByteStream` | abstract: one direction of a relayed connection |
| `LocalServer` | `startHost`, `stop`, the child, the ports |
| `HostService` | abstract: what the main process may rely on of them |
| `DesktopMain` | the handlers of `index.ts` |
| `GatewaySession` | registration, heartbeat, unregistration, token files, the gateway |
| `Reachability` | `reachability.ts`: the choice of addresses while the network changes |
| `ManagerLogin` | `manager-password.ts`, `game.json`, the navigation guards, the injected script |
| `...Proofs` | theorems about the module of that name; `FrontRelayProofs` also about `PlayerPath` |
| `MC...` | what only the model checker needs |

How they fit together: `TunnelClient` implements `LinkSupervisor`, `LocalServer`
implements `HostService`, each direction of `TunnelPipe` and the client's direction
of `FrontRelay` implement `ByteStream`, all checked as properties through a
refinement mapping and proved. A remote player's bytes go through both relays, which
share no state but the TCP connection between them; `PlayerPath` joins the two at
that connection. `DesktopMain` EXTENDS `HostService` and so is composed with the
abstract host instead of ports and polling; the refinement is what entitles it to.
Of the gateway session and the tunnel, `DesktopMain` keeps what its own handlers
see: is the session requested, live or closing, is its heartbeat armed (`beating`),
is its tunnel up (`tunnelled`). `GatewaySession` opens up what happens between those
states for one registration at a time, with the candidates that `Reachability`
chooses as a set from a small set; `ManagerLogin` opens up the window that
`DesktopMain` has as hidden, shown or closed.

Conventions:

- An action is one callback or one stretch of a handler between two awaits, run
  to completion. `pc` says at which await a task is; `awaits` what it awaits.
- A definition named `X_Bug...` is `X` with a plausible mistake in it (a
  dropped guard, a missing reset, a swapped order). It belongs to no behaviour
  of the model. Put in the place of `X` it makes a property fail, which shows
  that the property says something about `X`. `PROJECT.json` pairs them up under
  `mutants`.
- The map in `PROJECT.json` gives the source lines of every definition.

### TunnelClient

`ctl[c]`, `dataWs[s]` and `local[s]` are the lives of the control sockets, of
the data sockets and of the TCP connections behind them; `control`,
`reconnectTimer`, `nextReconnectMs`, `dataPipes` and `stopped` are the fields of
the same names in `TunnelState`. `DialectControl`, `ScheduleReconnect` and
`NextDelay` are the functions of those names (or the expression inside), the
other actions the handlers of `open`, `message`, `error`, `close`, `end`, and
`TunnelHandle.close`. `dialThrows` is the outcome of `new WebSocket(url)`, which
depends on the URL alone and so is chosen once. The life of a `ws` socket is
that of the library: `error` at most once, `close` exactly once and last, also
when `close()` aborted a handshake. The bytes are in `TunnelPipe`.

### LocalServer

A member of `Hosts` is one call of `startHost` with its child, front and `stop()`.
`pc` follows the call: the port probe, the poll's `attempt` and its pending request,
the headers of its answer (`good` or `wrong`), `front.listen`, running, draining (in
`front.close`), stopped or failed; or `cut`: an answer that began breaks off
(173-188), which is neither `error` of the request nor `end` of the response, so
that neither `retry()` nor the deadline comes into play again. `child` separates
what the operating system knows from what the handlers were told: a child that is
`dead` has an `exit` event pending, and until it is handled `childExited` is false
(384-388). `bound` and `public` say who listens where, other programs included. The
poll may be answered by another call's server on the same port, as in the code,
which looks at no identity. `conn[h]` are the connections of a front from their
acceptance on: with nothing asked yet, with a request or an upgrade under way, kept
alive after an answer, or a player's. `Stop` destroys those that are kept alive, as
`http.Server.close()` does, and `Drained` waits for all that are left, whatever they
carry.

### HostService

`off -> starting -> up -> stopping -> off`, or back from `starting` when the
call rejects; at most one is `up`; `stopping` ends when no connection is left. A
call need not end: nothing here says that it does.

### DesktopMain

Tasks are activations of handlers: `Boot`, tray `Clicks`, `Starts` and `Stops`
(the IPC handlers), `Closings` (`window-all-closed`). `running` and
`gatewaySession` are the module variables; `override` is
`RAZZOOZLE_GATEWAY_ENABLED`, `config` the saved setting, `menu` the tray's
checkbox as shown, `choice` what the user last asked for. `EnsureGatewaySession`
and `StopGatewaySession` are the first halves of those functions up to their
await, `Registered`, `RegisterFails` and `Unregistered` the second halves,
together with what the caller does next up to its own next await. `WriteConfig`
may fail, or be cut short and leave a file that reads as the default.
`overlapped` is history: two registrations, a registration and an opt-out, or two
hosts have been under way at once. Left out: the page inside the window
(`ManagerLogin`) and the updater.

### GatewaySession

The host's side (`pc`, `sess`, `timer`, `candidates`, `tick`, `beat`, `tokens`,
and `deleting` and `deleted`, the sessions whose DELETE is to be handled or answered),
the gateway's (`registered`, `stored`, `silence`) and the history that the
properties speak of (`missed`, `doubt`, `held`). A request is sent,
handled by the gateway, and answered in three steps, any of which may not come;
handled by the gateway, and answered in three steps, any of which may not come;
the host may stop, crash or change networks in between. `stopGatewaySession` gives up
the pointer before its await (`index.ts:304-306`), so the DELETEs of earlier sessions
may still be under way while the next one is registered. Two registrations at once are
`DesktopMain`'s subject. Time is counted in heartbeat intervals.

### TunnelPipe

`toGame[i]` and `toGateway[i]` say where piece `i` of a direction is: with its
sender, in the WebSocket's buffer (`ws`), in the TCP socket's (`local`), with its
receiver, or lost. `dataWs` and `local` are the two sockets, `piped` is
`state.dataPipes.has(pipe)`. An action is a callback of the handler at
`tunnel-client.ts:224-345`, or a step of a buffer. What a socket's `destroy`,
`close` and `end` do to the bytes it holds is Node's and `ws`'s: a destroyed
socket drops them, a closing WebSocket delivers what was sent before its close
frame and drops what is sent after. `Message` and `LocalData` share the guard
`Forwards`. `faulty`, `hungUp` and `gameEnded` record who gave a reason for a loss.

### FrontRelay

`phase` is where the handler at `local-server.ts:451-491` is: asked, piped,
refused, failed. The bytes are as above; `head` is what came in one read with the
request. What came in one read with the 101 is lost in `Upgraded`, since the
listener does not take Node's third argument. An HTTP server's socket has no
`error` listener between the `upgrade` event and the lines 472-473, so
`ClientResets` passes nothing on before that. The connection's sockets are
half-open on the client's side (as an HTTP server's are) and not on the other:
`proxySocket` is `leaving` when both its sides have ended, and closed thereafter.
`pipe()` is Node's. When its target has closed it stops reading, no write fails, and
what the client sends from then on stays on the wire, unread, with the `end` behind it.
And a target that was destroyed before it was piped to takes one piece and says "no
more" for good (`Paused`).

### PlayerPath

EXTENDS `FrontRelay` and INSTANCEs `TunnelPipe`. Neither handler knows of the
other: `net.connect` in the tunnel makes a connection that the front's server
accepts. So what one model leaves to its peer is here what the other does: the
write of the tunnel's socket (`LocalWritten`) is what the front's client sends
(`Arrives`), the end or reset of the front's socket is an end or an `error` of the
tunnel's (`FrontEnds`, `LocalFails`), and a tunnel's socket that is closed is for
the front a client that ended or was reset (`LocalGone`, `LocalReset`). All other
actions are those of one module beside an unchanged other. The first piece is the
`Request`, without which there is no `upgrade` event. On the way back the ends are
joined and the pieces are not: the front turns the game's first bytes into an answer
and leaves out others (`front_head`), so the pieces have no common numbers, and
one piece in the tunnel stands for all that the front sends;
`OnlyHeadMissing` and `ImplementsStreams` are about the two halves.

### Reachability

`nics` is `os.networkInterfaces()` as a sequence of addresses, each of one of the
ranges that the code tells apart, and marked if the interface is skipped; `route`
is what the kernel would answer, `cachedDefaultRouteIp` what the process
remembers, which may be nothing because the UDP socket is not bound yet when its
address is read. `BuildStart` and `EchoAnswers` or `EchoNothing` are
`buildHostCandidates` up to and after its await. `found` and `candidates` record
with the result the interfaces and the route it was made from. Ports, ids and
priorities are left out: they are constants.

### ManagerLogin

`registry` and `file` are the two stores, `gameJson` the password in `game.json`
and whether the game's own settings are still in it. `GetPassword`'s parameters
are the outcomes of its four calls: registry and file, read and written. `page` is
the route and state of the manager page, which the host cannot see; `latch` is
`window.__razzAutoLoginDone`; `armed` counts the injected scripts whose observer
and interval still run (2 stands for many); `notified` are the
`did-navigate-in-page` events and `scripts` the `executeJavaScript` calls that are
on their way between the two processes. `InPage` reads the route that the page has
when the event is handled, as the code does, not the one it was about. `Load` is a
new document: what ran in the old one is gone, but a handler that awaits its reset
there goes on and injects into the new one. `LoadFails` ends it on an error page,
on which scripts find nothing to fill. A write that fails half-way leaves a truncated
file (`CutShort`), for a failing `writeFileSync` as for a crash in it.

## 3. What is checked

Twelve runs, one per question. Nine pass; the other three each show one
statement of a comment that the code does not keep.

| Run | Question | Instance | States |
|---|---|---|---|
| `tunnel` | Do the callbacks in any order keep one reconnect chain, the ladder, every socket in reach, and silence after `close()`? | 2 control sockets, 2 streams | 1 186 |
| `pipe` | Is a stream a byte stream, and what may cost bytes? | 3 pieces each way | 10 634 |
| `host` | Do overlapping starts leave no child, settle, stop when their clients have gone, and keep the `HostService` contract? | 2 calls, 2 ports, 1 connection each | 371 920 |
| `front` | Is an upgraded connection a byte stream to the game, what is missing of the way back, and does an end reach both? | 3 pieces each way | 5 756 |
| `path` | Through tunnel and front: does the front see what a client of the LAN could do, the game get a byte stream, and the front close the connection of a player who is gone? | request and 2 pieces | 211 753 |
| `desktop` | With every handler at once: is the session pointer right; up to the first overlap, is there one session, an opt-out that holds, no lost host; is every await one that is answered; does everything end? | 2 hosts, 1 click at a time, start, stop, closing, 2 sessions, macOS and not | 330 992 |
| `gateway` | Over a lossy network: do sessions live, addresses arrive, abandoned sessions fade? | 2 sessions, 2 addresses, TTL 2 | 311 608 |
| `reach` | Is the advertised address right whatever route is remembered, and right again after a change? | 6 addresses in 4 networks, 3 changes | 403 842 |
| `login` | Does the password outlive the process, is a form that shows filled, and does the host get in? | 2 passwords, 3 moves of the page | 656 428 |
| `host_stop` | `stop()` stops front and child? | 2 calls, 1 port | violated |
| `front_head` | the front "proxies everything else"? | 2 pieces each way | violated |
| `desktop_two_sessions` | a session only "if not already running"? | 3 clicks | violated |

### Passing runs

**tunnel.** `SupervisedControl`: while running there is exactly one of a live
control socket, a pending `close` or an armed timer, never two and never none,
although `error` and `close` both come from one lost link. `NothingOutOfReach`:
an open control socket is `state.control`, a stream is in `dataPipes` exactly as
long as both its ends are in use, and after `close()` neither is. With
`NothingStartsAfterClose`: late callbacks after `close()` open, arm and pipe
nothing. `BackoffLadder`: delays are 1, 2, 5, 10, 10, ... s and only an opened
link starts over. `NeverGivesUp` is the liveness side, and `RefinesLinkSupervisor` the whole
in one.

**host.** `NoOrphanChild`: a child nobody has signalled belongs to a call that
has not ended yet. `StartSettles`: a hanging, dying, unspawnable or silent child does not
keep the caller waiting; only an answer that begins and breaks off does (disagreement
10). `StopWaitsOnlyForClients`: nothing but a connection that a client keeps delays
`stop()`, be it a player's, one whose request is not answered yet, or one on which
nothing was ever asked; not the child, another call or a connection kept alive after its
answer. `RefinesHostService`: at most one call is up, and it resolves,
rejects and stops as its callers take it to.

**pipe.** `ImplementsStreams`: nothing is passed on after a lost piece, nothing
twice or out of order, whether the TCP connection is still being made, one side
has ended, a socket failed, or the tunnel was stopped in the middle.
`OnlyEndsLose`: all that the game sent before it ended reaches the gateway, since
the close frame queues behind it; only a failure, a stop or the gateway's own end
costs bytes. `HealthyDelivers`: also what the gateway sent before the TCP
connection was up.

**front.** `RelaysClient`: from the first byte after the request.
`OnlyHeadMissing` bounds the damage of finding 2: the pieces that came with the 101,
from the first on, and then only what a closed socket lost; in particular the game's
last bytes before its end arrive, though data and end take turns in two pipes. `EndsMeet`: an
end or a reset of one side closes both sockets in the end, also if the client had
gone before they were joined; there the way leads over the game's ping timeout,
which is the one thing that notices. Two things only keep a socket open, and both are
bytes that nobody will read: the client's, sent when the game had already ended
(`clientSocket` stays), and the game's, behind the first piece for a client that was
reset before the 101 (`proxySocket` stays, until its connection breaks). See
disagreement 11.

**path.** `FrontAsAlone`: the specification of the front alone, without
the tunnel, is implemented by the two together. A tunnel that connects late, breaks
between two pieces or is stopped never makes the front see bytes out of order, after
an end or twice, so what is checked for a client of the LAN holds for a remote one.
`ReachesGame`: from the gateway to the game one byte stream, through four sockets
whose ends and failures interleave. `PlayerLeaves`: hanging up, a stop of the tunnel
or a failure closes in the end the front's socket to the tunnel, which is the one that a
`stop()` of the host waits for; the exception is that of `EndsMeet`, bytes of the player
that came after the game had ended and stay unread.

**desktop.** `SessionsIntact`: however the handlers interleave, the pointer
is to a registered session with heartbeat and tunnel, and a session being
deleted has neither. `UnregisteredOnce`: taking the pointer before the first
await (304-306) does keep two tasks from deleting the same session.
`SerialOneSession`, `SerialOptOut` and `SerialHostKept` say of three promises
that overlapping is all that breaks them: one session at a time and within reach
until two registrations have overlapped, an opt-out that holds until a
registration was under way beside it, and `running` as the only live host until
a second one was started beside the first. Failed and cut-short writes of
`config.json`, the environment override, closing the window during the boot and
a second launch are all included. `EveryAwaitIsAnswered`: also where tasks overlap,
none waits for a host or a session that is not on its way to an answer, and nothing is
on its way that no task waits for; one `stop()` may be awaited by many.
`ClosedIsEnding`: off macOS a closed window leaves no process without a task that ends
it. They are the safety part of the next three, which hold whatever the gateway does:
`ClickSettles`; `BootSettles`, if `startHost` resolves or rejects, of which no more is
assumed than that; and `CloseEndsApp`, if the hosts' connections go.

**gateway.** `SurvivesMisses`: a session outlives any run of failed heartbeats
shorter than the TTL. `CandidatesKnown`: the host's idea of what is advertised
is right unless an answer to a replacement was lost. `TokenOutlivesSession`:
while the gateway may hold a session the host ever had, its token is on disk.
`LetGoFades`: a session that was let go of, by a stop, a crash or a registration whose
answer was lost, is not taken up again, and once no heartbeat about it is under way
nothing renews it, whatever the host's later sessions do, also if its DELETE was lost.
With time it reaches its TTL. `AddressesArrive`: settled addresses reach the gateway.

**reach.** `Advertised` relates a result to the interfaces and the route of its
call: an address the machine had, a real LAN address whenever there was one, the
remembered route's if it is still among them, a weak address only if there was
nothing else. A stale route can therefore cost a better order, never a wrong
address. `FollowsNetwork`: once the network rests, so do the candidates, and they
are the present ones, though each call reports the network of its beginning.

**login.** `PasswordKept`: the next process finds the password in use, through every
failure of a read or write that the fallback covers; `trouble` records the others.
And what the script types is what `game.json` has. `FormAttended`: there is no state
in which a login form shows and nothing is left that would fill it: an observer
runs, or an event or a script that makes one run is on its way, and the latch does
not stop the last of them. `HostGetsIn`: after the last logout or navigation the
host is past the login or on another of its routes, in a window that shows, unless
the page could not be loaded again, although the latch is set on submission, reset
across an await, and both may hit a document that is going away.

### Disagreements between comments and code

Each of the first three is a run with `expect: violation` and an entry under
`findings`.

1. `local-server.ts:230`, `stop()` will "Stop the front server and the socket
   child": it awaits `front.close()` first, which a connection that a client keeps,
   a player's for one, holds up for ever; the child is killed only after that
   (`host_stop`).
2. `local-server.ts:8-9`, the front "proxies everything else (incl. the /ws
   socket.io upgrade)": what the child sends in one segment with its 101 is
   dropped, what comes after it is relayed (`front_head`).
3. `index.ts:598`, "if enabled + not already running": the check and the
   assignment are an await apart. On, off, on during one registration leaves two
   sessions, one of them beyond reach (`desktop_two_sessions`).
The next ones are what a property of a passing run excludes with its hypothesis;
dropping the hypothesis shows them in a few steps.

4. `reachability.ts:196-198`, "We only emit candidates that pass that shape": on a
   machine without an RFC 1918 address the `lan` candidate is a public or a weak
   address (`Advertised` allows it where the machine had nothing else).
5. `index.ts:684-685`: switching off while the registration is under way stops
   nothing, and the session is then published (`SerialOptOut` without
   `~overlapped`).
6. `index.ts:400`, "Unregister from the gateway BEFORE tearing down the local
   server": not if another task holds the session.
7. `index.ts:213-214`, "Re-PATCHes (replace) when the candidate set changes": not
   if the answer to a replacement is lost and the addresses change back before the
   next beat (`AddressesArrive` without `[](~doubt)`).
8. `tunnel-client.ts:9-10`, "close() stops reconnect and closes everything": a
   data socket still in its handshake is not in `dataPipes`, is left alone, and
   hung up only if it opens.
9. `gateway-client.ts:116-117`, "so a heartbeat survives a restart": the token
   is saved and never loaded, and the session id is not saved at all.
10. `local-server.ts:159`, the poll goes on "until it answers "ok" or we give up": once
   the headers of an answer are there, one that stalls or breaks off calls neither
   `retry()` nor the 30 s deadline (173-188). `startHost` then never settles and the
   boot stays at `index.ts:771` (`StartSettles` without `"cut"`, `BootSettles` without
   its hypothesis).
11. An end of one side need not close both (470-473, where the code makes no statement):
   bytes that the client sends after the game's end stay unread and keep its socket and
   so `stop()` waiting; a reset before the 101 leaves the game's bytes unread and
   `proxySocket` paused (`EndsMeet` and `PlayerLeaves` without their second and third
   cases).

Met on the way, without a run of their own because no state is involved or the
statement is of another component:

- `index.ts:45-48` and `README.md:39` call the gateway opt-in with default off;
  `getUseGateway` has default on, and the boot registers (780-782).
- `index.ts:91-92` has `RAZZOOZLE_GATEWAY_ENABLED=0` force it off; a tray click
  to "on" calls `ensureGatewaySession` without asking (704-707).
- `index.ts:727-728`: a second launch focuses the existing window. If the window
  was closed while players stay, the app still holds the lock, has no window, and
  the second launch quits.
- The tray's "Beenden" calls `app.quit()`, which emits no `window-all-closed`:
  neither the session nor the child is ended (`TrayQuit` in the model).
- `protocol.ts` speaks of a stable candidate id; `buildHostCandidates` draws a
  new one each time (the comparison ignores it, so nothing follows from it).
- `index.ts:797`: the manager URL is made once at boot; after a change of network
  the guards lead back to an address that may be gone.
- `index.ts:475` sets the latch when the form is submitted, not when the login
  succeeds. A submission that fails is repeated only after the page moved to
  `/manager` again. An interval that is still armed does not look at the latch.
- `local-server.ts:489`: a client that resets before the 101 finds no `error`
  listener on its socket; Electron reports that as an uncaught exception in a
  dialog and goes on.
- `local-server.ts:36-38` says the internal port never collides; it is probed,
  given back and used later. The model has the collision; the start then fails
  or settles as it should.

### Bounds, and why they are enough

- *Two of each socket, stream, call.* Names are reused after the object's last
  event, so a behaviour has any number of them, two at a time. The code keeps one
  control socket and treats streams independently; what could go wrong needs an
  old one and a new one.
- *`Conns`, one connection per front*: `stop()` waits for each for itself, and one
  takes every state, also after the front has closed.
- *Ports 2*: one for each call, and fewer when another program takes one.
- *Sessions 2 in `desktop`*: ids are reused once a session is gone; two allow one
  published and one requested, or two that overlap. `desktop_two_sessions` has a
  third and three clicks, for one overwritten.
- *One task of each kind in `desktop`*: boot, click, start, stop and closing
  overlap in every way, and each but the boot may come again.
- *Pieces 3* each way: one lost, one before and one after it. In `path` the request
  is one of them.
- *Changes 3* in `Reachability`: two addresses to rank and one more to come or go
  around the calls. Two of the addresses share a network and one is of another,
  so each rank occurs.
- *Moves 3* in `ManagerLogin`: a logout that is undone before its event is
  handled, and one that counts. Two passwords: one kept, one drawn anew.
- *Sessions 2 in `GatewaySession`* are not reused: the gateway gives an id out
  once. Two allow an old session at the gateway beside the current one; a third
  registration fails, as one may at any time.
- *TTL 2*: the real one is 60 intervals (30 s against 30 min, `protocol.ts`). A
  session that may miss one beat but not two shows all the cases; the counter
  enters only through "silence reaches TTL".
- *Addresses 2* give four candidate sets, among them none, and a change there and
  back.
- Delays are compared as the code's milliseconds; other times (the 30 s deadline
  of the poll, 1 s of its request, 10 s of a gateway request, 7 s until the window
  is shown) are steps that may happen at any time while they can.

Symmetry is used in `desktop_two_sessions` only, which has no liveness.
`CHECK_DEADLOCK FALSE` is set where the system really stops: a stopped tunnel, an
ended stream or connection, an app that has ended, and, in `reach` and `login`,
where the bound on the environment's moves is reached. `host` and `gateway` cannot
deadlock.

### Fairness

Weak fairness on what the runtime guarantees, never on what a user, a player or
the gateway might do.

- `TunnelClient`: timers fire; a socket that is closing emits `close`.
- `LocalServer`: timers fire, so a request without an answer ends within its own
  timeout; an answer that has begun ends or breaks off, and the second is for good. The
  operating system answers `spawn`, `listen` and signals, a connection that is kept
  alive or destroyed goes, and `close` follows the last one. No fairness on calling
  `startHost` or `stop`, nor on clients who ask, are answered, or leave.
- `DesktopMain`: an await on the gateway ends, since each request is aborted
  after 10 s; one on `stop()` ends when no connection is left, by
  `StopWaitsOnlyForClients`. Nothing says that one on `startHost` ends: `BootSettles` has
  it as its hypothesis. No click and no closing is ever due.
- `GatewaySession`: time passes, and a call ends with an answer or without. The
  gateway need not answer; the properties that need it to say so themselves
  (`Acknowledged`).
- `TunnelPipe`: bytes under way arrive, a connection within the machine is made
  or refused, a close handshake ends (`ws` has a timeout for it). Nothing obliges
  the gateway or the game to send or to end.
- `FrontRelay`: sockets pass on what they have; the browser and the game close a
  connection that the other side has ended, and the game one whose peer answers
  no pings (socket.io's `pingTimeout`).
- `PlayerPath`: that of `TunnelPipe` and `FrontRelay`, but for the ends of the TCP
  connection between them: a socket learns in the end that the other is gone. Of the
  browser nothing is assumed here.
- `Reachability`: heartbeats build candidates again and again, and the 4 s of the
  echo end. The echo need not answer.
- `ManagerLogin`: events are delivered, scripts run, the interval of 250 ms ticks,
  the page shows its form, and the game server answers a login. No fairness on the
  boot: `HostGetsIn` is about a host that is up.

A request is handled by the gateway before the host gives up on it, or never: a
delay of more than 10 s inside the network that still ends in delivery is left
out.

## 4. What is proved

TLAPS proves, for every value of the constants that meets the assumptions in the
modules (`None` is not one of the things it is told apart from; tasks and hosts
are disjoint; the ranges of addresses are disjoint; pieces are natural numbers;
nothing is said about the sizes of the sets). `TypeOK` and `OneFront` are proved and
so not repeated in the runs:

| Theorem | Says |
|---|---|
| `TunnelClientProofs!TypeCorrect` | `[]TypeOK` |
| `...!OneReconnectChain` | `[]SupervisedControl` |
| `...!AllInReach` | `[]NothingOutOfReach` |
| `...!BackoffFollowsLadder` | `BackoffLadder`, an action property |
| `...!StoppedForGood` | `NothingStartsAfterClose`, an action property |
| `...!ImplementsLinkSupervisor` | `RefinesLinkSupervisor` |
| `LocalServerProofs!Typed` | `[]TypeOK` |
| `...!NoChildLeftBehind` | `[]NoOrphanChild` |
| `...!OneFrontAtATime` | `[]OneFront` |
| `...!ImplementsHostService` | `RefinesHostService` |
| `DesktopMainProofs!Typed` | `[]TypeOK` |
| `...!SessionsAreIntact` | `[]SessionsIntact` |
| `...!UnregistersOnce` | `[]UnregisteredOnce` |
| `...!AwaitsAreAnswered` | `[]EveryAwaitIsAnswered` |
| `...!ClosingEnds` | `[]ClosedIsEnding` |
| `...!OneSessionIfSerial` | `[]SerialOneSession` |
| `...!OptOutIfSerial` | `[]SerialOptOut` |
| `...!HostKeptIfSerial` | `[]SerialHostKept` |
| `GatewaySessionProofs!Typed` | `[]TypeOK` |
| `...!OutlivesMisses` | `[]SurvivesMisses` |
| `...!KnowsCandidates` | `[]CandidatesKnown` |
| `...!TokensOutlive` | `[]TokenOutlivesSession` |
| `...!LetGoFade` | `LetGoFades`, an action property |
| `TunnelPipeProofs!OnlyEndsLoseAlways` | `[]OnlyEndsLose` |
| `...!StreamsKept` | `ImplementsStreams`, a refinement |
| `FrontRelayProofs!TypedAndInOrder` | `[](TypeOK /\ Places /\ InOrder)` |
| `...!ClientRelayed` | `RelaysClient`, a refinement |
| `...!HeadAlone` | `[]OnlyHeadMissing` |
| `...!PathShowsFront` | `FrontAsAlone`: the composition implements `FrontRelay` |
| `...!PlayerReachesGame` | `ReachesGame`, a refinement through both relays |
| `ReachabilityProofs!AdvertisedIsSound` | `[]Advertised` |
| `ManagerLoginProofs!Typed` | `[]TypeOK` |
| `...!PasswordSurvives` | `[]PasswordKept` |
| `...!FormsAttended` | `[]FormAttended` |

**Tunnel.** The inductive invariant `IInv` is the conjunction of `TypeOK`,
`SupervisedControl` and the three parts of `NothingOutOfReach`, which hold
together or not at all: a lost link has
either its `close` still to come or the timer armed (`SupervisedControl`), and
that `close()` leaves nothing usable (`StoppedQuiet`) rests on
`ControlReachable` and `PipesExact`, which say what it can reach. The refinement
maps the phase of the link from `stopped`, the timer and the life of the one
supervised socket, which `SupervisedControl` makes well defined, and the delay to
a rung of the ladder; `NextDelayIsLadder` is the one fact about arithmetic.

**LAN host.** With `TypeOK`, `NoOrphanChild` and `OneFront` carry themselves:
the second says of connections, too, that only a front that is up or draining has any.
In the refinement, steps of the call before it resolves are
stutters; that `Listen` is a `Resolve` needs `OneFront`, as `listen` looks at the
port and the contract at the other calls.

**Gateway session.** A heartbeat may be under way for a session that was stopped,
or for the one before the current. `Ownership` says whose it can be: one the host
has held, which a session just created is not, and that the session in use or just created
has no DELETE under way. On it rest `Counts` (the gateway
counts no more silent intervals than the host counts failures, one more while a
heartbeat is under way), `Shows` (what the gateway shows is the applied
replacement, or what the host takes for advertised) and `Tokens`. Each of the
three properties is a consequence of one of them. `LetGoFades` is about steps: lemma
`StaysLetGo` shows for each action that it sends no heartbeat about a session that is
not the current one and makes none current that was, where again `Ownership` says that
a session just created is new.

**Main process.** `SessionsIntact` and `UnregisteredOnce` follow from what each
task knows at its await (`TaskInv`): one that registers holds a session of its
own in state "requested", one that unregisters holds a session of its own in
state "closing", and no two tasks hold the same one. A step of one task moves its
own session or the one behind the pointer, which is "live" and so nobody's. This
is why it holds for any number of tasks, also where `OneSession` does not. For the
three serial properties every step is first classified by what it does to the
pointer (`Moves`) and to the host (`HostMoves`). `PointerInv` then says that a
session on its way belongs to a task, and that up to the first overlap a
registration is under way only while nothing is published, and nothing is
published after an opt-out. `HostInv` is `HostKept` with the fact that no two
hosts are in use. `HostAwaits` is the host's half of `EveryAwaitIsAnswered`: it needs
that `running` is up or being stopped, or `TearDown` would await a `stop()` that
nobody called. Its steps are classified once more (`HostTaskMoves`): a task calls for
a host, is answered, starts to drain, or `HostStopped` wakes all that drain. `ClosingEnds`
needs of the closing task only that none of its steps leaves the two awaits without `Quit`.

**Pipe and front.** A loss is decided by a guard or by the end of a socket, so the
invariants (`Phases`, `Places`) say which states of the two sockets go together
and where a piece can be in them. `DownInv`, `UpInv` and `InOrder` then say that
what is ahead was written earlier, and that after a loss nothing moves that way.
From these each step is a `Write`, a `Receive` or a stutter of `ByteStream`. For the
way back, `BackInv` adds that the front ends the client's socket only when the game has
ended and nothing is left to pass on (`PlacesBack`), and that what precedes a piece on
the wire has been passed on, ignored or lost (`InOrderBack`).

**Path.** `PathInv` is the invariant of the front, that of the pipe and `Joined`: the
front has exactly the pieces that the tunnel's socket has written, unless its own is
closed, and sees an end only of a socket that is closed. Each step of the path is a step
of the pipe or leaves it alone (`PathIsPipe`, which needs no invariant), so the pipe's
invariant is carried over from `TunnelPipeProofs`, of which the module here is an
instance. That each step is one of the front needs `Joined` for one action: a piece the
tunnel's socket writes is the next the front's client has to send (`ArrivesNext`), since
the pipe keeps the order. With that `ClientRelayed` and `HeadAlone` hold behind the
tunnel. In `ReachesGame`, what is written is the pipe's and what is received the
front's; `Joined` is what makes the second a subset of the first.

**Reachability.** `Advertised` is about the result of a call, whose first half
computed it; the invariant says the same of `found`. The lemma `Ranks`, that rank 0
is the route's alone, is what the argument about a remembered route rests on: it
holds for any route, also one of another network.

**Login.** `PasswordKept` rests on `StoresAgree`: as long as no store failed, what
a next process would read is the password in use and the one last used. The step
with all the cases is `GetPassword` (lemma `Reads`); after it nothing but a crash or a
failure in the middle of a write touches the disk. `FormInv` adds to `FormAttended` that the
latch is open as long as no page is, and in a page that is loading (`LatchOpen`): a new
document starts without it. The case that needs care is a script at the head of the
queue that runs in a page it was not meant for; lemmas `DueAppended` and `DueTaken` say
what is still due after it.

**Only model-checked:** all liveness properties and everything under fairness
(`NeverGivesUp`, `HealthyDelivers`, `StartSettles`, `StopWaitsOnlyForClients`,
`EndsMeet`, `ClickSettles`, `BootSettles`, `CloseEndsApp`, `AddressesArrive`,
`FollowsNetwork`, `HostGetsIn`, `PlayerLeaves`). Liveness and ENABLED are outside
what the prover handles, as is induction over data; no module has a recursive
operator. What of them is safety is proved apart: `EveryAwaitIsAnswered` for
`ClickSettles` and `BootSettles`, `ClosedIsEnding` for `CloseEndsApp`,
`FormAttended` for `HostGetsIn`. Each says that the state in which nothing further
could happen does not occur; that what can happen does is left to fairness and TLC.

## 5. Not modelled

- Single proxied requests of the front (`proxyHttp`), static files and the ping: no
  state is kept between two of them. One thing was met there: an answer of the
  game that breaks off in its middle leaves the player's response open.
- `host-id` and the value of the gateway's URL: nothing in this program depends on
  them. `config.json` that is cut short is in `DesktopMain`.
- The `update-gate` request of `gateway-client.ts`, which the app never makes, the
  encryption of the token files, and `HostTokenStore.load`, which has no caller.
- How the page reads the join address: `window.__RAZZ_JOIN_BASE` is written at
  each injection and is stale in between.
- The second window that `activate` makes on macOS, which has no listeners.
- Logging, the updater's log lines, the logo, packaging.
- The renderer page and preload: the window is created without them, so nothing
  calls the IPC handlers in the shipped app. The handlers are in `DesktopMain`.
- The gateway and the game beyond what the host relies on.

## 6. What could come next

1. `LocalServer` with `FrontRelay`'s sockets in the place of its connections' states,
   so that `EndsMeet` and `PlayerLeaves` become the reason for `stop()` to complete.
2. A socket child that crashes after the start resolved: the code only logs it. A
   promise about it would have to come first.
3. `GatewaySession` with the real candidates of `Reachability` instead of a set.

## 7. Running it

    tlc -config MCTunnelClient.cfg MCTunnelClient.tla
    tlapm TunnelClientProofs.tla

and likewise for the pairs under `runs` in `PROJECT.json`. The whole takes a few
minutes on two cores.
