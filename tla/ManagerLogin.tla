----------------------------- MODULE ManagerLogin -----------------------------
(***************************************************************************)
(* How the host gets into the manager page without typing a password:      *)
(* src/main/manager-password.ts keeps one password per installation, and   *)
(* the boot in src/main/index.ts writes it into the game server's          *)
(* game.json, loads the page and injects a script that fills the login     *)
(* form, again after every navigation.  The app may be ended and may crash *)
(* at any moment, reads and writes may fail, and the page moves on while   *)
(* notifications and scripts are under way between the two processes.      *)
(*                                                                         *)
(* The page: "loading" a document, "blank" (/manager, no form yet), "login"*)
(* (the form), "sent", "console" (past the login), "party" (another route  *)
(* of the host), "other" (a route that is not the host's), "error".        *)
(*                                                                         *)
(* A definition named X_Bug... is X with a plausible mistake in it, used   *)
(* only to show that a property is about X.                                *)
(***************************************************************************)
EXTENDS Integers, Sequences

CONSTANTS Passwords, None,
          MaxMoves      \* bounds how often the user or the game moves the page

ASSUME NoneAssumption == None \notin Passwords
ASSUME MovesAssumption == MaxMoves \in Nat

VARIABLES
  win32,
  registry, file,      \* the stored password, or None
  gameJson,            \* [password, settings: those the game server had saved are there]
  pc,                  \* of the app's boot
  cachedPassword,
  page, shown,
  latch,               \* window.__razzAutoLoginDone
  armed,               \* injected scripts whose observer and interval run; 2 is many
  notified,            \* did-navigate-in-page events on their way
  scripts,             \* executeJavaScript calls on their way
  moves,
  known, trouble, used \* history: the last password in use, a store that failed, all drawn

disk == <<win32, registry, file, gameJson>>
window == <<page, shown, latch, armed, notified, scripts>>
past == <<known, trouble, used>>
vars == <<disk, pc, cachedPassword, window, moves, past>>

Stages == {"off", "password", "writing", "starting", "opening", "up", "failed"}
Calls == {"reset", "inject"}
Pages == {"none", "loading", "blank", "login", "sent", "console", "party", "other", "error"}

NoWindow == /\ page' = "none" /\ shown' = FALSE
            /\ latch' = FALSE /\ armed' = 0 /\ notified' = 0 /\ scripts' = <<>>

Init ==
  /\ win32 \in BOOLEAN /\ registry = None /\ file = None
  /\ gameJson = [password |-> None, settings |-> TRUE]
  /\ pc = "off" /\ cachedPassword = None
  /\ page = "none" /\ shown = FALSE /\ latch = FALSE /\ armed = 0
  /\ notified = 0 /\ scripts = <<>> /\ moves = 0
  /\ known = None /\ trouble = FALSE /\ used = {}

-----------------------------------------------------------------------------
(* The password                                                            *)

Start ==
  /\ pc = "off" /\ pc' = "password"
  /\ UNCHANGED <<disk, cachedPassword, window, moves, past>>

StorePassword_BugNoFallback(p, added, written) ==
  IF win32 THEN registry' = (IF added THEN p ELSE registry) /\ UNCHANGED file
  ELSE file' = (IF written THEN p ELSE file) /\ UNCHANGED registry

\* The registry, or the file where there is none or it cannot be written.
StorePassword(p, added, written) ==
  IF win32 /\ added THEN registry' = p /\ UNCHANGED file
  ELSE file' = (IF written THEN p ELSE file) /\ UNCHANGED registry

\* A failed read is taken for a password that is not there.
readPasswordFromRegistry(queried) == IF win32 /\ queried THEN registry ELSE None
readPasswordFromFile(read) == IF read THEN file ELSE None

\* getPassword of a new process: read the registry, then the file, else draw one.
GetPassword(queried, read, added, written) ==
  LET reg == readPasswordFromRegistry(queried)
      txt == readPasswordFromFile(read)
  IN
  /\ pc = "password" /\ pc' = "writing"
  /\ IF <<reg, txt>> # <<None, None>>
     THEN /\ cachedPassword' = IF reg # None THEN reg ELSE txt
          /\ trouble' = (trouble \/ (win32 /\ ~queried))
          /\ UNCHANGED <<registry, file, used>>
     ELSE \E p \in Passwords \ used :
          /\ cachedPassword' = p /\ used' = used \cup {p}
          /\ StorePassword(p, added, written)
          /\ trouble' = (trouble \/ ~read \/ (win32 /\ ~queried) \/ ~(written \/ (win32 /\ added)))
  /\ UNCHANGED <<win32, gameJson, window, moves, known>>

\* writeGameConfig keeps what else is in game.json, if that can be read.
WriteGameConfig(readable) ==
  gameJson' = [password |-> cachedPassword, settings |-> gameJson.settings /\ readable]

ConfigWritten(readable) ==
  /\ pc = "writing" /\ pc' = "starting"
  /\ WriteGameConfig(readable)
  /\ known' = cachedPassword /\ trouble' = (trouble \/ ~readable)
  /\ UNCHANGED <<win32, registry, file, cachedPassword, window, moves, used>>

\* The file is emptied before it is written: what is cut short reads as nothing.
CutShort == trouble' = TRUE /\ gameJson' = [password |-> None, settings |-> FALSE]

\* It throws, before the write or in the middle of it: an error page instead of the game.
ConfigFails ==
  /\ pc = "writing" /\ pc' = "failed"
  /\ page' = "error" /\ shown' = TRUE
  /\ CutShort \/ UNCHANGED <<gameJson, trouble>>
  /\ UNCHANGED <<win32, registry, file, cachedPassword, latch, armed, notified, scripts,
                 moves, known, used>>

-----------------------------------------------------------------------------
(* The app                                                                 *)

\* startHost has resolved: the listeners are set and the page is loaded.
HostUp ==
  /\ pc = "starting" /\ pc' = "opening"
  /\ page' = "loading"
  /\ UNCHANGED <<disk, cachedPassword, shown, latch, armed, notified, scripts, moves, past>>

\* startHost or the first loadURL has failed.
HostFails ==
  /\ pc \in {"starting", "opening"}
  /\ pc' = "failed" /\ page' = "error" /\ shown' = TRUE
  /\ latch' = FALSE /\ armed' = 0 /\ notified' = 0 /\ scripts' = <<>>
  /\ UNCHANGED <<disk, cachedPassword, moves, past>>

\* The app ends, or crashes; in the middle of a write game.json is left in pieces.
Ends ==
  /\ pc # "off" /\ pc' = "off"
  /\ cachedPassword' = None
  /\ NoWindow
  /\ (pc = "writing" /\ CutShort) \/ UNCHANGED <<gameJson, trouble>>
  /\ UNCHANGED <<win32, registry, file, moves, known, used>>

\* The game server saves its settings.
SettingsSaved ==
  /\ pc = "up" /\ ~gameJson.settings
  /\ gameJson' = [gameJson EXCEPT !.settings = TRUE]
  /\ UNCHANGED <<win32, registry, file, pc, cachedPassword, window, moves, past>>

\* The seven seconds are over.
ShowTimer ==
  /\ pc \in {"opening", "up"} /\ ~shown /\ shown' = TRUE
  /\ UNCHANGED <<disk, pc, cachedPassword, page, latch, armed, notified, scripts, moves, past>>

-----------------------------------------------------------------------------
(* The page                                                                *)

OnForm == page \in {"login", "sent"}
Unmoved == UNCHANGED <<disk, pc, cachedPassword, shown, moves, past>>

Due(s, call) == \E k \in DOMAIN s : s[k] = call

\* A new document: nothing of the old one is left, but a handler that awaits its reset
\* goes on.
Load ==
  /\ page' = "loading" /\ latch' = FALSE /\ armed' = 0
  /\ scripts' = IF Due(scripts, "reset") THEN <<"inject">> ELSE <<>>

Push(s) == scripts' = Append(scripts, s)

\* did-finish-load.
FinishLoad ==
  /\ pc \in {"opening", "up"} /\ page = "loading"
  /\ pc' = "up" /\ page' = "blank" /\ Push("inject")
  /\ UNCHANGED <<disk, cachedPassword, shown, latch, armed, notified, moves, past>>

\* A load after the first one fails: it is logged, and nothing tries again.
LoadFails ==
  /\ pc = "up" /\ page = "loading"
  /\ page' = "error"
  /\ UNCHANGED <<latch, armed, notified, scripts>> /\ Unmoved

\* The web app shows the form, or goes on where the host was logged in before.
FormShows ==
  /\ page = "blank"
  /\ \/ page' = "login" /\ UNCHANGED notified
     \/ page' = "console" /\ notified' = notified + 1
  /\ UNCHANGED <<latch, armed, scripts>> /\ Unmoved

\* The page goes to another route by itself: a logout, a game, or a way out.
Moves(to) ==
  /\ pc = "up" /\ page \in {"console", "party"} /\ moves < MaxMoves
  /\ to \in {"login", "console", "party", "other"} \ {page}
  /\ page' = to /\ notified' = notified + 1 /\ moves' = moves + 1
  /\ UNCHANGED <<disk, pc, cachedPassword, shown, latch, armed, scripts, past>>

\* A full navigation: will-navigate lets the host's routes pass and loads the manager
\* page instead of any other.
Navigates ==
  /\ pc = "up" /\ page \in {"console", "party", "other"} /\ moves < MaxMoves
  /\ moves' = moves + 1
  /\ Load
  /\ UNCHANGED <<disk, pc, cachedPassword, shown, notified, past>>

InPage_BugNoReset ==
  /\ pc = "up" /\ notified > 0
  /\ notified' = notified - 1
  /\ IF page = "other" THEN Load /\ UNCHANGED shown
     ELSE /\ shown' = (shown \/ page = "console")
          /\ Push("inject")
          /\ UNCHANGED <<page, latch, armed>>
  /\ UNCHANGED <<disk, pc, cachedPassword, moves, past>>

\* did-navigate-in-page, for the route the page has by now.
InPage ==
  /\ pc = "up" /\ notified > 0
  /\ notified' = notified - 1
  /\ IF page = "other" THEN Load /\ UNCHANGED shown
     ELSE /\ shown' = (shown \/ page = "console")
          /\ Push(IF page \in {"loading", "error", "blank", "login", "sent"} THEN "reset" ELSE "inject")
          /\ UNCHANGED <<page, latch, armed>>
  /\ UNCHANGED <<disk, pc, cachedPassword, moves, past>>

-----------------------------------------------------------------------------
(* The script                                                              *)

\* The handler awaits the reset and injects then.
RunReset ==
  /\ page # "loading" /\ scripts # <<>> /\ Head(scripts) = "reset"
  /\ latch' = FALSE
  /\ scripts' = Append(Tail(scripts), "inject")
  /\ UNCHANGED <<page, armed, notified>> /\ Unmoved

\* fill() at once; the observer and the interval are set after it in any case.
RunInject ==
  /\ page # "loading" /\ scripts # <<>> /\ Head(scripts) = "inject"
  /\ scripts' = Tail(scripts)
  /\ IF latch THEN UNCHANGED <<page, latch, armed>>
     ELSE /\ armed' = IF armed = 2 THEN 2 ELSE armed + 1
          /\ IF OnForm THEN page' = "sent" /\ latch' = TRUE ELSE UNCHANGED <<page, latch>>
  /\ UNCHANGED notified /\ Unmoved

\* fill() of an observer or an interval, which it ends; the latch is not looked at.
Tick ==
  /\ OnForm /\ armed > 0
  /\ page' = "sent" /\ latch' = TRUE /\ armed' \in {armed - 1} \cup ({2} \cap {armed})
  /\ UNCHANGED <<notified, scripts>> /\ Unmoved

\* The game server compares with game.json, which it reads anew; another password
\* would leave the form as it is.
Accepted ==
  /\ page = "sent" /\ cachedPassword = gameJson.password
  /\ page' = "console" /\ notified' = notified + 1
  /\ UNCHANGED <<latch, armed, scripts>> /\ Unmoved

Boot == \/ Start \/ ConfigFails \/ HostUp \/ HostFails \/ Ends \/ SettingsSaved \/ ShowTimer
        \/ \E queried, read, added, written \in BOOLEAN : GetPassword(queried, read, added, written)
        \/ \E readable \in BOOLEAN : ConfigWritten(readable)

Page == FinishLoad \/ FormShows \/ InPage \/ Accepted

Next == \/ Boot \/ Page \/ Navigates \/ LoadFails
        \/ \E to \in {"login", "console", "party", "other"} : Moves(to)
        \/ RunReset \/ RunInject \/ Tick

Spec == Init /\ [][Next]_vars

\* Events are delivered, scripts run, the interval ticks and the server answers.
FairSpec == Spec /\ WF_vars(Page) /\ WF_vars(RunReset \/ RunInject) /\ WF_vars(Tick)
                 /\ WF_vars(ShowTimer)

-----------------------------------------------------------------------------
(* Properties                                                              *)

\* A process uses the password of the one before it, and the game's other settings are
\* still there, unless a read failed or a write was lost on the way; and the password
\* the script types is the one in game.json (manager-password.ts:161-194,
\* index.ts:162-191, 747-751).
PasswordKept ==
  /\ known # None /\ cachedPassword # None /\ ~trouble => cachedPassword = known
  /\ ~trouble => gameJson.settings
  /\ pc \in {"starting", "opening", "up"} => gameJson.password = cachedPassword

\* A login form that shows is one that something fills, however the page, the events and
\* the scripts on their way overtake each other: an observer runs, or an event or a
\* script is due that makes one run; and the latch never stands in the way of the last
\* of them.  So is a page that has no form yet (index.ts:453-482, 816-844).
FormAttended ==
  /\ page = "blank" => ~latch /\ (armed > 0 \/ Due(scripts, "inject"))
  /\ page = "login" =>
       armed > 0 \/ notified > 0 \/ Due(scripts, "reset") \/ (~latch /\ Due(scripts, "inject"))

\* After the user's last move the host is logged in and stays so, or on another of its
\* own routes, in a window that shows, unless the page could not be loaded again
\* (index.ts:453-482, 799-858).
HostGetsIn ==
  \/ <>[](pc \in {"opening", "up"} => shown /\ page \in {"console", "party", "error"})
  \/ []<>(pc \notin {"opening", "up"})

-----------------------------------------------------------------------------
(* The inductive invariant                                                 *)

Stored == IF win32 /\ registry # None THEN registry ELSE file

TypeOK ==
  /\ win32 \in BOOLEAN /\ {registry, file, cachedPassword, known} \subseteq Passwords \cup {None}
  /\ gameJson \in [password : Passwords \cup {None}, settings : BOOLEAN]
  /\ pc \in Stages /\ page \in Pages /\ scripts \in Seq(Calls)
  /\ shown \in BOOLEAN /\ latch \in BOOLEAN /\ trouble \in BOOLEAN
  /\ armed \in 0..2 /\ notified \in Nat
  /\ moves \in 0..MaxMoves /\ used \subseteq Passwords

\* The password that the stores hold is the one in use, and the one that was.
StoresAgree ==
  /\ cachedPassword # None <=> pc \notin {"off", "password"}
  /\ known # None /\ ~trouble => Stored = known
  /\ cachedPassword # None /\ ~trouble => Stored = cachedPassword

IInv == TypeOK /\ PasswordKept /\ StoresAgree

\* Until a page is open nothing holds the script off, nor in a page that is loading.
LatchOpen == /\ pc \in {"off", "password", "writing", "starting"} => page = "none" /\ ~latch
             /\ page = "loading" => ~latch

FormInv == LatchOpen /\ FormAttended
=============================================================================
