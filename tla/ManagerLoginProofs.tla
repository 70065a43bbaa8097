-------------------------- MODULE ManagerLoginProofs --------------------------
(***************************************************************************)
(* For any passwords: a process uses the password of the one before it     *)
(* unless a store failed, and the page is never opened with another        *)
(* password than game.json's.                                              *)
(*                                                                         *)
(* The invariant is about the disk: as long as no store failed, what the   *)
(* next process would read is the password in use and the one last used.   *)
(*                                                                         *)
(* For any number of moves of the page: a login form that shows has        *)
(* something that fills it, because the latch is open wherever a document  *)
(* begins and a reset that is due is followed by a script.                 *)
(***************************************************************************)
EXTENDS ManagerLogin, SequenceTheorems, TLAPS

\* The part of the invariant that is about the disk.
Kept == PasswordKept /\ StoresAgree

LEMMA Queues ==
  /\ "reset" \in Calls /\ "inject" \in Calls
  /\ <<>> \in Seq(Calls) /\ <<"inject">> \in Seq(Calls)
  /\ \A s \in Seq(Calls), c \in Calls : Append(s, c) \in Seq(Calls)
  /\ \A s \in Seq(Calls) : s # <<>> => Tail(s) \in Seq(Calls)
<1>1. "reset" \in Calls /\ "inject" \in Calls
  BY DEF Calls
<1> QED
  BY <1>1, EmptySeq, AppendProperties, HeadTailProperties

\* TypeOK without the calls under way: what is on the disk and drawn from it, where
\* the boot and the page are, and the counters.
DiskTypes ==
  /\ win32 \in BOOLEAN /\ {registry, file, cachedPassword, known} \subseteq Passwords \cup {None}
  /\ gameJson \in [password : Passwords \cup {None}, settings : BOOLEAN]
  /\ trouble \in BOOLEAN /\ used \subseteq Passwords
PageTypes == pc \in Stages /\ page \in Pages /\ shown \in BOOLEAN /\ latch \in BOOLEAN
CountTypes == armed \in 0..2 /\ notified \in Nat /\ moves \in 0..MaxMoves
Types == DiskTypes /\ PageTypes /\ CountTypes

LEMMA Initially == Init => IInv
<1> SUFFICES ASSUME Init PROVE IInv
  OBVIOUS
<1>1. scripts \in Seq(Calls)
  BY Queues DEF Init
<1>2. Types
  <2>1. DiskTypes
    BY DEF Init, DiskTypes
  <2>2. PageTypes
    BY DEF Init, PageTypes, Stages, Pages
  <2>3. CountTypes
    BY MovesAssumption DEF Init, CountTypes
  <2> QED
    BY <2>1, <2>2, <2>3 DEF Types
<1>3. PasswordKept /\ StoresAgree
  BY DEF Init, PasswordKept, StoresAgree, Stored
<1> QED
  BY <1>1, <1>2, <1>3 DEF IInv, TypeOK, Types, DiskTypes, PageTypes, CountTypes

-----------------------------------------------------------------------------
(* Types                                                                   *)

\* Only the windows' events and the script itself touch the calls under way.
LEMMA CallsStep == scripts \in Seq(Calls) /\ [Next]_vars => scripts' \in Seq(Calls)
<1> SUFFICES ASSUME scripts \in Seq(Calls), [Next]_vars PROVE scripts' \in Seq(Calls)
  OBVIOUS
<1>1. ASSUME Load PROVE scripts' \in Seq(Calls)
  BY <1>1, Queues DEF Load
<1>2. CASE FinishLoad \/ Navigates \/ InPage
  BY <1>1, <1>2, Queues DEF FinishLoad, Navigates, InPage, Push
<1>3. CASE RunReset \/ RunInject
  <2>1. Tail(scripts) \in Seq(Calls)
    BY <1>3, Queues DEF RunReset, RunInject
  <2> QED
    BY <1>3, <2>1, Queues DEF RunReset, RunInject
<1>4. CASE HostFails \/ Ends
  BY <1>4, Queues DEF HostFails, Ends, NoWindow
<1>5. CASE UNCHANGED scripts
  BY <1>5
<1> QED
  BY <1>2, <1>3, <1>4, <1>5
     DEF Next, Boot, Page, vars, window, Start, GetPassword, ConfigWritten, ConfigFails,
         HostUp, SettingsSaved, ShowTimer, LoadFails, FormShows, Moves, Accepted, Tick

LEMMA DiskTypesStep == DiskTypes /\ [Next]_vars => DiskTypes'
<1> SUFFICES ASSUME DiskTypes, [Next]_vars PROVE DiskTypes'
  OBVIOUS
<1> USE DEF DiskTypes, disk, past
<1>1. ASSUME NEW queried \in BOOLEAN, NEW read \in BOOLEAN, NEW added \in BOOLEAN,
             NEW written \in BOOLEAN, GetPassword(queried, read, added, written)
      PROVE  DiskTypes'
  BY <1>1 DEF GetPassword, StorePassword, readPasswordFromRegistry,
              readPasswordFromFile
<1>2. ASSUME NEW readable \in BOOLEAN, ConfigWritten(readable) PROVE DiskTypes'
  BY <1>2 DEF ConfigWritten, WriteGameConfig
<1>3. CASE Ends \/ ConfigFails
  <2>1. UNCHANGED <<win32, registry, file, known, used>> /\ cachedPassword' \in {None, cachedPassword}
    BY <1>3 DEF Ends, ConfigFails
  <2>2. gameJson' \in [password : Passwords \cup {None}, settings : BOOLEAN]
    <3> DEFINE pieces == [password |-> None, settings |-> FALSE]
    <3>1. gameJson' = gameJson \/ gameJson' = pieces
      BY <1>3 DEF Ends, ConfigFails, CutShort
    <3>2. pieces \in [password : Passwords \cup {None}, settings : BOOLEAN]
      OBVIOUS
    <3> HIDE DEF pieces
    <3> QED
      BY <3>1, <3>2
  <2>3. trouble' \in BOOLEAN
    BY <1>3 DEF Ends, ConfigFails, CutShort
  <2> QED
    BY <2>1, <2>2, <2>3
<1>4. CASE SettingsSaved
  BY <1>4 DEF SettingsSaved
<1>5. CASE UNCHANGED <<disk, cachedPassword, past>>
  BY <1>5
<1> HIDE DEF DiskTypes, disk, past
<1> QED
  BY <1>1, <1>2, <1>3, <1>4, <1>5
     DEF Next, Boot, Page, vars, Start, HostUp, HostFails, ShowTimer, FinishLoad, LoadFails,
         FormShows, InPage, Accepted, Navigates, Moves, RunReset, RunInject, Tick, Unmoved

LEMMA PageTypesStep == PageTypes /\ [Next]_vars => PageTypes'
<1> SUFFICES ASSUME PageTypes, [Next]_vars PROVE PageTypes'
  OBVIOUS
<1> USE DEF PageTypes, Stages, Pages
<1>1. CASE Start \/ ConfigFails \/ HostUp \/ HostFails \/ Ends \/ ShowTimer
  BY <1>1 DEF Start, ConfigFails, HostUp, HostFails, Ends, NoWindow, ShowTimer, window
<1>2. CASE UNCHANGED <<pc, window>>
  BY <1>2 DEF window
<1>3. ASSUME NEW queried \in BOOLEAN, NEW read \in BOOLEAN, NEW added \in BOOLEAN,
             NEW written \in BOOLEAN, GetPassword(queried, read, added, written)
      PROVE  PageTypes'
  BY <1>3 DEF GetPassword, window
<1>4. CASE \E readable \in BOOLEAN : ConfigWritten(readable)
  BY <1>4 DEF ConfigWritten, window
<1>5. CASE FinishLoad \/ LoadFails \/ FormShows \/ Accepted
  BY <1>5 DEF FinishLoad, LoadFails, FormShows, Accepted, Unmoved
<1>6. CASE \E to \in {"login", "console", "party", "other"} : Moves(to)
  BY <1>6 DEF Moves
<1>7. CASE Navigates
  BY <1>7 DEF Navigates, Load
<1>8. CASE InPage
  BY <1>8 DEF InPage, Load
<1>9. CASE RunReset \/ Tick
  BY <1>9 DEF RunReset, Tick, Unmoved
<1>10. CASE RunInject
  BY <1>10 DEF RunInject, Unmoved
<1> QED
  BY <1>1, <1>2, <1>3, <1>4, <1>5, <1>6, <1>7, <1>8, <1>9, <1>10
     DEF Next, Boot, Page, vars, SettingsSaved

LEMMA CountTypesStep == CountTypes /\ [Next]_vars => CountTypes'
<1> SUFFICES ASSUME CountTypes, [Next]_vars PROVE CountTypes'
  OBVIOUS
<1> USE DEF CountTypes
<1>1. CASE UNCHANGED <<armed, notified, moves>>
  BY <1>1
<1>2. CASE HostFails \/ Ends
  BY <1>2 DEF HostFails, Ends, NoWindow
<1>3. CASE FormShows \/ Accepted
  BY <1>3 DEF FormShows, Accepted, Unmoved
<1>4. ASSUME NEW to \in {"login", "console", "party", "other"}, Moves(to) PROVE CountTypes'
  BY <1>4, MovesAssumption DEF Moves
<1>5. CASE Navigates
  BY <1>5, MovesAssumption DEF Navigates, Load
<1>6. CASE InPage
  BY <1>6 DEF InPage, Load
<1>7. CASE RunInject
  BY <1>7 DEF RunInject, Unmoved
<1>8. CASE Tick
  BY <1>8 DEF Tick, Unmoved
<1> HIDE DEF CountTypes
<1> QED
  BY <1>1, <1>2, <1>3, <1>4, <1>5, <1>6, <1>7, <1>8
     DEF Next, Boot, Page, vars, window, Start, GetPassword, ConfigWritten, ConfigFails,
         HostUp, SettingsSaved, ShowTimer, FinishLoad, LoadFails, RunReset, Unmoved

-----------------------------------------------------------------------------
(* The password                                                            *)

\* What is read without a failure is what is stored.
LEMMA Reads ==
  ASSUME NEW queried \in BOOLEAN, NEW read \in BOOLEAN, NEW added \in BOOLEAN,
         NEW written \in BOOLEAN, Kept, GetPassword(queried, read, added, written)
  PROVE  Kept'
<1> DEFINE reg == readPasswordFromRegistry(queried)
           txt == readPasswordFromFile(read)
<1> USE DEF readPasswordFromRegistry, readPasswordFromFile
<1>0. /\ pc = "password" /\ pc' = "writing" /\ cachedPassword = None
      /\ UNCHANGED <<win32, gameJson, known>>
  BY DEF GetPassword, Kept, StoresAgree
<1>1. CASE <<reg, txt>> # <<None, None>>
  <2>1. /\ cachedPassword' = IF reg # None THEN reg ELSE txt
        /\ trouble' = (trouble \/ (win32 /\ ~queried))
        /\ UNCHANGED <<registry, file>>
    BY <1>1 DEF GetPassword
  <2>2. reg # None \/ txt # None
    BY <1>1
  <2>3. /\ cachedPassword' # None
        /\ ~trouble' => ~trouble /\ cachedPassword' = Stored /\ Stored' = Stored
    BY <1>0, <2>1, <2>2 DEF Stored
  <2> QED
    BY <1>0, <2>3 DEF Kept, PasswordKept, StoresAgree
<1>2. CASE <<reg, txt>> = <<None, None>>
  <2>1. PICK p \in Passwords \ used :
          /\ cachedPassword' = p
          /\ StorePassword(p, added, written)
          /\ trouble' = (trouble \/ ~read \/ (win32 /\ ~queried) \/ ~(written \/ (win32 /\ added)))
    BY <1>2 DEF GetPassword
  <2>2. p # None /\ reg = None /\ txt = None
    BY <1>2, NoneAssumption
  <2>3. ~trouble' => ~trouble /\ Stored = None /\ Stored' = p
    BY <1>0, <2>1, <2>2 DEF Stored, StorePassword
  <2> QED
    BY <1>0, <2>1, <2>2, <2>3 DEF Kept, PasswordKept, StoresAgree
<1> QED
  BY <1>1, <1>2

\* Nothing else the login depends on is on the disk.
LEMMA Untouched ==
  ASSUME Kept, UNCHANGED <<disk, cachedPassword, past>>, pc' = pc
  PROVE  Kept'
BY DEF Kept, PasswordKept, StoresAgree, Stored, disk, past

LEMMA KeptStep == Kept /\ [Next]_vars => Kept'
<1> SUFFICES ASSUME Kept, [Next]_vars PROVE Kept'
  OBVIOUS
<1> USE DEF Kept, PasswordKept, StoresAgree, Stored, disk, past
<1>1. CASE Start
  BY <1>1 DEF Start
<1>2. ASSUME NEW readable \in BOOLEAN, ConfigWritten(readable) PROVE Kept'
  BY <1>2 DEF ConfigWritten, WriteGameConfig
<1>3. CASE ConfigFails
  BY <1>3 DEF ConfigFails, CutShort
<1>4. CASE HostUp \/ HostFails
  BY <1>4 DEF HostUp, HostFails
<1>5. CASE Ends
  BY <1>5 DEF Ends, CutShort
<1>6. CASE SettingsSaved
  BY <1>6 DEF SettingsSaved
<1>7. CASE FinishLoad
  BY <1>7 DEF FinishLoad
<1> HIDE DEF Kept
<1>8. CASE ShowTimer \/ Navigates \/ \E to \in {"login", "console", "party", "other"} : Moves(to)
  BY <1>8, Untouched DEF ShowTimer, Navigates, Moves
<1>9. CASE LoadFails \/ FormShows \/ InPage \/ Accepted \/ RunReset \/ RunInject \/ Tick
  BY <1>9, Untouched DEF LoadFails, FormShows, InPage, Accepted, RunReset, RunInject, Tick, Unmoved
<1>10. CASE UNCHANGED vars
  BY <1>10, Untouched DEF vars
<1> QED
  BY <1>1, <1>2, <1>3, <1>4, <1>5, <1>6, <1>7, <1>8, <1>9, <1>10, Reads DEF Next, Boot, Page

LEMMA Inductive == Spec => []IInv
<1>1. IInv /\ [Next]_vars => IInv'
  BY CallsStep, DiskTypesStep, PageTypesStep, CountTypesStep, KeptStep
     DEF IInv, Kept, TypeOK, Types, DiskTypes, PageTypes, CountTypes
<1> QED
  BY <1>1, Initially, PTL DEF Spec

\* Every variable keeps its type.
THEOREM Typed == Spec => []TypeOK
<1>1. IInv => TypeOK
  BY DEF IInv
<1> QED
  BY <1>1, Inductive, PTL

\* Without a failed store the password outlives the process, and the page that is
\* opened can log in (manager-password.ts:161-194, index.ts:162-191).
THEOREM PasswordSurvives == Spec => []PasswordKept
<1>1. IInv => PasswordKept
  BY DEF IInv
<1> QED
  BY <1>1, Inductive, PTL

-----------------------------------------------------------------------------
(* The form                                                                *)

LEMMA DueAppended ==
  ASSUME NEW s \in Seq(Calls), NEW c \in Calls, NEW d
  PROVE  Due(Append(s, c), d) <=> d = c \/ Due(s, d)
BY AppendProperties DEF Due

LEMMA DueTaken ==
  ASSUME NEW s \in Seq(Calls), s # <<>>, NEW d, Due(s, d), Head(s) # d
  PROVE  Due(Tail(s), d)
<1>1. PICK k \in 1..Len(s) : s[k] = d
  BY DEF Due
<1>2. k # 1
  BY <1>1
<1>3. k - 1 \in DOMAIN Tail(s) /\ Tail(s)[k - 1] = s[k]
  BY <1>1, <1>2
<1> QED
  BY <1>1, <1>2, <1>3 DEF Due

LEMMA FormInit == Init => FormInv
BY DEF Init, FormInv, LatchOpen, FormAttended

LEMMA LatchStep == LatchOpen /\ [Next]_vars => LatchOpen'
<1> SUFFICES ASSUME LatchOpen, [Next]_vars PROVE LatchOpen'
  OBVIOUS
<1> USE DEF LatchOpen
<1>1. CASE Start \/ ConfigFails \/ HostUp \/ HostFails \/ Ends \/ SettingsSaved \/ ShowTimer
  BY <1>1 DEF Start, ConfigFails, HostUp, HostFails, Ends, NoWindow, SettingsSaved, ShowTimer, window
<1>2. ASSUME NEW queried \in BOOLEAN, NEW read \in BOOLEAN, NEW added \in BOOLEAN,
             NEW written \in BOOLEAN, GetPassword(queried, read, added, written)
      PROVE  LatchOpen'
  BY <1>2 DEF GetPassword, window
<1>3. CASE \E readable \in BOOLEAN : ConfigWritten(readable)
  BY <1>3 DEF ConfigWritten, window
<1>4. CASE FinishLoad \/ LoadFails \/ FormShows \/ Accepted
  BY <1>4 DEF FinishLoad, LoadFails, FormShows, Accepted, Unmoved
<1>5. CASE InPage \/ Navigates \/ \E to \in {"login", "console", "party", "other"} : Moves(to)
  BY <1>5 DEF InPage, Navigates, Load, Moves
<1>6. CASE RunReset \/ RunInject \/ Tick
  BY <1>6 DEF RunReset, RunInject, Tick, OnForm, Unmoved
<1>7. CASE UNCHANGED vars
  BY <1>7 DEF vars, window
<1> QED
  BY <1>1, <1>2, <1>3, <1>4, <1>5, <1>6, <1>7 DEF Next, Boot, Page

\* A step that leaves a page without its script would have to take the last script, the
\* last event or the last observer, and none does without another in its place.
LEMMA FormStep ==
  TypeOK /\ FormInv /\ [Next]_vars => FormAttended'
<1> SUFFICES ASSUME TypeOK, FormInv, [Next]_vars, page' \in {"blank", "login"}
             PROVE  FormAttended'
  BY DEF FormAttended
<1>1. /\ scripts \in Seq(Calls) /\ "reset" \in Calls /\ "inject" \in Calls
      /\ notified \in Nat /\ armed \in 0..2
  BY Queues DEF TypeOK
<1> USE <1>1 DEF FormInv, FormAttended
<1>2. CASE UNCHANGED <<page, latch, armed, notified, scripts>>
  BY <1>2
<1>3. CASE FinishLoad
  <2>1. Due(scripts', "inject")
    BY <1>3, DueAppended DEF FinishLoad, Push
  <2> QED
    BY <1>3, <2>1 DEF FinishLoad, LatchOpen
<1>4. CASE FormShows
  BY <1>4 DEF FormShows
<1>5. ASSUME NEW to \in {"login", "console", "party", "other"}, Moves(to) PROVE FormAttended'
  BY <1>5 DEF Moves
<1>6. CASE InPage
  <2>1. page' = page /\ scripts' = Append(scripts, "reset") /\ UNCHANGED <<latch, armed>>
    BY <1>6 DEF InPage, Load, Push
  <2>2. Due(scripts', "reset") /\ (Due(scripts, "inject") => Due(scripts', "inject"))
    BY <2>1, DueAppended
  <2> QED
    BY <2>1, <2>2
<1>7. CASE RunReset
  <2>1. Tail(scripts) \in Seq(Calls)
    BY <1>7, Queues DEF RunReset
  <2>2. Due(scripts', "inject") /\ ~latch'
    BY <1>7, <2>1, DueAppended DEF RunReset
  <2> QED
    BY <1>7, <2>2 DEF RunReset
<1>8. CASE RunInject
  <2>1. /\ scripts # <<>> /\ Head(scripts) = "inject" /\ scripts' = Tail(scripts)
        /\ UNCHANGED notified
    BY <1>8 DEF RunInject
  <2>2. Due(scripts, "reset") => Due(scripts', "reset")
    BY <2>1, DueTaken
  <2>3. CASE latch
    BY <1>8, <2>1, <2>2, <2>3 DEF RunInject
  <2>4. CASE ~latch
    <3>1. page' = page /\ armed' > 0 /\ UNCHANGED latch
      BY <1>8, <2>4 DEF RunInject
    <3> QED
      BY <2>4, <3>1
  <2> QED
    BY <2>3, <2>4
<1>9. CASE HostUp \/ HostFails \/ ConfigFails \/ Ends \/ Navigates \/ LoadFails \/ Tick \/ Accepted
  BY <1>9 DEF HostUp, HostFails, ConfigFails, Ends, NoWindow, Navigates, Load, LoadFails, Tick, Accepted
<1> QED
  BY <1>2, <1>3, <1>4, <1>5, <1>6, <1>7, <1>8, <1>9
     DEF Next, Boot, Page, vars, window, Start, GetPassword, ConfigWritten, SettingsSaved, ShowTimer

\* However often the page moves, and whatever is under way between the processes then:
\* no login form is left that nothing will fill (index.ts:453-482, 816-844).
THEOREM FormsAttended == Spec => []FormAttended
<1>1. FormInv => FormAttended
  BY DEF FormInv
<1>2. IInv /\ FormInv /\ [Next]_vars => FormInv'
  BY LatchStep, FormStep DEF FormInv, IInv
<1> QED
  BY <1>1, <1>2, FormInit, Inductive, PTL DEF Spec
=============================================================================
