---------------------------- MODULE GatewaySession ----------------------------
(***************************************************************************)
(* One host and the gateway: registration, the heartbeat that keeps the    *)
(* session and its candidates up to date, the unregistration, and the      *)
(* token files, over a network that loses requests and answers.            *)
(* src/main/gateway-client.ts, token-store.ts, and startGatewaySession,    *)
(* heartbeatTick and stopGatewaySession of src/main/index.ts.  The host    *)
(* has one registration under way at a time (DesktopMain says when it      *)
(* does), but a heartbeat and the DELETEs of earlier sessions may be under *)
(* way with it, and the process may crash anywhere.                        *)
(*                                                                         *)
(* Time is counted in heartbeat intervals; a call ends within one: 4 s for *)
(* the address echo and 10 s for a request, of 30 s.  The gateway handles  *)
(* a request before the host gives up on it, or never.                     *)
(*                                                                         *)
(* A definition named X_Bug... is X with a plausible mistake in it, used   *)
(* only to show that a property is about X.                                *)
(***************************************************************************)
EXTENDS Integers

CONSTANTS Sessions,   \* session ids of the gateway, each given out once
          Addresses,  \* (kind, url) pairs that the host may find of itself
          None,       \* no session
          TTL         \* intervals that the gateway keeps a silent session

ASSUME TTLAssumption == TTL \in Nat \ {0}
ASSUME NoneAssumption == None \notin Sessions

VARIABLES
  \* the host
  pc,          \* where its POST is
  sess,        \* the session it is about
  deleting,    \* the sessions with a DELETE on its way
  deleted,     \* those whose DELETE is done and not answered yet
  timer,       \* the session whose heartbeat interval is armed
  candidates,  \* session.candidates: the set the host takes for advertised
  tick,        \* where the heartbeat under way is
  beat,        \* its session and the set it replaces with, if any
  tokens,      \* the sessions with a token file
  nics,        \* buildHostCandidates
  \* the gateway
  registered,  \* the sessions it holds
  stored,      \* their candidates
  silence,     \* intervals since their last heartbeat
  \* history
  missed,      \* heartbeats in a row without a good answer
  doubt,       \* an applied replacement was not confirmed
  held         \* the sessions the host ever held

deletes == <<deleting, deleted>>
hostVars == <<pc, sess, deletes, timer, candidates, tick, beat, tokens>>
gatewayVars == <<registered, stored, silence>>
history == <<missed, doubt, held>>
vars == <<hostVars, nics, gatewayVars, history>>

\* posted: POST on its way; created: its answer is.
PC == {"out", "posted", "created", "in"}
TickState == {"idle", "sent", "applied", "gone"}
NoBeat == [of |-> None, with |-> {}]

Init ==
  /\ pc = "out" /\ sess = None /\ timer = None /\ candidates = {}
  /\ deleting = {} /\ deleted = {}
  /\ tick = "idle" /\ beat = NoBeat
  /\ tokens = {}
  /\ nics \in SUBSET Addresses
  /\ registered = {}
  /\ stored = [s \in Sessions |-> {}]
  /\ silence = [s \in Sessions |-> 0]
  /\ missed = 0 /\ doubt = FALSE /\ held = {}

-----------------------------------------------------------------------------
(* Registration                                                            *)

Out == pc' = "out" /\ sess' = None

\* startGatewaySession: without a candidate there is nothing to register.  The DELETE of
\* a session before may still be under way.
Register ==
  /\ pc = "out"
  /\ nics # {}
  /\ pc' = "posted"
  /\ candidates' = nics
  /\ UNCHANGED <<sess, deletes, timer, tick, beat, tokens, nics, gatewayVars, history>>

\* The gateway's part of POST /sessions.
GatewayCreates(s) ==
  /\ pc = "posted"
  /\ s \notin registered \cup tokens \cup held
  /\ pc' = "created" /\ sess' = s
  /\ registered' = registered \cup {s}
  /\ stored' = [stored EXCEPT ![s] = candidates]
  /\ silence' = [silence EXCEPT ![s] = 0]
  /\ UNCHANGED <<deletes, timer, candidates, tick, beat, tokens, nics, history>>

\* ElectronTokenStore: one file per session.  clear never throws; that save does
\* is one of the ways in which RegisterFails.
Save(s) == tokens' = tokens \cup {s}
Clear(s) == tokens' = tokens \ {s}

\* 201: the token is saved, then the session has its heartbeat.
Registered ==
  /\ pc = "created"
  /\ pc' = "in"
  /\ timer' = sess
  /\ Save(sess)
  /\ missed' = 0 /\ doubt' = FALSE
  /\ held' = held \cup {sess}
  /\ UNCHANGED <<sess, deletes, candidates, tick, beat, nics, gatewayVars>>

\* Refused, lost, timed out, or the token could not be saved: the gateway may
\* hold a session that the host does not know of.
RegisterFails ==
  /\ pc \in {"posted", "created"}
  /\ Out
  /\ UNCHANGED <<deletes, timer, candidates, tick, beat, tokens, nics, gatewayVars, history>>

-----------------------------------------------------------------------------
(* Time and the heartbeat                                                  *)

\* The interval goes by at the gateway; who was silent for TTL is dropped.
IntervalPasses ==
  LET late == {s \in registered : silence[s] + 1 >= TTL} IN
  /\ registered' = registered \ late
  /\ stored' = [s \in Sessions |-> IF s \in late THEN {} ELSE stored[s]]
  /\ silence' = [s \in Sessions |-> IF s \in registered \ late THEN silence[s] + 1 ELSE 0]

\* No heartbeat is due: there is no session, or the host sleeps through it.
Silence ==
  /\ tick = "idle" /\ pc # "created"
  /\ IntervalPasses
  /\ missed' = IF pc = "in" /\ missed < TTL THEN missed + 1 ELSE missed
  /\ UNCHANGED <<hostVars, nics, doubt, held>>

SameCandidateUrls(a, b) == a = b

HeartbeatTick_BugOnlyChanges ==
  /\ timer # None /\ tick = "idle"
  /\ IntervalPasses
  /\ IF nics # {} /\ ~SameCandidateUrls(candidates, nics)
     THEN tick' = "sent" /\ beat' = [of |-> timer, with |-> nics]
     ELSE UNCHANGED <<tick, beat>>
  /\ UNCHANGED <<pc, sess, deletes, timer, candidates, tokens, nics, history>>

HeartbeatTick_BugNeverReplaces ==
  /\ timer # None /\ tick = "idle"
  /\ IntervalPasses
  /\ tick' = "sent"
  /\ beat' = [of |-> timer, with |-> {}]
  /\ UNCHANGED <<pc, sess, deletes, timer, candidates, tokens, nics, history>>

\* heartbeatTick: replace the candidates if they changed and there are any.
HeartbeatTick ==
  /\ timer # None /\ tick = "idle"
  /\ IntervalPasses
  /\ LET changed == nics # {} /\ ~SameCandidateUrls(candidates, nics) IN
     beat' = [of |-> timer, with |-> IF changed THEN nics ELSE {}]
  /\ tick' = "sent"
  /\ UNCHANGED <<pc, sess, deletes, timer, candidates, tokens, nics, history>>

\* The gateway's part of PATCH /sessions/:id.
GatewayPatches ==
  /\ tick = "sent"
  /\ \/ /\ beat.of \in registered
        /\ tick' = "applied"
        /\ silence' = [silence EXCEPT ![beat.of] = 0]
        /\ stored' = IF beat.with = {} THEN stored
                     ELSE [stored EXCEPT ![beat.of] = beat.with]
     \/ /\ beat.of \notin registered
        /\ tick' = "gone"
        /\ UNCHANGED <<stored, silence>>
  /\ UNCHANGED <<pc, sess, deletes, timer, candidates, beat, tokens, nics, registered, history>>

\* 200: from now on the host compares with the set that it sent.  The heartbeat
\* may be one of a session that was stopped meanwhile.
HeartbeatAnswered ==
  /\ tick = "applied"
  /\ tick' = "idle" /\ beat' = NoBeat
  /\ IF beat.of = timer
     THEN /\ candidates' = IF beat.with = {} THEN candidates ELSE beat.with
          /\ missed' = 0
          /\ doubt' = IF beat.with = {} THEN doubt ELSE FALSE
     ELSE UNCHANGED <<candidates, missed, doubt>>
  /\ UNCHANGED <<pc, sess, deletes, timer, tokens, nics, gatewayVars, held>>

HeartbeatFails_BugTrustsSent ==
  /\ tick # "idle"
  /\ tick' = "idle" /\ beat' = NoBeat
  /\ candidates' = IF beat.with = {} \/ beat.of # timer THEN candidates ELSE beat.with
  /\ missed' = IF beat.of = timer /\ missed < TTL THEN missed + 1 ELSE missed
  /\ doubt' = IF beat.of = timer /\ tick = "applied" THEN doubt \/ beat.with # {} ELSE doubt
  /\ UNCHANGED <<pc, sess, deletes, timer, tokens, nics, gatewayVars, held>>

\* Any other answer, or none: it is logged, and the next interval tries again.
HeartbeatFails ==
  /\ tick # "idle"
  /\ tick' = "idle" /\ beat' = NoBeat
  /\ IF beat.of = timer
     THEN /\ missed' = IF missed < TTL THEN missed + 1 ELSE missed
          /\ doubt' = (doubt \/ (tick = "applied" /\ beat.with # {}))
     ELSE UNCHANGED <<missed, doubt>>
  /\ UNCHANGED <<pc, sess, deletes, timer, candidates, tokens, nics, gatewayVars, held>>

-----------------------------------------------------------------------------
(* Unregistration, crashes, addresses                                      *)

StopGatewaySession_BugTimerLeft ==
  /\ pc = "in"
  /\ Out
  /\ deleting' = deleting \cup {sess}
  /\ UNCHANGED <<deleted, timer, candidates, tick, beat, tokens, nics, gatewayVars, history>>

\* stopGatewaySession: the session is let go of and its interval cleared before the
\* DELETE is sent.
StopGatewaySession ==
  /\ pc = "in"
  /\ Out
  /\ timer' = None
  /\ deleting' = deleting \cup {sess}
  /\ UNCHANGED <<deleted, candidates, tick, beat, tokens, nics, gatewayVars, history>>

\* The gateway's part of DELETE /sessions/:id: 204 also when it is gone.
GatewayDeletes(s) ==
  /\ s \in deleting
  /\ deleting' = deleting \ {s} /\ deleted' = deleted \cup {s}
  /\ registered' = registered \ {s}
  /\ stored' = [stored EXCEPT ![s] = {}]
  /\ silence' = [silence EXCEPT ![s] = 0]
  /\ UNCHANGED <<pc, sess, timer, candidates, tick, beat, tokens, nics, history>>

\* 204: the token is cleared.
Unregistered(s) ==
  /\ s \in deleted
  /\ deleted' = deleted \ {s}
  /\ Clear(s)
  /\ UNCHANGED <<pc, sess, deleting, timer, candidates, tick, beat, nics, gatewayVars, history>>

UnregisterFails_BugClearsToken(s) ==
  /\ s \in deleting \cup deleted
  /\ deleting' = deleting \ {s} /\ deleted' = deleted \ {s}
  /\ Clear(s)
  /\ UNCHANGED <<pc, sess, timer, candidates, tick, beat, nics, gatewayVars, history>>

\* Anything else is logged; the token file stays.
UnregisterFails(s) ==
  /\ s \in deleting \cup deleted
  /\ deleting' = deleting \ {s} /\ deleted' = deleted \ {s}
  /\ UNCHANGED <<pc, sess, timer, candidates, tick, beat, tokens, nics, gatewayVars, history>>

\* The process dies, or is quit from the tray; the files are what is left.
Crash ==
  /\ Out
  /\ deleting' = {} /\ deleted' = {}
  /\ timer' = None /\ candidates' = {}
  /\ tick' = "idle" /\ beat' = NoBeat
  /\ UNCHANGED <<tokens, nics, gatewayVars, history>>

\* Another network, an echo that does not answer, a cable pulled.
AddressesChange ==
  /\ nics' \in SUBSET Addresses
  /\ UNCHANGED <<hostVars, gatewayVars, history>>

Heartbeat == HeartbeatTick \/ GatewayPatches \/ HeartbeatAnswered \/ HeartbeatFails

Next == \/ Register \/ (\E s \in Sessions : GatewayCreates(s))
        \/ Registered \/ RegisterFails
        \/ Silence \/ Heartbeat
        \/ StopGatewaySession
        \/ \E s \in Sessions : GatewayDeletes(s) \/ Unregistered(s) \/ UnregisterFails(s)
        \/ Crash \/ AddressesChange

\* Time passes, and a call comes to an end.
Fairness == /\ WF_vars(HeartbeatTick \/ Silence)
            /\ WF_vars(HeartbeatAnswered \/ HeartbeatFails)
            /\ WF_vars(Registered \/ RegisterFails)
            /\ WF_vars(\E s \in Sessions : Unregistered(s) \/ UnregisterFails(s))

Spec == Init /\ [][Next]_vars
FairSpec == Spec /\ Fairness

-----------------------------------------------------------------------------
(* Properties                                                              *)

TypeOK ==
  /\ pc \in PC /\ tick \in TickState
  /\ deleting \in SUBSET Sessions /\ deleted \in SUBSET Sessions
  /\ sess \in Sessions \cup {None} /\ timer \in Sessions \cup {None}
  /\ candidates \in SUBSET Addresses
  /\ beat \in [of : Sessions \cup {None}, with : SUBSET Addresses]
  /\ tokens \in SUBSET Sessions
  /\ nics \in SUBSET Addresses
  /\ registered \in SUBSET Sessions
  /\ stored \in [Sessions -> SUBSET Addresses]
  /\ silence \in [Sessions -> 0..TTL - 1]
  /\ missed \in 0..TTL /\ doubt \in BOOLEAN
  /\ held \in SUBSET Sessions

\* A session outlives every run of failed or slept-through heartbeats that is
\* shorter than the TTL (index.ts:270-292; protocol.ts: every 30 s against 30 min).
SurvivesMisses ==
  pc = "in" /\ missed + (IF tick = "idle" THEN 0 ELSE 1) < TTL => sess \in registered

\* The host knows what the gateway shows to players, unless an answer to a
\* replacement was lost (index.ts:274-282).
CandidatesKnown ==
  pc = "in" /\ ~doubt /\ tick # "applied" /\ sess \in registered
    => stored[sess] = candidates

\* As long as the gateway may hold a session that was the host's, the token that
\* ends it is on disk, through failed stops and crashes (gateway-client.ts:137-138,
\* 180-185).
TokenOutlivesSession == held \cap registered \subseteq tokens

\* The gateway holds it, and the host is neither in it nor about to be.
LetGo(s) == s \in registered /\ ~(pc \in {"created", "in"} /\ sess = s)

\* Of a session that was let go of, by a stop, a crash, or a registration whose answer
\* was lost, only a heartbeat already under way can renew the silence.  From then on no
\* call does, of the host's later sessions neither, and the host does not come back to
\* it: the silence only grows until it is gone (index.ts:270-318).
LetGoFades ==
  [][\A s \in Sessions :
       LetGo(s) /\ beat.of # s =>
         \/ s \notin registered'
         \/ /\ LetGo(s)' /\ beat'.of # s
            /\ silence'[s] >= silence[s]
            /\ HeartbeatTick \/ Silence => silence'[s] > silence[s]]_vars

Acknowledged == []<><<HeartbeatAnswered>>_vars

SettledOn(A) == <>[](pc = "in" /\ nics = A)
Advertised(A) == <>[](sess \in registered /\ stored[sess] = A)

\* A host whose addresses settle is in the end found at just these, if heartbeats
\* keep being answered and no answer to a replacement is lost (index.ts:270-282).
AddressesArrive ==
  [](~doubt) /\ Acknowledged =>
    \A A \in SUBSET Addresses \ {{}} : SettledOn(A) => Advertised(A)
=============================================================================
