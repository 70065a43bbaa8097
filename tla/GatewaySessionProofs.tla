------------------------- MODULE GatewaySessionProofs -------------------------
(***************************************************************************)
(* For any sessions, addresses and TTL: a session outlives missed          *)
(* heartbeats up to its TTL, the host knows what the gateway shows unless  *)
(* an answer was lost, and the token outlives the session.                 *)
(*                                                                         *)
(* None is inductive.  A heartbeat may be under way for a session that was *)
(* stopped, so each part says of the heartbeat whose it is, and Ownership  *)
(* that a new session's id is none that a heartbeat can still be about.    *)
(* It is also why a session that was let go of stays so (LetGoFades).      *)
(***************************************************************************)
EXTENDS GatewaySession, TLAPS

\* The timer is the current session's; a heartbeat under way is about a session
\* the host has held, which a session just created is not.
Ownership ==
  /\ timer = IF pc = "in" THEN sess ELSE None
  /\ pc \in {"created", "in"} => sess \in Sessions
  /\ pc = "created" => sess \notin held
  /\ pc = "in" => sess \in held \ (deleting \cup deleted)
  /\ deleting \cup deleted \subseteq held
  /\ tick # "idle" => beat.of \in held

Beating == tick # "idle" /\ beat.of = sess
Replaced == tick = "applied" /\ beat.of = sess /\ beat.with # {}

\* The gateway counts no more intervals than the host counts failures, one more
\* while a heartbeat is under way.
Counts ==
  /\ pc = "created" => sess \in registered /\ silence[sess] = 0
  /\ pc = "in" =>
       LET late == missed + (IF Beating THEN 1 ELSE 0) IN
       late < TTL => sess \in registered /\ silence[sess] <= late
  /\ pc = "in" /\ Beating /\ tick = "applied" => sess \in registered /\ silence[sess] = 0

\* What the gateway shows: the replacement that was applied, or what the host
\* takes for advertised.
Shows ==
  /\ pc = "created" => stored[sess] = candidates
  /\ pc = "in" /\ Replaced => stored[sess] = beat.with
  /\ pc = "in" /\ ~Replaced /\ ~doubt /\ sess \in registered => stored[sess] = candidates

Tokens == /\ TokenOutlivesSession
          /\ deleted \cap registered = {}

IInv == TypeOK /\ Ownership /\ Counts /\ Shows /\ Tokens

LEMMA NoBeatType ==
  /\ NoBeat \in [of : Sessions \cup {None}, with : SUBSET Addresses]
  /\ NoBeat.of = None /\ NoBeat.with = {}
BY DEF NoBeat

LEMMA Bounds == 0 \in 0..TTL - 1 /\ 0 \in 0..TTL
BY TTLAssumption

LEMMA Initially == Init => IInv
<1> SUFFICES ASSUME Init PROVE IInv
  OBVIOUS
<1>1. TypeOK
  BY Bounds, NoBeatType DEF Init, TypeOK, PC, TickState
<1>2. Ownership /\ Counts /\ Shows /\ Tokens
  BY DEF Init, Ownership, Counts, Shows, Tokens, TokenOutlivesSession
<1> QED
  BY <1>1, <1>2 DEF IInv

\* Time at the gateway: who is kept was silent for less than the TTL.
LEMMA Interval ==
  ASSUME TypeOK, IntervalPasses
  PROVE  /\ registered' \subseteq registered
         /\ silence' \in [Sessions -> 0..TTL - 1]
         /\ stored' \in [Sessions -> SUBSET Addresses]
         /\ \A s \in registered' : silence'[s] = silence[s] + 1 /\ stored'[s] = stored[s]
         /\ \A s \in registered \ registered' : silence[s] + 1 >= TTL
BY TTLAssumption DEF TypeOK, IntervalPasses

LEMMA Step == IInv /\ [Next]_vars => IInv'
<1> SUFFICES ASSUME IInv, [Next]_vars PROVE IInv'
  OBVIOUS
<1> USE TTLAssumption, NoneAssumption DEF IInv, Out, deletes, hostVars, gatewayVars, history
<1>1. CASE Register
  <2>1. TypeOK'
    BY <1>1 DEF Register, TypeOK, PC
  <2>2. Ownership' /\ Counts' /\ Shows' /\ Tokens'
    BY <1>1 DEF Register, Ownership, Counts, Shows, Tokens, TokenOutlivesSession,
       Beating, Replaced
  <2> QED
    BY <2>1, <2>2
<1>2. ASSUME NEW s \in Sessions, GatewayCreates(s) PROVE IInv'
  <2>1. TypeOK'
    BY <1>2 DEF GatewayCreates, TypeOK, PC
  <2>2. Ownership' /\ Tokens'
    BY <1>2 DEF GatewayCreates, TypeOK, Ownership, Tokens, TokenOutlivesSession
  <2>3. Counts' /\ Shows'
    BY <1>2 DEF GatewayCreates, TypeOK, Counts, Shows
  <2> QED
    BY <2>1, <2>2, <2>3
<1>3. CASE Registered
  <2>1. TypeOK'
    BY <1>3, Bounds DEF Registered, Save, TypeOK, PC, Ownership
  <2>2. Ownership' /\ Tokens'
    BY <1>3 DEF Registered, Save, TypeOK, Ownership, Tokens, TokenOutlivesSession
  <2>3. ~Beating' /\ ~Replaced'
    BY <1>3 DEF Registered, Ownership, Beating, Replaced
  <2>4. Counts' /\ Shows'
    BY <1>3, <2>3 DEF Registered, Counts, Shows
  <2> QED
    BY <2>1, <2>2, <2>4
<1>4. CASE RegisterFails
  <2>1. TypeOK'
    BY <1>4 DEF RegisterFails, TypeOK, PC
  <2>2. Ownership' /\ Counts' /\ Shows' /\ Tokens'
    BY <1>4 DEF RegisterFails, Ownership, Counts, Shows, Tokens, TokenOutlivesSession
  <2> QED
    BY <2>1, <2>2
<1>5. CASE Silence
  <2>1. TypeOK'
    BY <1>5, Interval DEF Silence, TypeOK
  <2>2. Ownership' /\ Tokens'
    BY <1>5, Interval DEF Silence, Ownership, Tokens, TokenOutlivesSession
  <2>3. Counts'
    BY <1>5, Interval DEF Silence, TypeOK, Ownership, Counts, Beating
  <2>4. Shows'
    BY <1>5, Interval DEF Silence, Shows, Replaced
  <2> QED
    BY <2>1, <2>2, <2>3, <2>4
<1>6. CASE HeartbeatTick
  <2>1. /\ pc = "in" /\ timer = sess /\ sess \in held /\ tick = "idle" /\ tick' = "sent"
        /\ beat' \in [of : {sess}, with : SUBSET Addresses]
    BY <1>6 DEF HeartbeatTick, Ownership, TypeOK
  <2>2. TypeOK'
    BY <1>6, <2>1, Interval DEF HeartbeatTick, TypeOK, TickState
  <2>3. Ownership' /\ Tokens'
    BY <1>6, <2>1, Interval DEF HeartbeatTick, Ownership, Tokens, TokenOutlivesSession
  <2>4. Counts'
    BY <1>6, <2>1, Interval DEF HeartbeatTick, TypeOK, Counts, Beating
  <2>5. Shows'
    BY <1>6, <2>1, Interval DEF HeartbeatTick, Shows, Replaced
  <2> QED
    BY <2>2, <2>3, <2>4, <2>5
<1>7. CASE GatewayPatches
  <2>1. TypeOK'
    BY <1>7 DEF GatewayPatches, TypeOK, TickState
  <2>2. Ownership' /\ Tokens'
    BY <1>7 DEF GatewayPatches, Ownership, Tokens, TokenOutlivesSession
  <2>3. Counts'
    BY <1>7 DEF GatewayPatches, TypeOK, Ownership, Counts, Beating
  <2>4. Shows'
    BY <1>7 DEF GatewayPatches, TypeOK, Ownership, Shows, Replaced
  <2> QED
    BY <2>1, <2>2, <2>3, <2>4
<1>8. CASE HeartbeatAnswered
  <2>1. TypeOK'
    BY <1>8, Bounds, NoBeatType DEF HeartbeatAnswered, TypeOK, TickState
  <2>2. Ownership' /\ Tokens'
    BY <1>8 DEF HeartbeatAnswered, Ownership, Tokens, TokenOutlivesSession
  <2>3. ~Beating' /\ ~Replaced'
    BY <1>8 DEF HeartbeatAnswered, Beating, Replaced
  <2>4. UNCHANGED <<pc, sess, timer, registered, stored, silence>>
    BY <1>8 DEF HeartbeatAnswered
  <2>5. Counts'
    <3>1. CASE beat.of = timer
      <4>1. pc = "in" => Beating /\ tick = "applied" /\ missed' = 0
        BY <1>8, <3>1 DEF HeartbeatAnswered, Ownership, Beating, TypeOK
      <4> QED
        BY <2>3, <2>4, <4>1 DEF Counts
    <3>2. CASE beat.of # timer
      <4>1. ~(pc = "in" /\ Beating) /\ UNCHANGED missed
        BY <1>8, <3>2 DEF HeartbeatAnswered, Ownership, Beating
      <4> QED
        BY <2>3, <2>4, <4>1 DEF Counts
    <3> QED
      BY <3>1, <3>2
  <2>6. Shows'
    <3>1. CASE pc = "in" /\ Replaced
      <4>1. candidates' = beat.with
        BY <1>8, <3>1 DEF HeartbeatAnswered, Ownership, Replaced
      <4> QED
        BY <2>3, <2>4, <3>1, <4>1 DEF Shows
    <3>2. CASE pc = "in" /\ ~Replaced
      <4>1. UNCHANGED candidates /\ (doubt' = doubt)
        BY <1>8, <3>2 DEF HeartbeatAnswered, Ownership, Replaced
      <4> QED
        BY <2>3, <2>4, <3>2, <4>1 DEF Shows
    <3>3. CASE pc # "in"
      <4>1. pc = "created" => UNCHANGED candidates
        BY <1>8, <3>3 DEF HeartbeatAnswered, Ownership, TypeOK
      <4> QED
        BY <2>4, <3>3, <4>1 DEF Shows
    <3> QED
      BY <3>1, <3>2, <3>3
  <2> QED
    BY <2>1, <2>2, <2>5, <2>6
<1>9. CASE HeartbeatFails
  <2>1. TypeOK'
    <3>1. missed' \in 0..TTL
      BY <1>9 DEF HeartbeatFails, TypeOK
    <3>2. doubt' \in BOOLEAN
      BY <1>9 DEF HeartbeatFails, TypeOK
    <3> QED
      BY <1>9, <3>1, <3>2, NoBeatType DEF HeartbeatFails, TypeOK, TickState
  <2>2. Ownership' /\ Tokens'
    BY <1>9 DEF HeartbeatFails, Ownership, Tokens, TokenOutlivesSession
  <2>3. ~Beating' /\ ~Replaced'
    BY <1>9 DEF HeartbeatFails, Beating, Replaced
  <2>4. Counts'
    BY <1>9, <2>3 DEF HeartbeatFails, TypeOK, Ownership, Counts, Beating
  <2>5. Shows'
    BY <1>9, <2>3 DEF HeartbeatFails, TypeOK, Ownership, Shows, Replaced
  <2> QED
    BY <2>1, <2>2, <2>4, <2>5
<1>10. CASE StopGatewaySession
  <2>1. TypeOK'
    BY <1>10 DEF StopGatewaySession, TypeOK, PC, Ownership
  <2>2. Ownership' /\ Counts' /\ Shows' /\ Tokens'
    BY <1>10 DEF StopGatewaySession, Ownership, Counts, Shows, Tokens, TokenOutlivesSession
  <2> QED
    BY <2>1, <2>2
<1>11. ASSUME NEW s \in Sessions, GatewayDeletes(s) PROVE IInv'
  <2>1. TypeOK'
    BY <1>11, Bounds DEF GatewayDeletes, TypeOK
  <2>2. Ownership' /\ Tokens'
    BY <1>11 DEF GatewayDeletes, Ownership, Tokens, TokenOutlivesSession
  <2>3. pc \in {"created", "in"} => sess # s
    BY <1>11 DEF GatewayDeletes, Ownership
  <2>4. Counts' /\ Shows'
    BY <1>11, <2>3 DEF GatewayDeletes, TypeOK, Ownership, Counts, Shows, Beating, Replaced
  <2> QED
    BY <2>1, <2>2, <2>4
<1>12. ASSUME NEW s \in Sessions, Unregistered(s) \/ UnregisterFails(s) PROVE IInv'
  <2>1. TypeOK'
    BY <1>12 DEF Unregistered, UnregisterFails, Clear, TypeOK
  <2>2. Ownership' /\ Tokens'
    BY <1>12 DEF Unregistered, UnregisterFails, Clear, Ownership, Tokens, TokenOutlivesSession
  <2>3. Counts' /\ Shows'
    BY <1>12 DEF Unregistered, UnregisterFails, Counts, Shows, Beating, Replaced
  <2> QED
    BY <2>1, <2>2, <2>3
<1>13. CASE Crash
  <2>1. TypeOK'
    BY <1>13, NoBeatType DEF Crash, TypeOK, PC, TickState, Ownership
  <2>2. Ownership' /\ Counts' /\ Shows' /\ Tokens'
    BY <1>13 DEF Crash, Ownership, Counts, Shows, Tokens, TokenOutlivesSession
  <2> QED
    BY <2>1, <2>2
<1>14. CASE AddressesChange \/ UNCHANGED vars
  <2>1. TypeOK'
    BY <1>14 DEF AddressesChange, vars, TypeOK
  <2>2. Ownership' /\ Counts' /\ Shows' /\ Tokens'
    BY <1>14 DEF AddressesChange, vars, Ownership, Counts, Shows, Tokens,
       TokenOutlivesSession, Beating, Replaced
  <2> QED
    BY <2>1, <2>2
<1> QED
  BY <1>1, <1>2, <1>3, <1>4, <1>5, <1>6, <1>7, <1>8, <1>9, <1>10, <1>11, <1>12, <1>13, <1>14
     DEF Next, Heartbeat

LEMMA Inductive == Spec => []IInv
BY Initially, Step, PTL DEF Spec

-----------------------------------------------------------------------------
(* What follows *)

\* Every variable keeps its type; no session is silent for its whole TTL and kept
\* (gateway-client.ts:119-186; index.ts:216-327).
THEOREM Typed == Spec => []TypeOK
BY Inductive, PTL DEF IInv

\* Whatever the TTL: a session outlives every run of missed heartbeats that is
\* shorter, also when one of a session before it is still under way (index.ts:270-292).
THEOREM OutlivesMisses == Spec => []SurvivesMisses
<1>1. IInv => SurvivesMisses
  <2> SUFFICES ASSUME IInv, pc = "in", missed + (IF tick = "idle" THEN 0 ELSE 1) < TTL
               PROVE  sess \in registered
    BY DEF SurvivesMisses
  <2> QED
    BY TTLAssumption DEF IInv, TypeOK, Counts, Beating
<1> QED
  BY <1>1, Inductive, PTL

\* Whatever is lost, late or changed meanwhile, candidates that the host takes for
\* advertised are, unless an answer to a replacement was lost (index.ts:274-282).
THEOREM KnowsCandidates == Spec => []CandidatesKnown
<1>1. IInv => CandidatesKnown
  BY DEF IInv, Shows, Replaced, CandidatesKnown
<1> QED
  BY <1>1, Inductive, PTL

\* Through failed stops and crashes: a session at the gateway that was the host's
\* has its token on disk (gateway-client.ts:137-138, 180-185).
THEOREM TokensOutlive == Spec => []TokenOutlivesSession
BY Inductive, PTL DEF IInv, Tokens

-----------------------------------------------------------------------------
(* Sessions that were let go of *)

\* What every step leaves of a session that was let go of: the host does not come back
\* to it, and no heartbeat becomes one of it.
LEMMA StaysLetGo ==
  ASSUME IInv, [Next]_vars, NEW s \in Sessions, LetGo(s), beat.of # s
  PROVE  ~(pc' \in {"created", "in"} /\ sess' = s) /\ beat'.of # s
<1> USE NoneAssumption DEF LetGo, IInv, Ownership, Out, deletes, hostVars
<1>1. CASE pc' \in {"created", "in"} /\ ~(pc' = pc /\ sess' = sess)
  BY <1>1 DEF Next, Heartbeat, vars, Register, GatewayCreates, Registered, RegisterFails,
     Silence, HeartbeatTick, GatewayPatches, HeartbeatAnswered, HeartbeatFails,
     StopGatewaySession, GatewayDeletes, Unregistered, UnregisterFails, Crash,
     AddressesChange
<1>2. CASE HeartbeatTick
  BY <1>2 DEF HeartbeatTick
<1>3. beat' = beat \/ beat'.of = None \/ HeartbeatTick
  BY NoBeatType DEF Next, Heartbeat, vars, Register, GatewayCreates, Registered, RegisterFails,
     Silence, GatewayPatches, HeartbeatAnswered, HeartbeatFails,
     StopGatewaySession, GatewayDeletes, Unregistered, UnregisterFails, Crash,
     AddressesChange
<1> QED
  BY <1>1, <1>2, <1>3

\* For any TTL and any number of sessions: nothing renews a session that was let go of,
\* and each interval brings its end nearer (index.ts:270-318).
THEOREM LetGoFade == Spec => LetGoFades
<1>1. ASSUME IInv, [Next]_vars, NEW s \in Sessions, LetGo(s), beat.of # s, s \in registered'
      PROVE  /\ LetGo(s)' /\ beat'.of # s
             /\ silence'[s] >= silence[s]
             /\ HeartbeatTick \/ Silence => silence'[s] > silence[s]
  <2>1. LetGo(s)' /\ beat'.of # s
    BY <1>1, StaysLetGo DEF LetGo
  <2>2. silence[s] \in Nat /\ TypeOK
    BY <1>1, TTLAssumption DEF IInv, TypeOK
  <2>3. CASE HeartbeatTick \/ Silence
    <3>1. IntervalPasses
      BY <2>3 DEF HeartbeatTick, Silence
    <3>2. silence'[s] = silence[s] + 1
      BY <1>1, <2>2, <3>1, Interval
    <3> QED
      BY <2>1, <2>2, <3>2
  <2>4. CASE ~(HeartbeatTick \/ Silence)
    <3>1. silence'[s] = silence[s]
      BY <1>1, <2>2, <2>4 DEF LetGo, Next, Heartbeat, vars, deletes, hostVars, gatewayVars, history,
         TypeOK, Register, GatewayCreates, Registered, RegisterFails, GatewayPatches,
         HeartbeatAnswered, HeartbeatFails, StopGatewaySession, GatewayDeletes,
         Unregistered, UnregisterFails, Crash, AddressesChange
    <3> QED
      BY <2>1, <2>2, <2>4, <3>1
  <2> QED
    BY <2>3, <2>4
<1>2. IInv /\ [Next]_vars =>
        [\A s \in Sessions :
           LetGo(s) /\ beat.of # s =>
             \/ s \notin registered'
             \/ /\ LetGo(s)' /\ beat'.of # s
                /\ silence'[s] >= silence[s]
                /\ HeartbeatTick \/ Silence => silence'[s] > silence[s]]_vars
  BY <1>1
<1> QED
  BY <1>2, Inductive, PTL DEF Spec, LetGoFades
=============================================================================
