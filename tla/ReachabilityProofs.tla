-------------------------- MODULE ReachabilityProofs --------------------------
(***************************************************************************)
(* For any addresses, networks and changes: what a call advertises is      *)
(* right for the interfaces it has seen, whatever default route was        *)
(* remembered before.                                                      *)
(*                                                                         *)
(* The invariant says the same of a call that still waits for the echo.    *)
(***************************************************************************)
EXTENDS Reachability, TLAPS

\* Rank 0 is the default route's alone.
LEMMA Ranks == ASSUME NEW ip, NEW r
               PROVE  rank1918(ip, r) \in 0..3 /\ (rank1918(ip, r) = 0 <=> ip = r)
BY DEF rank1918

LEMMA Buckets == ASSUME NEW ns \in Seq(Nic), NEW range
                 PROVE  /\ Bucket(ns, range) \subseteq DOMAIN ns
                        /\ \A k \in Bucket(ns, range) : ns[k].addr \in Present(ns, range)
                        /\ Present(ns, range) # {} => Bucket(ns, range) # {}
                        /\ \A a \in Present(ns, range) : \E k \in Bucket(ns, range) : ns[k].addr = a
BY DEF Bucket, Present

\* The address that wins, if the ranking lets any win, is a right one.
LEMMA ChoiceIsSound == ASSUME NEW ns \in Seq(Nic), NEW r, NEW lan \in LanIps(ns, r)
                       PROVE  SoundLan(ns, r, lan) /\ lan \in IPv4 \cup {None}
<1> DEFINE real == Bucket(ns, Rfc1918)
           rank(k) == rank1918(ns[k].addr, r)
<1>1. CASE real # {}
  <2>1. PICK b \in real : /\ lan = ns[b].addr
                          /\ \A j \in real : rank(b) < rank(j) \/ (rank(b) = rank(j) /\ b <= j)
    BY <1>1 DEF LanIps
  <2>2. lan \in Present(ns, Rfc1918)
    BY <2>1, Buckets
  <2>3. ASSUME r \in Present(ns, Rfc1918) PROVE lan = r
    <3>1. PICK k \in real : ns[k].addr = r
      BY <2>3, Buckets
    <3>2. rank(k) = 0 /\ rank(b) \in 0..3
      BY <3>1, Ranks
    <3>3. rank(b) = 0
      BY <2>1, <3>2
    <3> QED
      BY <2>1, <3>3, Ranks
  <2> QED
    BY <2>2, <2>3, RangesAssumption DEF SoundLan, Present, IPv4, Addresses, Rfc1918
<1>2. CASE real = {} /\ Bucket(ns, Public) # {}
  <2>1. lan \in Present(ns, Public)
    BY <1>2, Buckets DEF LanIps
  <2>2. Present(ns, Rfc1918) = {}
    BY <1>2, Buckets
  <2> QED
    BY <2>1, <2>2, RangesAssumption DEF SoundLan, Present, IPv4, Addresses
<1>3. CASE real = {} /\ Bucket(ns, Public) = {} /\ Bucket(ns, Weak) # {}
  <2>1. lan \in Present(ns, Weak)
    BY <1>3, Buckets DEF LanIps
  <2>2. Present(ns, Rfc1918) = {} /\ Present(ns, Public) = {}
    BY <1>3, Buckets
  <2> QED
    BY <2>1, <2>2, RangesAssumption DEF SoundLan, Present, IPv4, Addresses
<1>4. CASE real = {} /\ Bucket(ns, Public) = {} /\ Bucket(ns, Weak) = {}
  <2>1. lan = None
    BY <1>4 DEF LanIps
  <2>2. Present(ns, IPv4) = {} /\ Present(ns, Rfc1918) = {}
    <3>1. Present(ns, Rfc1918) = {} /\ Present(ns, Public) = {} /\ Present(ns, Weak) = {}
      BY <1>4, Buckets
    <3> QED
      BY <3>1 DEF Present, IPv4
  <2> QED
    BY <2>1, <2>2, RangesAssumption DEF SoundLan, IPv4, Addresses
<1> QED
  BY <1>1, <1>2, <1>3, <1>4

LEMMA GlobalIsSound == ASSUME NEW ns \in Seq(Nic), NEW v6 \in GlobalIpv6(ns)
                       PROVE  /\ v6 \in Global6 \cup {None}
                              /\ v6 = None <=> Present(ns, Global6) = {}
<1>1. CASE Bucket(ns, Global6) = {}
  BY <1>1, Buckets DEF GlobalIpv6
<1>2. CASE Bucket(ns, Global6) # {}
  <2>1. v6 \in Present(ns, Global6)
    BY <1>2, Buckets DEF GlobalIpv6
  <2> QED
    BY <2>1, RangesAssumption DEF Present, Addresses
<1> QED
  BY <1>1, <1>2

LEMMA NobodyIsSound == Nobody \in Answer /\ Sound(Nobody)
<1>1. Nobody \in Answer
  BY DEF Nobody, Answer
<1>2. /\ Nobody.nics = <<>> /\ Nobody.route = None /\ Nobody.lan = None
      /\ Nobody.v6 = None /\ Nobody.v4 = None
  BY DEF Nobody
<1>3. \A range : Present(<<>>, range) = {}
  BY DEF Present
<1>4. None \notin Weak
  BY RangesAssumption DEF Addresses, IPv4
<1> QED
  BY <1>1, <1>2, <1>3, <1>4 DEF Sound, SoundLan

LEMMA Initially == Init => IInv
BY NobodyIsSound DEF Init, IInv, TypeOK

LEMMA LookupType == ASSUME TypeOK, Lookup
                    PROVE  /\ cachedDefaultRouteIp' \in IPv4 \cup {None, "undefined"}
                           /\ routeIp' \in IPv4 \cup {None}
BY DEF TypeOK, Lookup, routeIp

LEMMA StepKeeps == IInv /\ [Next]_vars => IInv'
<1> SUFFICES ASSUME IInv, [Next]_vars PROVE IInv'
  OBVIOUS
<1>1. ASSUME NEW nic \in Nic, Plug(nic) PROVE IInv'
  <2>1. nics' \in Seq(Nic) /\ route' \in IPv4 \cup {None} /\ changes' \in Nat
    BY <1>1, BoundAssumption DEF IInv, TypeOK, Plug, Change
  <2> QED
    BY <1>1, <2>1 DEF IInv, TypeOK, Plug
<1>2. ASSUME NEW k \in DOMAIN nics, Unplug(k) PROVE IInv'
  <2>1. nics' \in Seq(Nic)
    BY <1>2 DEF IInv, TypeOK, Unplug
  <2>2. route' \in IPv4 \cup {None} /\ changes' \in Nat
    BY <1>2, <2>1 DEF IInv, TypeOK, Unplug, Change, Bucket
  <2> QED
    BY <1>2, <2>1, <2>2 DEF IInv, TypeOK, Unplug
<1>3. CASE Detect
  BY <1>3, LookupType DEF IInv, TypeOK, Detect
<1>4. CASE BuildStart
  <2>1. PICK lan \in LanIps(nics, routeIp'), v6 \in GlobalIpv6(nics) :
          found' = [Nobody EXCEPT !.nics = nics, !.route = routeIp', !.lan = lan, !.v6 = v6]
    BY <1>4 DEF BuildStart
  <2>2. /\ routeIp' \in IPv4 \cup {None} /\ cachedDefaultRouteIp' \in IPv4 \cup {None, "undefined"}
        /\ nics \in Seq(Nic)
    BY <1>4, LookupType DEF IInv, BuildStart, TypeOK
  <2>3. /\ SoundLan(nics, routeIp', lan) /\ lan \in IPv4 \cup {None}
        /\ v6 \in Global6 \cup {None} /\ (v6 = None <=> Present(nics, Global6) = {})
    BY <2>2, ChoiceIsSound, GlobalIsSound
  <2>4. found' = [nics |-> nics, route |-> routeIp', lan |-> lan, v6 |-> v6,
                  v4 |-> None, manual |-> None]
    BY <2>1 DEF Nobody
  <2>5. found' \in Answer /\ Sound(found')
    BY <2>2, <2>3, <2>4 DEF Answer, Sound
  <2> QED
    BY <1>4, <2>2, <2>5 DEF IInv, TypeOK, BuildStart
<1>5. ASSUME NEW pub \in IPv4 \cup {None}, pub # None => EchoUrl, Build(pub) PROVE IInv'
  <2>1. candidates' = [nics |-> found.nics, route |-> found.route, lan |-> found.lan,
                       v6 |-> found.v6, v4 |-> pub, manual |-> ManualUrl]
    BY <1>5 DEF Build, IInv, TypeOK, Answer
  <2>2. candidates' \in Answer /\ Sound(candidates')
    BY <1>5, <2>1 DEF IInv, TypeOK, Answer, Sound
  <2>3. found' \in Answer /\ Sound(found')
    BY <1>5, NobodyIsSound DEF Build
  <2> QED
    BY <1>5, <2>2, <2>3 DEF IInv, TypeOK, Build
<1>6. ASSUME NEW pub \in IPv4, EchoAnswers(pub) PROVE IInv'
  BY <1>5, <1>6 DEF EchoAnswers
<1>7. CASE EchoNothing
  BY <1>5, <1>7 DEF EchoNothing
<1>8. CASE UNCHANGED vars
  BY <1>8 DEF IInv, TypeOK, vars
<1> QED
  BY <1>1, <1>2, <1>3, <1>4, <1>6, <1>7, <1>8 DEF Next

\* Whatever the network did, and whatever default route was remembered, an answer is
\* right for the interfaces of its call (reachability.ts:111-185, 282-350).
THEOREM AdvertisedIsSound == Spec => []Advertised
<1>1. Spec => []IInv
  BY Initially, StepKeeps, PTL DEF Spec
<1>2. IInv => Advertised
  BY DEF IInv, Advertised
<1> QED
  BY <1>1, <1>2, PTL
=============================================================================
