----------------------------- MODULE Reachability -----------------------------
(***************************************************************************)
(* Which addresses the host advertises, src/main/reachability.ts, while    *)
(* the machine's network changes: the choice of the LAN address with its   *)
(* default route looked up once per process, and the candidates of one     *)
(* registration or heartbeat, which wait for an IP-echo service.           *)
(*                                                                         *)
(* An address is a value of one of the ranges the code tells apart, and    *)
(* Subnets are the /24 networks.                                           *)
(*                                                                         *)
(* A definition named X_Bug... is X with a plausible mistake in it, used   *)
(* only to show that a property is about X.                                *)
(***************************************************************************)
EXTENDS Integers, Sequences, FiniteSets

CONSTANTS
  Home, Private,   \* 192.168.*, the other RFC 1918 addresses
  Weak, Public,    \* link-local and carrier NAT, every other IPv4 address
  Global6,         \* global-scope IPv6 addresses
  Subnets, None,
  EchoUrl, ManualUrl,   \* RAZZOOZLE_IP_ECHO_URL is set; RAZZOOZLE_MANUAL_URL or None
  MaxChanges       \* bounds the changes of the network

Rfc1918 == Home \cup Private
IPv4 == Rfc1918 \cup Weak \cup Public
Addresses == IPv4 \cup Global6

ASSUME RangesAssumption ==
  /\ None \notin Addresses
  /\ Rfc1918 \cap (Weak \cup Public) = {} /\ Weak \cap Public = {}
  /\ IPv4 \cap Global6 = {}

ASSUME BoundAssumption == MaxChanges \in Nat /\ EchoUrl \in BOOLEAN

VARIABLES
  nics,         \* os.networkInterfaces(): addresses in order, skip = virtual or internal
  route,        \* the address the kernel would use to reach the internet
  cachedDefaultRouteIp,
  call,         \* of buildHostCandidates: "idle" or waiting for the "echo"
  found,        \* what that call has found, and from what
  candidates,   \* what the last one returned, and from what
  changes

vars == <<nics, route, cachedDefaultRouteIp, call, found, candidates, changes>>

Nic == [addr : Addresses, skip : BOOLEAN]
Nobody == [nics |-> <<>>, route |-> None, lan |-> None, v6 |-> None, v4 |-> None, manual |-> None]

Init ==
  /\ nics = <<>> /\ route = None /\ cachedDefaultRouteIp = "undefined"
  /\ call = "idle" /\ found = Nobody /\ candidates = Nobody
  /\ changes = 0

-----------------------------------------------------------------------------
(* The choice                                                              *)

Bucket_BugKeepsVirtual(ns, range) == {k \in DOMAIN ns : ns[k].addr \in range}

\* The places of the addresses of a range, on interfaces that are not skipped.
Bucket(ns, range) == {k \in DOMAIN ns : ~ns[k].skip /\ ns[k].addr \in range}

slash24(a, b) == \E net \in Subnets : {a, b} \subseteq net

rank1918(ip, routeIp) ==
  IF ip = routeIp THEN 0
  ELSE IF routeIp # None /\ slash24(ip, routeIp) THEN 1
  ELSE IF ip \in Home THEN 2 ELSE 3

\* candidates[0]: the best of the real LAN addresses, in order where they tie, else the
\* first of the others, else of the weak ones.  At most one address.
LanIps(ns, routeIp) ==
  LET real == Bucket(ns, Rfc1918)
      rank(k) == rank1918(ns[k].addr, routeIp)
      best == {k \in real : \A j \in real : rank(k) < rank(j) \/ (rank(k) = rank(j) /\ k <= j)}
      firsts(K) == {k \in K : \A j \in K : k <= j}
      at(K) == {ns[k].addr : k \in K}
  IN IF real # {} THEN at(best)
     ELSE IF Bucket(ns, Public) # {} THEN at(firsts(Bucket(ns, Public)))
     ELSE IF Bucket(ns, Weak) # {} THEN at(firsts(Bucket(ns, Weak)))
     ELSE {None}

GlobalIpv6(ns) ==
  LET K == Bucket(ns, Global6)
  IN IF K = {} THEN {None} ELSE {ns[k].addr : k \in {k \in K : \A j \in K : k <= j}}

\* detectDefaultRouteIpv4: looked up once, and only when there is something to rank.
\* The socket is not bound yet when its address is read: that may fail.
Lookup ==
  /\ cachedDefaultRouteIp' \in
       IF cachedDefaultRouteIp = "undefined" /\ Cardinality(Bucket(nics, Rfc1918)) > 1
       THEN {route, None} ELSE {cachedDefaultRouteIp}

routeIp == IF cachedDefaultRouteIp = "undefined" THEN None ELSE cachedDefaultRouteIp

-----------------------------------------------------------------------------
(* The network                                                             *)

Change == changes < MaxChanges /\ changes' = changes + 1

\* An interface comes up.  With an IPv4 address, also a VPN's, it may get the default route.
Plug(nic) ==
  /\ Change
  /\ \A k \in DOMAIN nics : nics[k].addr # nic.addr
  /\ nics' = Append(nics, nic)
  /\ route' \in {route} \cup ({nic.addr} \cap IPv4)
  /\ UNCHANGED <<cachedDefaultRouteIp, call, found, candidates>>

Unplug(k) ==
  /\ Change
  /\ nics' = [j \in 1..(Len(nics) - 1) |-> nics[IF j < k THEN j ELSE j + 1]]
  /\ route' \in {None} \cup {nics'[j].addr : j \in Bucket(nics', IPv4)}
  /\ UNCHANGED <<cachedDefaultRouteIp, call, found, candidates>>

-----------------------------------------------------------------------------
(* The calls                                                               *)

\* detectLanIpv4 for a join address, the tray or the page.
Detect ==
  /\ Lookup
  /\ UNCHANGED <<nics, route, call, found, candidates, changes>>

BuildStart_BugKeepsLan ==
  /\ call = "idle"
  /\ Lookup
  /\ \E lan \in (IF candidates.lan # None THEN {candidates.lan} ELSE LanIps(nics, routeIp')),
        v6 \in GlobalIpv6(nics) :
       found' = [Nobody EXCEPT !.nics = nics, !.route = routeIp', !.lan = lan, !.v6 = v6]
  /\ call' = "echo"
  /\ UNCHANGED <<nics, route, candidates, changes>>

\* buildHostCandidates, up to the echo.
BuildStart ==
  /\ call = "idle"
  /\ Lookup
  /\ \E lan \in LanIps(nics, routeIp'), v6 \in GlobalIpv6(nics) :
       found' = [Nobody EXCEPT !.nics = nics, !.route = routeIp', !.lan = lan, !.v6 = v6]
  /\ call' = "echo"
  /\ UNCHANGED <<nics, route, candidates, changes>>

\* The rest of it, with the echo's answer.
Build(pub) ==
  /\ call = "echo"
  /\ candidates' = [found EXCEPT !.v4 = pub, !.manual = ManualUrl]
  /\ call' = "idle" /\ found' = Nobody
  /\ UNCHANGED <<nics, route, cachedDefaultRouteIp, changes>>

EchoAnswers(pub) == EchoUrl /\ Build(pub)

\* No echo is configured, it answers no address, fails, or is aborted after its timeout.
EchoNothing == Build(None)

Next == \/ \E nic \in Nic : Plug(nic)
        \/ \E k \in DOMAIN nics : Unplug(k)
        \/ Detect \/ BuildStart
        \/ \E pub \in IPv4 : EchoAnswers(pub)
        \/ EchoNothing

Spec == Init /\ [][Next]_vars

\* Heartbeats build again and again, and the echo's timeout ends each wait.
FairSpec == Spec /\ WF_vars(BuildStart) /\ WF_vars(EchoNothing)

-----------------------------------------------------------------------------
(* Properties                                                              *)

Present(ns, range) == {ns[k].addr : k \in {k \in DOMAIN ns : ~ns[k].skip}} \cap range

SoundLan(ns, r, lan) ==
  /\ lan # None => lan \in Present(ns, IPv4)
  /\ Present(ns, Rfc1918) # {} => lan \in Rfc1918
  /\ Present(ns, IPv4) # {} => lan # None
  /\ lan \in Weak => Present(ns, IPv4) \subseteq Weak
  /\ r \in Present(ns, Rfc1918) => lan = r

Sound(c) == /\ SoundLan(c.nics, c.route, c.lan)
            /\ c.v6 = None <=> Present(c.nics, Global6) = {}
            /\ c.v4 # None => EchoUrl

\* Whatever route was remembered: the LAN candidate is an address the machine had when
\* the call was made, a real LAN address whenever there was one and a weak one only if
\* there was nothing else; the remembered route wins while it is among the real ones
\* (reachability.ts:35-58, 111-185).
Advertised == Sound(candidates)

\* After the last change of the network the host comes to advertise the address that
\* its present interfaces call for (reachability.ts:244-260, 282-349, index.ts:270-282).
FollowsNetwork ==
  <>[](candidates.lan \in LanIps(nics, routeIp) /\ candidates.v6 \in GlobalIpv6(nics))

-----------------------------------------------------------------------------
(* The inductive invariant                                                 *)

Answer == [nics : Seq(Nic), route : IPv4 \cup {None}, lan : IPv4 \cup {None},
           v6 : Global6 \cup {None}, v4 : IPv4 \cup {None}, manual : {ManualUrl, None}]

TypeOK ==
  /\ nics \in Seq(Nic) /\ route \in IPv4 \cup {None}
  /\ cachedDefaultRouteIp \in IPv4 \cup {None, "undefined"}
  /\ call \in {"idle", "echo"} /\ changes \in Nat
  /\ found \in Answer /\ candidates \in Answer

IInv == TypeOK /\ Sound(found) /\ Sound(candidates)
=============================================================================
