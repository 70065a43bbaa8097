----------------------------- MODULE HostService -----------------------------
(***************************************************************************)
(* What the app's main process may rely on of startHost() and stop(),      *)
(* without ports, processes and polling: a call resolves or rejects, if it *)
(* ends at all; at most one front is up; stop() gives the port back at     *)
(* once and completes when the front has no connection any more, be it a   *)
(* player's or any other.                                                  *)
(***************************************************************************)
CONSTANT Hosts      \* calls of startHost

VARIABLES phase,    \* where each call is
          connected \* the fronts that have connections which close() waits for

hostVars == <<phase, connected>>

HostPhase == {"off", "starting", "up", "stopping"}

HostTypeOK == phase \in [Hosts -> HostPhase] /\ connected \in SUBSET Hosts

HostInit == phase = [h \in Hosts |-> "off"] /\ connected = {}

Move(h, from, to) == phase[h] = from /\ phase' = [phase EXCEPT ![h] = to]

Call(h) == Move(h, "off", "starting") /\ UNCHANGED connected

Resolve(h) == /\ Move(h, "starting", "up")
              /\ \A g \in Hosts : phase[g] # "up"
              /\ UNCHANGED connected

Reject(h) == Move(h, "starting", "off") /\ UNCHANGED connected

StopCall(h) == Move(h, "up", "stopping") /\ UNCHANGED connected

StopDone(h) == Move(h, "stopping", "off") /\ h \notin connected /\ UNCHANGED connected

Connects(h) == phase[h] = "up" /\ connected' = connected \cup {h} /\ UNCHANGED phase

\* The last connection goes.
Disconnects(h) == h \in connected /\ connected' = connected \ {h} /\ UNCHANGED phase

HostNext ==
  \E h \in Hosts : \/ Call(h) \/ Resolve(h) \/ Reject(h) \/ StopCall(h) \/ StopDone(h)
                   \/ Connects(h) \/ Disconnects(h)

HostSpec == HostInit /\ [][HostNext]_hostVars
=============================================================================
