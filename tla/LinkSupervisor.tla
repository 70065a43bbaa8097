--------------------------- MODULE LinkSupervisor ---------------------------
(***************************************************************************)
(* What the tunnel promises of its CONTROL link, without sockets: one link *)
(* that is tried, comes up, is lost and is tried again after a wait from a *)
(* fixed sequence of delays, until it is stopped for good.                 *)
(***************************************************************************)
EXTENDS Integers, Sequences

CONSTANT Delays     \* the waits, in order; the last one repeats

VARIABLES phase,    \* what the supervisor is doing
          rung      \* the last wait was Delays[rung]; 0 when the link was up since

vars == <<phase, rung>>

Phase == {"trying", "up", "losing", "waiting", "stopped"}

TypeOK == phase \in Phase /\ rung \in 0..Len(Delays)

Climb == rung' = IF rung < Len(Delays) THEN rung + 1 ELSE rung

Init == \/ phase = "trying" /\ rung = 0
        \/ phase = "waiting" /\ rung = 1

Up == phase = "trying" /\ phase' = "up" /\ rung' = 0

\* A try fails, or the link goes down.
Lose == phase \in {"trying", "up"} /\ phase' = "losing" /\ UNCHANGED rung

WaitAgain == phase \in {"losing", "waiting"} /\ phase' = "waiting" /\ Climb

Retry == phase = "waiting" /\ phase' = "trying" /\ UNCHANGED rung

Stop == phase # "stopped" /\ phase' = "stopped" /\ UNCHANGED rung

Next == Up \/ Lose \/ WaitAgain \/ Retry \/ Stop

\* A try may take for ever, and a wait may follow a wait for ever when no try can
\* even be started; that the tunnel keeps at it is a property of TunnelClient.
Spec == Init /\ [][Next]_vars
=============================================================================
