------------------------------ MODULE ByteStream ------------------------------
(***************************************************************************)
(* What the two ends of a relayed connection may rely on in one direction: *)
(* what is received is a prefix of what was written, each piece once and   *)
(* in order.  The connection may end anywhere, and then the rest is lost.  *)
(***************************************************************************)
EXTENDS Integers

CONSTANT Chunks     \* the pieces, numbered in the order of writing

VARIABLES written, received

StreamInit == written = {} /\ received = {}

Write(i) == /\ i \notin written
            /\ \A j \in Chunks : j < i => j \in written
            /\ written' = written \cup {i}
            /\ UNCHANGED received

Receive(i) == /\ i \in written \ received
              /\ \A j \in Chunks : j < i => j \in received
              /\ received' = received \cup {i}
              /\ UNCHANGED written

StreamSpec == StreamInit /\ [][\E i \in Chunks : Write(i) \/ Receive(i)]_<<written, received>>
=============================================================================
