---------------------------- MODULE MCDesktopMain ----------------------------
(* DesktopMain for the model checker.                                        *)
EXTENDS DesktopMain, TLC

Symmetry == Permutations(Hosts) \cup Permutations(Sessions)
            \cup Permutations(Clicks)
=============================================================================
