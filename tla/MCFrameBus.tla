----------------------------- MODULE MCFrameBus -----------------------------
(* Two processes whose clocks differ by one unit, two sockets, two writers, no listener lost. *)
EXTENDS FrameBus, TLC

CONSTANTS p1, p2, s1, s2, w1, w2

MCProcesses == {p1, p2}
MCSockets == {s1, s2}
MCWriters == {w1, w2}
MCClockOffset == p1 :> 0 @@ p2 :> 1
Symmetry == Permutations(MCSockets) \cup Permutations(MCWriters)
=============================================================================
