---------------------------- MODULE MCSessionHub ----------------------------
(***************************************************************************)
(* What the hubs of a session do, of which a behaviour shows one: the      *)
(* calls made to the hubs of a process, on one slot, and the recording     *)
(* lease they keep (two recorders, two processes whose clocks differ by    *)
(* one unit).                                                              *)
(***************************************************************************)
EXTENDS RecordingLease, HubCalls, TLC

CONSTANTS r1, r2, p1, p2, k1, c1, c2, c3, oA, oA2, oB, sA, sB

MCClients == {r1, r2}
MCProcesses == {p1, p2}
MCClockOffset == p1 :> 0 @@ p2 :> 1
MCSlots == {k1}
MCSessions == {sA, sB}
MCSessionOf == c1 :> sA @@ c2 :> sA @@ c3 :> sB @@ oA :> sA @@ oA2 :> sA @@ oB :> sB
MCCallers == DOMAIN MCSessionOf
MCOpeners == {oA, oA2, oB}
MCWriting == MCOpeners \cup {c1}
\* A hub opened twice, or two hubs that share the slot, or the side of the lease.
MCCasts == {{c1, c2, oA, oA2}, {c1, c3, oA, oB}, {}}

VARIABLE side

\* Nobody recorded, and no time is left.
NoLease ==
  /\ time = MaxTime /\ row = NoRow /\ hub = {} /\ firing = {} /\ sweeping = {}
  /\ alarm = [p \in Processes |-> NoAlarm] /\ backoff = [p \in Processes |-> 0]
  /\ seen = None /\ writer = None /\ promise = [c \in Clients |-> 0]

SidesInit ==
  /\ HubInit
  /\ IF \E c \in Callers : stage[c] = "new" THEN side = "calls" /\ NoLease ELSE side = "lease" /\ Init

OfLease(A) == side = "lease" /\ A /\ UNCHANGED <<side, hubVars>>
OfCalls(A) == side = "calls" /\ A /\ UNCHANGED <<side, vars>>

\* A lease at the end of time and callers that have been answered have nothing fair to do.
SidesSpec ==
  /\ SidesInit /\ [][OfLease(Next) \/ OfCalls(HubNext)]_<<side, vars, hubVars>>
  /\ Fairness /\ HubFairness
=============================================================================
