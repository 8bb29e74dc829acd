----------------------------- MODULE MCPostgres -----------------------------
(***************************************************************************)
(* What processes do through the database, of which a behaviour shows one: *)
(* the frame bus of two server processes whose clocks differ by one unit   *)
(* (one socket, two writers), and the job queue of one worker process with *)
(* both lanes, as deployed (two jobs).                                     *)
(***************************************************************************)
EXTENDS FrameBus, MediaJobs, TLC

CONSTANTS p1, p2, s1, x1, x2, j1, j2, l1, l2, w1

MCProcesses == {p1, p2}
MCSockets == {s1}
MCWriters == {x1, x2}
MCClockOffset == p1 :> 0 @@ p2 :> 1
MCJobs == {j1, j2}
MCLanes == {l1, l2}
MCWorkers == {w1}
MCWorkerOf == l1 :> w1 @@ l2 :> w1

VARIABLE side

NoBus ==
  /\ time = MaxTime /\ rev = 0 /\ active = {} /\ up = Processes
  /\ losses = MaxLosses /\ attaches = MaxAttaches /\ missed = {}
  /\ held = [w \in Writers |-> <<>>]
  /\ wire = [p \in Processes |-> <<>>]
  /\ booted = [p \in Processes |-> 0]
  /\ at = [s \in Sockets |-> NoProcess]
  /\ got = [s \in Sockets |-> <<>>]
  /\ since = [s \in Sockets |-> 0]
  /\ sent = <<>>

\* The jobs that are settled already, and the mishaps that have been.
Queue(settled, n) ==
  /\ job = [j \in Jobs |-> [status |-> IF j \in settled THEN "applied" ELSE "absent",
                            attempts |-> 0, lockedBy |-> <<>>, lease |-> "free"]]
  /\ result = [j \in Jobs |-> 0]
  /\ lane = [l \in Lanes |-> Idle]
  /\ files = {} /\ stopping = {} /\ run = [w \in Workers |-> 0] /\ undone = {} /\ mishaps = n

\* Two jobs with two mishaps, or one with three.
SidesInit ==
  \/ side = "bus" /\ BusInit /\ Queue(Jobs, 0)
  \/ side = "jobs" /\ NoBus /\ (Queue({}, 1) \/ Queue({j2}, 0))

OfBus(A) == side = "bus" /\ A /\ UNCHANGED <<side, vars>>
OfJobs(A) == side = "jobs" /\ A /\ UNCHANGED <<side, busVars>>

\* What is fair of one side is idle on the other.
SidesSpec ==
  /\ SidesInit /\ [][OfBus(BusNext) \/ OfJobs(Next)]_<<side, busVars, vars>>
  /\ BusFairness /\ Fairness
=============================================================================
