------------------------------ MODULE MediaJobs ------------------------------
(***************************************************************************)
(* The media job queue (catalog.media_jobs) and the worker's lanes.  A     *)
(* lane claims a queued job under a lease, runs ffmpeg into files named    *)
(* after the attempt, renews the lease meanwhile, and records the outcome  *)
(* with a statement fenced on the worker's id and status = 'running'.  Any *)
(* lane requeues running jobs whose lease has lapsed.                      *)
(*                                                                         *)
(* Lanes of one process share its worker id; a restarted process has a new *)
(* one.  Time is abstract: a lease may lapse whenever it is not renewed (a *)
(* database outage or a suspended machine), and the backoff only delays.   *)
(* A lane releases its attempt when its process stops, and when its run    *)
(* finds too little disk for its inputs: then it goes on claiming.         *)
(***************************************************************************)
EXTENDS Integers, FiniteSets

CONSTANTS Jobs, Lanes, Workers,
          WorkerOf,      \* the process a lane runs in
          MaxAttempts,   \* MEDIA_JOB_MAX_ATTEMPTS
          MaxMishaps     \* bound: leases that lapse under a live lane, failed statements,
                         \* crashes, shutdowns and runs that find too little disk

ASSUME QueueAssumption ==
  /\ WorkerOf \in [Lanes -> Workers]
  /\ MaxAttempts \in Nat \ {0}
  /\ MaxMishaps \in Nat

None == "none"
ASSUME NoneAssumption == None \notin Jobs \cup Lanes

VARIABLES
  job,       \* per job: status, attempts, lockedBy, and its lease: free, live or lapsed
  result,    \* per job: the attempt whose file result_json names, 0 when none
  lane,      \* per lane: its job and attempt, its phase, and whether a renewal was refused
  files,     \* outputs on disk: <<job, attempt>>
  run,       \* per worker: the run of its process (a new id for each)
  stopping,  \* workers shutting down
  undone,    \* history: jobs of which a claiming lane's release took back another's attempt
  mishaps

vars == <<job, result, lane, files, run, stopping, undone, mishaps>>

Id(l) == <<WorkerOf[l], run[WorkerOf[l]]>>
Idle == [job |-> None, attempt |-> 0, phase |-> "idle", lost |-> FALSE]
Busy == {l \in Lanes : lane[l].phase # "idle"}
Outputs(l) == {<<lane[l].job, lane[l].attempt>>}

Mishap == mishaps < MaxMishaps /\ mishaps' = mishaps + 1

\* The fence of every statement after the claim.
Fence(l, j) == job[j].status = "running" /\ job[j].lockedBy = Id(l)

-----------------------------------------------------------------------------
Init ==
  /\ job = [j \in Jobs |-> [status |-> "absent", attempts |-> 0, lockedBy |-> <<>>, lease |-> "free"]]
  /\ result = [j \in Jobs |-> 0]
  /\ lane = [l \in Lanes |-> Idle]
  /\ files = {}
  /\ run = [w \in Workers |-> 0]
  /\ stopping = {}
  /\ undone = {}
  /\ mishaps = 0

Enqueue(j) ==
  /\ job[j].status = "absent"
  /\ job' = [job EXCEPT ![j].status = "queued"]
  /\ UNCHANGED <<result, lane, files, run, stopping, undone, mishaps>>

\* Mutant: a claim does not count as an attempt.
MutClaimUncounted(l, j) ==
  /\ l \notin Busy /\ WorkerOf[l] \notin stopping
  /\ job[j].status = "queued"
  /\ job' = [job EXCEPT ![j] = [@ EXCEPT !.status = "running", !.lockedBy = Id(l),
                                         !.attempts = IF @ = 0 THEN 1 ELSE @, !.lease = "live"]]
  /\ lane' = [lane EXCEPT ![l] = [job |-> j, attempt |-> job'[j].attempts,
                                  phase |-> "running", lost |-> FALSE]]
  /\ UNCHANGED <<result, files, run, stopping, undone, mishaps>>

Claim(l, j) ==
  /\ l \notin Busy /\ WorkerOf[l] \notin stopping
  /\ job[j].status = "queued"
  /\ job' = [job EXCEPT ![j] = [status |-> "running", lockedBy |-> Id(l),
                                attempts |-> @.attempts + 1, lease |-> "live"]]
  /\ lane' = [lane EXCEPT ![l] = [job |-> j, attempt |-> job[j].attempts + 1,
                                  phase |-> "running", lost |-> FALSE]]
  /\ UNCHANGED <<result, files, run, stopping, undone, mishaps>>

\* A running job's lease runs out: nobody works on it, or its lane could not renew.
Lapse(j) ==
  /\ job[j].status = "running" /\ job[j].lease = "live"
  /\ \/ /\ \A l \in Busy : lane[l].job # j
        /\ UNCHANGED mishaps
     \/ /\ \E l \in Busy : lane[l].job = j
        /\ Mishap
  /\ job' = [job EXCEPT ![j].lease = "lapsed"]
  /\ UNCHANGED <<result, lane, files, run, stopping, undone>>

Lapsed == {j \in Jobs : job[j].status = "running" /\ job[j].lease = "lapsed"}

\* After a failed attempt: queued again (with a backoff), or failed at the cap.
Retried(r) == IF r.attempts >= MaxAttempts THEN "failed" ELSE "queued"

\* A lane's loop first requeues every lapsed job, whoever runs it.
RequeueExpired(l) ==
  /\ l \notin Busy /\ WorkerOf[l] \notin stopping /\ Lapsed # {}
  /\ job' = [j \in Jobs |-> IF j \in Lapsed
                            THEN [job[j] EXCEPT !.status = Retried(job[j]), !.lease = "free"]
                            ELSE job[j]]
  /\ UNCHANGED <<result, lane, files, run, stopping, undone, mishaps>>

-----------------------------------------------------------------------------
\* The renewal timer: refused, the run is aborted.  A renewal does not look at the expiry.
Renew(l) ==
  /\ lane[l].phase = "running" /\ ~lane[l].lost
  /\ LET j == lane[l].job IN
     \/ /\ Fence(l, j) /\ job[j].lease = "lapsed"
        /\ job' = [job EXCEPT ![j].lease = "live"]
        /\ UNCHANGED lane
     \/ /\ ~Fence(l, j)
        /\ lane' = [lane EXCEPT ![l].lost = TRUE]
        /\ UNCHANGED job
  /\ UNCHANGED <<result, files, run, stopping, undone, mishaps>>

\* The run wrote its output, or failed and removed it.
RunEnds(l) ==
  /\ lane[l].phase = "running" /\ ~lane[l].lost
  /\ \/ /\ files' = files \cup Outputs(l)
        /\ lane' = [lane EXCEPT ![l].phase = "finish"]
     \/ \E p \in {"fail", "failFinal"} :
          /\ files' = files \ Outputs(l)
          /\ lane' = [lane EXCEPT ![l].phase = p]
  /\ UNCHANGED <<job, result, run, stopping, undone, mishaps>>

\* The run finds too little disk for its inputs: the attempt is to be given back.
LowDisk(l) ==
  /\ lane[l].phase = "running" /\ ~lane[l].lost /\ Mishap
  /\ files' = files \ Outputs(l)
  /\ lane' = [lane EXCEPT ![l].phase = "release"]
  /\ UNCHANGED <<job, result, run, stopping, undone>>

\* The lease was lost: only the attempt's own files go.
Abandon(l) ==
  /\ lane[l].lost
  /\ files' = files \ Outputs(l)
  /\ lane' = [lane EXCEPT ![l] = Idle]
  /\ UNCHANGED <<job, result, run, stopping, undone, mishaps>>

\* Mutant: a failed attempt is given back, as a released one is.
MutOutcomeUncounted(l, j) ==
  LET r == job[j] IN
  CASE lane[l].phase = "finish"    -> [r EXCEPT !.status = "done", !.lease = "free"]
    [] lane[l].phase = "failFinal" -> [r EXCEPT !.status = "failed", !.lease = "free"]
    [] OTHER -> [r EXCEPT !.status = "queued", !.attempts = r.attempts - 1, !.lease = "free"]

\* The outcome's statement, when the fence admits it; a release gives back an attempt.
Outcome(l, j) ==
  LET r == job[j]
      after(s, n) == [r EXCEPT !.status = s, !.attempts = n, !.lease = "free"]
  IN CASE lane[l].phase = "finish"    -> after("done", r.attempts)
       [] lane[l].phase = "fail"      -> after(Retried(r), r.attempts)
       [] lane[l].phase = "failFinal" -> after("failed", r.attempts)
       [] lane[l].phase = "release"   -> after("queued", r.attempts - 1)

Recording == {"finish", "fail", "failFinal", "release"}

\* A release is fenced on the worker's id alone: it may take back the attempt of another lane.
Undoes(l) ==
  /\ lane[l].phase = "release" /\ WorkerOf[l] \notin stopping
  /\ job[lane[l].job].attempts # lane[l].attempt

Record(l) ==
  LET j == lane[l].job IN
  /\ lane[l].phase \in Recording /\ Fence(l, j)
  /\ job' = [job EXCEPT ![j] = Outcome(l, j)]
  /\ result' = IF lane[l].phase = "finish" THEN [result EXCEPT ![j] = lane[l].attempt] ELSE result
  /\ lane' = [lane EXCEPT ![l] = Idle]
  /\ undone' = IF Undoes(l) THEN undone \cup {j} ELSE undone
  /\ UNCHANGED <<files, run, stopping, mishaps>>

\* Mutant: a refused lane clears the whole job directory.
MutRefusedClearsAll(l) ==
  /\ lane[l].phase \in Recording /\ ~Fence(l, lane[l].job)
  /\ files' = {f \in files : f[1] # lane[l].job}
  /\ lane' = [lane EXCEPT ![l] = Idle]
  /\ UNCHANGED <<job, result, run, stopping, undone, mishaps>>

\* The fence refuses it: the attempt's own files go.
Refused(l) ==
  /\ lane[l].phase \in Recording /\ ~Fence(l, lane[l].job)
  /\ files' = files \ Outputs(l)
  /\ lane' = [lane EXCEPT ![l] = Idle]
  /\ UNCHANGED <<job, result, run, stopping, undone, mishaps>>

\* The statement fails: logged, and the job keeps running until its lease lapses.
RecordFails(l) ==
  /\ lane[l].phase \in Recording /\ Mishap
  /\ lane' = [lane EXCEPT ![l] = Idle]
  /\ UNCHANGED <<job, result, files, run, stopping, undone>>

-----------------------------------------------------------------------------
LanesOf(w) == {l \in Lanes : WorkerOf[l] = w}

\* SIGTERM: no more claims; runs still going after the grace period are aborted.
Stop(w) ==
  /\ w \notin stopping /\ Mishap
  /\ stopping' = stopping \cup {w}
  /\ UNCHANGED <<job, result, lane, files, run, undone>>

Shutdown(l) ==
  /\ WorkerOf[l] \in stopping
  /\ lane[l].phase = "running" /\ ~lane[l].lost
  /\ files' = files \ Outputs(l)
  /\ lane' = [lane EXCEPT ![l].phase = "release"]
  /\ UNCHANGED <<job, result, run, stopping, undone, mishaps>>

Restart(w) ==
  /\ w \in stopping /\ LanesOf(w) \cap Busy = {}
  /\ stopping' = stopping \ {w}
  /\ run' = [run EXCEPT ![w] = @ + 1]
  /\ UNCHANGED <<job, result, lane, files, undone, mishaps>>

\* The process is killed, its attempts' files left behind.
Crash(w) ==
  /\ Mishap
  /\ \E left \in SUBSET UNION {Outputs(l) : l \in LanesOf(w) \cap Busy} : files' = files \cup left
  /\ lane' = [l \in Lanes |-> IF WorkerOf[l] = w THEN Idle ELSE lane[l]]
  /\ stopping' = stopping \ {w}
  /\ run' = [run EXCEPT ![w] = @ + 1]
  /\ UNCHANGED <<job, result, undone>>

\* The API settles a done job, and clears the directory of a terminal one.
Apply(j) ==
  /\ job[j].status \in {"done", "failed"}
  /\ job' = [job EXCEPT ![j].status = "applied"]
  /\ files' = {f \in files : f[1] # j}
  /\ UNCHANGED <<result, lane, run, stopping, undone, mishaps>>

-----------------------------------------------------------------------------
LaneStep(l) ==
  \/ RequeueExpired(l) \/ Renew(l) \/ RunEnds(l) \/ LowDisk(l) \/ Abandon(l)
  \/ Record(l) \/ Refused(l) \/ RecordFails(l) \/ Shutdown(l)

Next ==
  \/ \E j \in Jobs : Enqueue(j) \/ Lapse(j) \/ Apply(j)
                     \/ \E l \in Lanes : Claim(l, j)
  \/ \E l \in Lanes : LaneStep(l)
  \/ \E w \in Workers : Stop(w) \/ Restart(w) \/ Crash(w)

Spec == Init /\ [][Next]_vars

\* The loop of a lane that is not told to stop.
LaneGoes(l) == RequeueExpired(l) \/ RunEnds(l) \/ Abandon(l) \/ Record(l) \/ Refused(l)

\* The lanes keep polling, every run ends (ffmpeg has a time limit), a lease nobody renews
\* lapses, and a stopped worker is started again.
Fairness ==
  /\ \A j \in Jobs : WF_vars(Lapse(j)) /\ SF_vars(\E l \in Lanes : Claim(l, j))
  /\ \A l \in Lanes : WF_vars(LaneGoes(l))
  /\ \A w \in Workers : WF_vars(Restart(w))

FairSpec == Spec /\ Fairness

-----------------------------------------------------------------------------
Statuses == {"absent", "queued", "running", "done", "failed", "applied"}

\* No job counts more attempts than its cap.
TypeOK ==
  /\ \A j \in Jobs :
       /\ job[j].status \in Statuses
       /\ job[j].attempts \in 0 .. MaxAttempts
       /\ job[j].lease \in {"free", "live", "lapsed"}
       /\ job[j].lease # "free" <=> job[j].status = "running"
  /\ result \in [Jobs -> 0 .. MaxAttempts]
  /\ \A l \in Lanes :
       /\ lane[l].job \in Jobs \cup {None}
       /\ lane[l].phase \in {"idle", "running"} \cup Recording
       /\ l \in Busy <=> lane[l].job # None
  /\ files \subseteq Jobs \X (1 .. MaxAttempts)
  /\ stopping \subseteq Workers
  /\ undone \subseteq Jobs

\* An attempt's output names belong to one run: no two lanes work on the same attempt of a
\* job, so a lane that removes "its" files never removes another's.  The one exception is a job
\* of which a late release for want of disk took back an attempt that was not its lane's own.
NoSharedFiles ==
  \A l, m \in Busy : l # m /\ lane[l].job \notin undone => Outputs(l) # Outputs(m)

\* A result that the API may adopt is still on disk: no stale lane, refused lane or
\* shutdown removed the file a done job names, with the same exception.
DoneHasFiles ==
  \A j \in Jobs \ undone : job[j].status = "done" => <<j, result[j]>> \in files

\* What the comment on the attempt's names says, without exception: an attempt whose lease was
\* lost never touches the re-claimer's files, so those of a done job stay.
ReclaimerKeepsFiles ==
  \A j \in Jobs : job[j].status = "done" => <<j, result[j]>> \in files

\* Every enqueued job is settled in the end: done or failed, whatever leases lapse,
\* statements fail and workers stop on the way.
EveryJobSettles ==
  \A j \in Jobs : job[j].status = "queued" ~> job[j].status \in {"done", "failed", "applied"}
=============================================================================
