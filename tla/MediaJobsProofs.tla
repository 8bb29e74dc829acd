-------------------------- MODULE MediaJobsProofs --------------------------
(***************************************************************************)
(* What holds of the media job queue and one worker process with any       *)
(* number of lanes and jobs, for any cap on the attempts and any number of *)
(* lapsed leases, failed statements, shutdowns and crashes.                *)
(*                                                                         *)
(* All lanes of the process have one id, so that the fence does not tell a *)
(* lane whose lease lapsed from the one that claimed its job after it.     *)
(* Their files stay apart as long as every claim counts an attempt that    *)
(* only its own lane gives back.  A stopping process may give back any     *)
(* attempt: it claims nothing until all of its lanes are idle.  What is    *)
(* left is a release for want of disk that comes after another lane's      *)
(* claim; of the jobs it hits (undone) nothing is promised.                *)
(***************************************************************************)
EXTENDS MediaJobs, TLAPS

\* As deployed: one worker process.
OneWorker == \A v, w \in Workers : v = w

\* The shape of the rows and of the lanes.
Row == [status : Statuses, attempts : 0 .. MaxAttempts,
        lockedBy : {<<>>} \cup (Workers \X Nat), lease : {"free", "live", "lapsed"}]
LaneState == [job : Jobs \cup {None}, attempt : 0 .. MaxAttempts,
              phase : {"idle", "running"} \cup Recording, lost : BOOLEAN]

QueueShape ==
  /\ job \in [Jobs -> Row]
  /\ lane \in [Lanes -> LaneState]
  /\ result \in [Jobs -> 0 .. MaxAttempts]
  /\ files \subseteq Jobs \X (1 .. MaxAttempts)
  /\ run \in [Workers -> Nat]
  /\ stopping \subseteq Workers
  /\ undone \subseteq Jobs

\* A row has a lease while it runs, a running one has an attempt, and a queued one has one left.
AttemptsCounted ==
  \A j \in Jobs :
    /\ job[j].lease # "free" <=> job[j].status = "running"
    /\ job[j].status = "running" => job[j].attempts >= 1
    /\ job[j].status = "queued" => job[j].attempts < MaxAttempts
    /\ job[j].status = "absent" => job[j].attempts = 0

\* A lane with a job has an attempt of it, one that is still counted unless the process is stopping
\* or another lane gave it back; a lane loses its lease while it runs.
LanesCounted ==
  \A l \in Lanes :
    /\ l \in Busy <=> lane[l].job # None
    /\ lane[l].lost => lane[l].phase = "running"
    /\ l \in Busy =>
         /\ lane[l].attempt >= 1
         /\ job[lane[l].job].status # "absent"
         /\ stopping = {} /\ lane[l].job \notin undone => lane[l].attempt <= job[lane[l].job].attempts

\* The file of a finished run is there until its job is settled, and nobody runs the attempt that
\* a done job names.
FilesKept ==
  \A l \in Busy : lane[l].job \notin undone =>
    /\ lane[l].phase = "finish" =>
         Outputs(l) \subseteq files \/ job[lane[l].job].status = "applied"
    /\ job[lane[l].job].status = "done" => lane[l].attempt # result[lane[l].job]

\* The inductive invariant.
QueueInv ==
  QueueShape /\ AttemptsCounted /\ LanesCounted /\ FilesKept /\ NoSharedFiles /\ DoneHasFiles

-----------------------------------------------------------------------------
\* The bounds are numbers, and nothing is called None.
LEMMA QueueConstants ==
  /\ MaxAttempts \in Nat /\ MaxAttempts >= 1
  /\ WorkerOf \in [Lanes -> Workers]
  /\ None \notin Jobs
  /\ 0 \in 0 .. MaxAttempts
BY QueueAssumption, NoneAssumption DEF QueueAssumption, NoneAssumption

\* The invariant holds of an empty queue.
LEMMA QueueInvInit == Init => QueueInv
BY QueueConstants DEF Init, QueueInv, QueueShape, Row, LaneState, AttemptsCounted, LanesCounted, FilesKept,
   NoSharedFiles, DoneHasFiles, Busy, Idle, Outputs, Statuses, None

\* The invariant gives the type.
LEMMA QueueInvTypes == QueueInv => TypeOK
<1> SUFFICES ASSUME QueueInv PROVE TypeOK
  OBVIOUS
<1>1. \A j \in Jobs : /\ job[j].status \in Statuses
                      /\ job[j].attempts \in 0 .. MaxAttempts
                      /\ job[j].lease \in {"free", "live", "lapsed"}
                      /\ job[j].lease # "free" <=> job[j].status = "running"
  BY DEF QueueInv, QueueShape, Row, AttemptsCounted
<1>2. \A l \in Lanes : /\ lane[l].job \in Jobs \cup {None}
                       /\ lane[l].phase \in {"idle", "running"} \cup Recording
                       /\ l \in Busy <=> lane[l].job # None
  BY DEF QueueInv, QueueShape, LaneState, LanesCounted
<1> QED BY <1>1, <1>2 DEF TypeOK, QueueInv, QueueShape

-----------------------------------------------------------------------------
(* What the actions do to rows and lanes *)

\* A row of the table moves without an attempt, an outcome or a settlement.
RowMoves(r, s) ==
  /\ s.attempts = r.attempts
  /\ s.lease # "free" <=> s.status = "running"
  /\ s.status = "running" => r.status = "running"
  /\ s.status = "queued" => s.attempts < MaxAttempts
  /\ s.status = "absent" => r.status = "absent"
  /\ s.status = "done" => r.status = "done"
  /\ r.status = "applied" => s.status = "applied"

\* Rows that move so keep the invariant, whatever the lanes hold.
LEMMA RowsKeep ==
  ASSUME QueueInv, job' \in [Jobs -> Row], UNCHANGED <<lane, result, files, run, stopping, undone>>,
         \A j \in Jobs : RowMoves(job[j], job'[j])
  PROVE  QueueInv'
<1> USE QueueConstants
<1>0. Busy' = Busy /\ \A l \in Busy : Outputs(l)' = Outputs(l)
  BY DEF Busy, Outputs
<1>1. \A j \in Jobs : job[j] \in Row /\ job'[j] \in Row
  BY DEF QueueInv, QueueShape
<1>2. QueueShape'
  BY DEF QueueInv, QueueShape
<1>3. AttemptsCounted'
  BY <1>1 DEF QueueInv, AttemptsCounted, RowMoves, Row
<1>4. \A l \in Busy : lane[l].job \in Jobs
  BY DEF QueueInv, QueueShape, LaneState, LanesCounted, Busy
<1>5. LanesCounted'
  BY <1>0, <1>1, <1>4 DEF QueueInv, LanesCounted, RowMoves
<1>6. FilesKept'
  BY <1>0, <1>4 DEF QueueInv, FilesKept, RowMoves
<1>7. NoSharedFiles'
  BY <1>0 DEF QueueInv, NoSharedFiles, Busy
<1>8. DoneHasFiles'
  BY DEF QueueInv, DoneHasFiles, RowMoves
<1> QED BY <1>2, <1>3, <1>5, <1>6, <1>7, <1>8 DEF QueueInv

\* A busy lane goes on with its attempt or becomes idle, touching no files but its attempt's.
LEMMA LaneKeeps ==
  ASSUME QueueInv, NEW l \in Busy, NEW x \in LaneState,
         lane' = [lane EXCEPT ![l] = x], UNCHANGED <<job, result, run, stopping, undone>>,
         \/ x = Idle
         \/ /\ x.job = lane[l].job /\ x.attempt = lane[l].attempt /\ x.phase # "idle"
            /\ x.lost => x.phase = "running",
         files' \in {files, files \cup Outputs(l), files \ Outputs(l)},
         x.phase = "finish" => Outputs(l) \subseteq files'
  PROVE  QueueInv'
<1> USE QueueConstants
<1>0. l \in Lanes /\ lane[l] \in LaneState /\ lane[l].job \in Jobs /\ lane[l].attempt \in 1 .. MaxAttempts
  BY DEF QueueInv, QueueShape, LaneState, LanesCounted, Busy
<1>1. lane'[l] = x /\ \A m \in Lanes : m # l => lane'[m] = lane[m]
  BY <1>0 DEF QueueInv, QueueShape
<1>2. Outputs(l) \subseteq Jobs \X (1 .. MaxAttempts)
  BY <1>0 DEF Outputs
<1>3. QueueShape'
  BY <1>0, <1>2 DEF QueueInv, QueueShape
<1>4. \A m \in Busy' : m \in Busy /\ Outputs(m)' = Outputs(m) /\ lane'[m].job = lane[m].job
                       /\ lane'[m].attempt = lane[m].attempt
  BY <1>1 DEF Busy, Outputs, Idle
<1>5. AttemptsCounted'
  BY DEF QueueInv, AttemptsCounted
<1>6. LanesCounted'
  BY <1>0, <1>1, None \notin Jobs DEF QueueInv, LanesCounted, Busy, Idle
<1>7. \A m \in Busy : m # l /\ lane[m].job \notin undone => Outputs(m) # Outputs(l)
  BY DEF QueueInv, NoSharedFiles
<1>8. FilesKept'
  <2> SUFFICES ASSUME NEW m \in Busy', lane[m].job \notin undone
               PROVE  /\ lane'[m].phase = "finish" =>
                           Outputs(m) \subseteq files' \/ job[lane[m].job].status = "applied"
                      /\ job[lane[m].job].status = "done" => lane[m].attempt # result[lane[m].job]
    BY <1>4 DEF FilesKept
  <2>1. m \in Busy /\ m \in Lanes
    BY <1>4 DEF Busy
  <2>2. CASE m = l
    BY <2>1, <2>2, <1>1 DEF QueueInv, FilesKept
  <2>3. CASE m # l
    <3>1. Outputs(m) \cap Outputs(l) = {}
      BY <2>1, <2>3, <1>7 DEF Outputs
    <3>2. lane'[m] = lane[m]
      BY <2>1, <2>3, <1>1
    <3> QED BY <3>1, <3>2, <2>1 DEF QueueInv, FilesKept
  <2> QED BY <2>2, <2>3
<1>9. NoSharedFiles'
  <2> SUFFICES ASSUME NEW m \in Busy', NEW n \in Busy', m # n, lane[m].job \notin undone
               PROVE  Outputs(m)' # Outputs(n)'
    BY <1>4 DEF NoSharedFiles
  <2> QED BY <1>4 DEF QueueInv, NoSharedFiles
<1>10. DoneHasFiles'
  <2> SUFFICES ASSUME NEW j \in Jobs \ undone, job[j].status = "done" PROVE <<j, result[j]>> \in files'
    BY DEF DoneHasFiles
  <2>1. <<j, result[j]>> \in files
    BY DEF QueueInv, DoneHasFiles
  <2>2. <<j, result[j]>> \notin Outputs(l)
    BY DEF QueueInv, FilesKept, Outputs
  <2> QED BY <2>1, <2>2
<1> QED BY <1>3, <1>5, <1>6, <1>8, <1>9, <1>10 DEF QueueInv

-----------------------------------------------------------------------------
(* The table *)

\* Enqueueing and a lapse move a row.
LEMMA RowActions ==
  ASSUME QueueInv, NEW j \in Jobs,
         Enqueue(j) \/ Lapse(j)
  PROVE  QueueInv'
<1> USE QueueConstants
<1>1. PICK r \in Row : job' = [job EXCEPT ![j] = r] /\ RowMoves(job[j], r)
  <2>1. job[j] \in Row /\ job \in [Jobs -> Row] /\ run \in [Workers -> Nat]
    BY DEF QueueInv, QueueShape
  <2>2. CASE Enqueue(j)
    <3>1. [job[j] EXCEPT !.status = "queued"] \in Row
      BY <2>1 DEF Row, Statuses
    <3>2. RowMoves(job[j], [job[j] EXCEPT !.status = "queued"])
      BY <2>1, <2>2 DEF Row, RowMoves, Enqueue, QueueInv, AttemptsCounted
    <3> QED BY <3>1, <3>2, <2>2 DEF Enqueue
  <2>4. CASE Lapse(j)
    <3>1. [job[j] EXCEPT !.lease = "lapsed"] \in Row
      BY <2>1 DEF Row
    <3>2. RowMoves(job[j], [job[j] EXCEPT !.lease = "lapsed"])
      BY <2>1, <2>4 DEF Row, RowMoves, Lapse, QueueInv, AttemptsCounted
    <3> QED BY <3>1, <3>2, <2>4 DEF Lapse
  <2> QED BY <2>2, <2>4
<1>2. job' \in [Jobs -> Row] /\ UNCHANGED <<lane, result, files, run, stopping, undone>>
  BY <1>1 DEF QueueInv, QueueShape, Enqueue, Lapse
<1>3. \A i \in Jobs : RowMoves(job[i], job'[i])
  BY <1>1 DEF QueueInv, QueueShape, RowMoves, AttemptsCounted
<1> QED BY <1>2, <1>3, RowsKeep

\* requeueExpired moves every lapsed row.
LEMMA RequeueKeeps ==
  ASSUME QueueInv, NEW l \in Lanes, RequeueExpired(l)
  PROVE  QueueInv'
<1> USE QueueConstants
<1>1. ASSUME NEW j \in Jobs PROVE job'[j] \in Row /\ RowMoves(job[j], job'[j])
  <2>1. job[j] \in Row
    BY DEF QueueInv, QueueShape
  <2>2. CASE j \in Lapsed
    <3>1. job'[j] = [job[j] EXCEPT !.status = Retried(job[j]), !.lease = "free"]
      BY <2>2 DEF RequeueExpired
    <3>2. Retried(job[j]) \in {"failed", "queued"} /\ (Retried(job[j]) = "queued" => job[j].attempts < MaxAttempts)
      BY <2>1 DEF Retried, Row
    <3> QED BY <2>1, <2>2, <3>1, <3>2 DEF Row, Statuses, RowMoves, Lapsed
  <2>3. CASE j \notin Lapsed
    BY <2>1, <2>3 DEF RequeueExpired, RowMoves, QueueInv, AttemptsCounted
  <2> QED BY <2>2, <2>3
<1>2. job' \in [Jobs -> Row] /\ UNCHANGED <<lane, result, files, run, stopping, undone>>
  BY <1>1 DEF RequeueExpired
<1> QED BY <1>1, <1>2, RowsKeep

-----------------------------------------------------------------------------
(* The lanes *)

\* A busy lane's state is a lane's, of a job.
LEMMA BusyLane ==
  ASSUME QueueInv, NEW l \in Busy
  PROVE  /\ l \in Lanes /\ lane[l] \in LaneState
         /\ lane[l].job \in Jobs /\ lane[l].attempt \in 1 .. MaxAttempts
         /\ Idle \in LaneState
BY QueueConstants DEF QueueInv, QueueShape, LaneState, LanesCounted, Busy, Idle

\* A renewal, the run's end, a lost lease, a refused or failed outcome and a shutdown's release
\* touch the lane and its own files.
LEMMA LaneActions ==
  ASSUME QueueInv, NEW l \in Lanes,
         \/ Renew(l) \/ RunEnds(l) \/ LowDisk(l) \/ Abandon(l) \/ Refused(l) \/ RecordFails(l)
         \/ Shutdown(l)
  PROVE  QueueInv'
<1> USE QueueConstants
<1>0. l \in Busy
  BY DEF Renew, RunEnds, LowDisk, Abandon, Refused, RecordFails, Shutdown, Busy, Recording, QueueInv, LanesCounted
<1> USE BusyLane, <1>0
<1>1. CASE Renew(l)
  <2> DEFINE j == lane[l].job
  <2>1. CASE /\ Fence(l, j) /\ job[j].lease = "lapsed"
             /\ job' = [job EXCEPT ![j].lease = "live"] /\ UNCHANGED lane
    <3>1. job[j] \in Row /\ job \in [Jobs -> Row]
      BY DEF QueueInv, QueueShape
    <3>2. job' \in [Jobs -> Row]
      BY <2>1, <3>1 DEF Row
    <3>3. \A i \in Jobs : RowMoves(job[i], job'[i])
      BY <2>1, <3>1 DEF QueueInv, AttemptsCounted, RowMoves, Fence, Row
    <3> QED BY <1>1, <2>1, <3>2, <3>3, RowsKeep DEF Renew
  <2>2. CASE lane' = [lane EXCEPT ![l].lost = TRUE] /\ UNCHANGED job
    <3> DEFINE x == [lane[l] EXCEPT !.lost = TRUE]
    <3>1. x \in LaneState
      BY DEF LaneState
    <3>2. x.job = lane[l].job /\ x.attempt = lane[l].attempt /\ x.phase = "running"
      BY <1>1 DEF Renew, LaneState
    <3>3. lane' = [lane EXCEPT ![l] = x]
      BY <2>2
    <3> HIDE DEF x
    <3> QED BY <1>1, <2>2, <3>1, <3>2, <3>3, LaneKeeps DEF Renew
  <2> QED BY <1>1, <2>1, <2>2 DEF Renew
<1>2. CASE RunEnds(l)
  <2>1. PICK p \in {"finish", "fail", "failFinal"} :
          /\ lane' = [lane EXCEPT ![l].phase = p]
          /\ files' = IF p = "finish" THEN files \cup Outputs(l) ELSE files \ Outputs(l)
    BY <1>2 DEF RunEnds
  <2> DEFINE x == [lane[l] EXCEPT !.phase = p]
  <2>2. x \in LaneState /\ x.job = lane[l].job /\ x.attempt = lane[l].attempt /\ x.phase = p /\ ~x.lost
    BY <1>2 DEF RunEnds, LaneState, Recording
  <2>3. lane' = [lane EXCEPT ![l] = x]
    BY <2>1
  <2> HIDE DEF x
  <2> QED BY <1>2, <2>1, <2>2, <2>3, LaneKeeps DEF RunEnds
<1>3. CASE Abandon(l) \/ Refused(l) \/ RecordFails(l)
  BY <1>3, Idle.phase = "idle", LaneKeeps DEF Abandon, Refused, RecordFails, Idle
<1>4. CASE Shutdown(l) \/ LowDisk(l)
  <2> DEFINE x == [lane[l] EXCEPT !.phase = "release"]
  <2>1. x \in LaneState /\ x.job = lane[l].job /\ x.attempt = lane[l].attempt /\ x.phase = "release" /\ ~x.lost
    BY <1>4 DEF Shutdown, LowDisk, LaneState, Recording
  <2>2. lane' = [lane EXCEPT ![l] = x]
    BY <1>4 DEF Shutdown, LowDisk
  <2> HIDE DEF x
  <2> QED BY <1>4, <2>1, <2>2, LaneKeeps DEF Shutdown, LowDisk
<1> QED BY <1>1, <1>2, <1>3, <1>4

\* A claim takes the next attempt, which no lane has unless another lane gave it back (undone).
LEMMA ClaimKeeps ==
  ASSUME OneWorker, QueueInv, NEW l \in Lanes, NEW j \in Jobs, Claim(l, j)
  PROVE  QueueInv'
<1> USE QueueConstants
<1> DEFINE n == job[j].attempts + 1
<1>1. stopping = {} /\ WorkerOf[l] \in Workers
  <2>1. WorkerOf[l] \in Workers
    OBVIOUS
  <2>2. WorkerOf[l] \notin stopping /\ stopping \subseteq Workers
    BY DEF Claim, QueueInv, QueueShape
  <2> QED BY <2>1, <2>2 DEF OneWorker
<1>2. job[j] \in Row /\ n \in 1 .. MaxAttempts
  <2>1. job[j] \in Row /\ job[j].attempts < MaxAttempts
    BY DEF Claim, QueueInv, QueueShape, AttemptsCounted
  <2>2. job[j].attempts \in 0 .. MaxAttempts
    BY <2>1 DEF Row
  <2> QED BY <2>1, <2>2
<1>3. /\ job'[j] = [status |-> "running", lockedBy |-> Id(l), attempts |-> n, lease |-> "live"]
      /\ \A i \in Jobs : i # j => job'[i] = job[i]
  BY DEF Claim, QueueInv, QueueShape
<1>4. /\ lane'[l] = [job |-> j, attempt |-> n, phase |-> "running", lost |-> FALSE]
      /\ \A m \in Lanes : m # l => lane'[m] = lane[m]
  BY DEF Claim, QueueInv, QueueShape
<1>5. Busy' = Busy \cup {l} /\ l \notin Busy /\ Busy \subseteq Lanes
  BY <1>4 DEF Claim, Busy
<1>6. UNCHANGED <<result, files, run, stopping, undone>> /\ job[j].status = "queued"
  BY DEF Claim
<1>7. /\ Outputs(l)' = {<<j, n>>} /\ lane'[l].job = j /\ lane'[l].attempt = n
      /\ \A m \in Busy : /\ Outputs(m)' = Outputs(m) /\ lane'[m] = lane[m]
                         /\ lane[m].job \in Jobs
                         /\ lane[m].job = j /\ j \notin undone => lane[m].attempt # n
  <2>1. \A m \in Busy : lane[m].job \in Jobs /\ lane[m].attempt \in Nat
    BY BusyLane
  <2>2. \A m \in Busy : lane[m].job = j /\ j \notin undone => lane[m].attempt <= job[j].attempts
    BY <1>1 DEF QueueInv, LanesCounted, Busy
  <2>3. job[j].attempts \in Nat
    BY <1>2 DEF Row
  <2> QED BY <1>4, <1>5, <2>1, <2>2, <2>3 DEF Outputs
<1> HIDE DEF n
<1>8. QueueShape'
  <2>1. job'[j] \in Row /\ lane'[l] \in LaneState
    BY <1>1, <1>2, <1>3, <1>4 DEF Row, LaneState, Statuses, Id, QueueInv, QueueShape
  <2>2. job' \in [Jobs -> Row]
    BY <2>1, <1>3 DEF Claim, QueueInv, QueueShape
  <2>3. lane' \in [Lanes -> LaneState]
    BY <2>1, <1>4 DEF Claim, QueueInv, QueueShape
  <2> QED BY <2>2, <2>3, <1>6 DEF QueueInv, QueueShape
<1>9. AttemptsCounted'
  BY <1>2, <1>3 DEF QueueInv, AttemptsCounted
<1>10. LanesCounted'
  <2> SUFFICES ASSUME NEW m \in Lanes
               PROVE  /\ m \in Busy' <=> lane'[m].job # None
                      /\ lane'[m].lost => lane'[m].phase = "running"
                      /\ m \in Busy' =>
                           /\ lane'[m].attempt >= 1
                           /\ job'[lane'[m].job].status # "absent"
                           /\ stopping' = {} /\ lane'[m].job \notin undone' => lane'[m].attempt <= job'[lane'[m].job].attempts
    BY DEF LanesCounted
  <2>1. CASE m = l
    BY <2>1, <1>2, <1>3, <1>4, <1>5
  <2>2. CASE m # l
    <3>1. lane'[m] = lane[m] /\ (m \in Busy' <=> m \in Busy)
      BY <2>2, <1>4, <1>5
    <3>2. ASSUME m \in Busy
          PROVE  /\ lane'[m].attempt >= 1
                 /\ job'[lane'[m].job].status # "absent"
                 /\ lane'[m].job \notin undone => lane'[m].attempt <= job'[lane'[m].job].attempts
      <4>1. /\ lane[m].job \in Jobs /\ lane[m].attempt >= 1 /\ job[lane[m].job].status # "absent"
            /\ lane[m].job \notin undone => lane[m].attempt <= job[lane[m].job].attempts
        BY <3>2, <1>1, <1>7 DEF QueueInv, LanesCounted
      <4>2. CASE lane[m].job = j
        <5>1. lane[m].attempt \in Nat /\ job[j].attempts \in Nat /\ n = job[j].attempts + 1
          BY <3>2, BusyLane, <1>2 DEF Row, n
        <5> QED BY <5>1, <4>1, <4>2, <3>1, <1>3
      <4>3. CASE lane[m].job # j
        BY <4>1, <4>3, <3>1, <1>3
      <4> QED BY <4>2, <4>3
    <3> QED BY <3>1, <3>2, <1>6 DEF QueueInv, LanesCounted
  <2> QED BY <2>1, <2>2
<1>11. FilesKept'
  <2> SUFFICES ASSUME NEW m \in Busy', lane'[m].job \notin undone
               PROVE  /\ lane'[m].phase = "finish" =>
                           Outputs(m)' \subseteq files \/ job'[lane'[m].job].status = "applied"
                      /\ job'[lane'[m].job].status = "done" => lane'[m].attempt # result[lane'[m].job]
    BY <1>6 DEF FilesKept
  <2>1. CASE m = l
    BY <2>1, <1>3, <1>4, <1>7
  <2>2. CASE m # l
    <3>1. m \in Busy /\ lane'[m] = lane[m] /\ Outputs(m)' = Outputs(m) /\ lane[m].job \in Jobs
      BY <2>2, <1>5, <1>7
    <3>2. CASE lane[m].job = j
      BY <3>1, <3>2, <1>3, <1>6 DEF QueueInv, FilesKept
    <3>3. CASE lane[m].job # j
      BY <3>1, <3>3, <1>3 DEF QueueInv, FilesKept
    <3> QED BY <3>2, <3>3
  <2> QED BY <2>1, <2>2
<1>12. NoSharedFiles'
  <2>1. ASSUME NEW m \in Busy, ~(lane[m].job = j /\ j \in undone) PROVE Outputs(m) # {<<j, n>>}
    <3>1. <<lane[m].job, lane[m].attempt>> # <<j, n>>
      BY <2>1, <1>7
    <3> QED BY <3>1 DEF Outputs
  <2> SUFFICES ASSUME NEW p \in Busy', NEW m \in Busy', p # m, lane'[p].job \notin undone
               PROVE  Outputs(p)' # Outputs(m)'
    BY <1>6 DEF NoSharedFiles
  <2>2. CASE p = l
    <3>1. m \in Busy /\ Outputs(m)' = Outputs(m) /\ j \notin undone
      BY <2>2, <1>5, <1>7
    <3> QED BY <3>1, <2>1, <2>2, <1>7
  <2>3. CASE m = l
    <3>1. p \in Busy /\ Outputs(p)' = Outputs(p) /\ lane[p].job \notin undone
      BY <2>3, <1>5, <1>7
    <3> QED BY <3>1, <2>1, <2>3, <1>7
  <2>4. CASE p # l /\ m # l
    <3>1. /\ p \in Busy /\ Outputs(p)' = Outputs(p) /\ lane[p].job \notin undone
          /\ m \in Busy /\ Outputs(m)' = Outputs(m)
      BY <2>4, <1>5, <1>7
    <3> QED BY <3>1 DEF QueueInv, NoSharedFiles
  <2> QED BY <2>2, <2>3, <2>4
<1>13. DoneHasFiles'
  BY <1>3, <1>6 DEF QueueInv, DoneHasFiles
<1> QED BY <1>8, <1>9, <1>10, <1>11, <1>12, <1>13 DEF QueueInv

\* The outcome's statement: a done job's file is the recording lane's own, and a release gives back
\* the lane's own attempt, or any attempt in a stopping process, or its job is undone.
LEMMA RecordKeeps ==
  ASSUME QueueInv, NEW l \in Lanes, Record(l)
  PROVE  QueueInv'
<1> USE QueueConstants
<1> DEFINE j == lane[l].job
           r == Outcome(l, j)
<1>0. l \in Busy
  BY DEF Record, Busy, Recording
<1>1. /\ j \in Jobs /\ lane[l].attempt \in 1 .. MaxAttempts /\ Idle \in LaneState
      /\ lane[l].phase \in Recording
  BY <1>0, BusyLane DEF Record
<1>2. /\ job[j] \in Row /\ job[j].status = "running"
      /\ job[j].attempts \in 1 .. MaxAttempts
  <2>1. job[j] \in Row /\ job[j].status = "running"
    BY <1>1 DEF Record, Fence, QueueInv, QueueShape
  <2>2. job[j].attempts >= 1 /\ job[j].attempts \in 0 .. MaxAttempts
    BY <1>1, <2>1 DEF QueueInv, AttemptsCounted, Row
  <2> QED BY <2>1, <2>2
<1>3. /\ r \in Row /\ r.lease = "free" /\ r.status \in {"done", "failed", "queued"}
      /\ r.status = "done" <=> lane[l].phase = "finish"
      /\ r.status = "queued" => r.attempts < MaxAttempts
      /\ \/ r.attempts = job[j].attempts \/ stopping # {} \/ j \in undone'
         \/ r.attempts = job[j].attempts - 1 /\ job[j].attempts = lane[l].attempt
  <2> DEFINE After(s, n) == [job[j] EXCEPT !.status = s, !.attempts = n, !.lease = "free"]
  <2>1. ASSUME NEW s \in {"done", "failed", "queued"}, NEW n \in 0 .. MaxAttempts
        PROVE  /\ After(s, n) \in Row /\ After(s, n).lease = "free"
               /\ After(s, n).status = s /\ After(s, n).attempts = n
    BY <1>2 DEF Row, Statuses
  <2>2. CASE lane[l].phase = "finish"
    <3>1. r = After("done", job[j].attempts)
      BY <2>2 DEF Outcome
    <3> HIDE DEF After, r
    <3> QED BY <3>1, <2>1, <2>2, <1>2
  <2>3. CASE lane[l].phase = "fail"
    <3>1. r = After(Retried(job[j]), job[j].attempts)
      BY <2>3 DEF Outcome
    <3>2. /\ Retried(job[j]) \in {"failed", "queued"}
          /\ Retried(job[j]) = "queued" => job[j].attempts < MaxAttempts
      BY <1>2 DEF Retried
    <3> HIDE DEF After, r
    <3> QED BY <3>1, <3>2, <2>1, <2>3, <1>2
  <2>4. CASE lane[l].phase = "failFinal"
    <3>1. r = After("failed", job[j].attempts)
      BY <2>4 DEF Outcome
    <3> HIDE DEF After, r
    <3> QED BY <3>1, <2>1, <2>4, <1>2
  <2>5. CASE lane[l].phase = "release"
    <3>1. r = After("queued", job[j].attempts - 1)
      BY <2>5 DEF Outcome
    <3>2. stopping # {} \/ j \in undone' \/ job[j].attempts = lane[l].attempt
      BY <2>5 DEF Record, Undoes
    <3>3. job[j].attempts - 1 \in 0 .. MaxAttempts /\ job[j].attempts - 1 < MaxAttempts
      BY <1>2
    <3> HIDE DEF After, r
    <3> QED BY <3>1, <3>2, <3>3, <2>1, <2>5
  <2> QED BY <1>1, <2>2, <2>3, <2>4, <2>5 DEF Recording
<1>4. /\ job' = [job EXCEPT ![j] = r]
      /\ result' = IF lane[l].phase = "finish" THEN [result EXCEPT ![j] = lane[l].attempt] ELSE result
      /\ lane' = [lane EXCEPT ![l] = Idle]
      /\ UNCHANGED <<files, run, stopping>> /\ undone \subseteq undone' /\ undone' \subseteq Jobs
  BY <1>1 DEF Record, QueueInv, QueueShape
<1> HIDE DEF r
<1>5. job'[j] = r /\ \A i \in Jobs : i # j => job'[i] = job[i]
  BY <1>1, <1>4 DEF QueueInv, QueueShape
<1>6. lane'[l] = Idle /\ \A m \in Lanes : m # l => lane'[m] = lane[m]
  BY <1>4 DEF QueueInv, QueueShape
<1>7. QueueShape'
  <2>1. job' \in [Jobs -> Row]
    BY <1>3, <1>4 DEF QueueInv, QueueShape
  <2>2. lane' \in [Lanes -> LaneState]
    BY <1>1, <1>4 DEF QueueInv, QueueShape
  <2>3. result' \in [Jobs -> 0 .. MaxAttempts]
    BY <1>1, <1>4 DEF QueueInv, QueueShape
  <2> QED BY <2>1, <2>2, <2>3, <1>4 DEF QueueInv, QueueShape
<1>8. Busy' = Busy \ {l} /\ Busy \subseteq Lanes
      /\ \A m \in Busy' : lane'[m] = lane[m] /\ Outputs(m)' = Outputs(m) /\ lane[m].job \in Jobs
  <2>1. Busy' = Busy \ {l} /\ Busy \subseteq Lanes
    BY <1>6 DEF Busy, Idle
  <2> QED BY <2>1, <1>6, BusyLane DEF Outputs
<1>9. AttemptsCounted'
  BY <1>3, <1>5 DEF QueueInv, AttemptsCounted
<1>10. LanesCounted'
  <2> SUFFICES ASSUME NEW m \in Lanes
               PROVE  /\ m \in Busy' <=> lane'[m].job # None
                      /\ lane'[m].lost => lane'[m].phase = "running"
                      /\ m \in Busy' =>
                           /\ lane'[m].attempt >= 1
                           /\ job'[lane'[m].job].status # "absent"
                           /\ stopping' = {} /\ lane'[m].job \notin undone' => lane'[m].attempt <= job'[lane'[m].job].attempts
    BY DEF LanesCounted
  <2>1. CASE m = l
    BY <2>1, <1>6, <1>8 DEF Idle
  <2>2. CASE m # l
    <3>1. lane'[m] = lane[m] /\ (m \in Busy' <=> m \in Busy)
      BY <2>2, <1>6, <1>8
    <3>2. ASSUME m \in Busy
          PROVE  /\ lane[m].attempt >= 1
                 /\ job'[lane[m].job].status # "absent"
                 /\ stopping = {} /\ lane[m].job \notin undone' =>
                      lane[m].attempt <= job'[lane[m].job].attempts
      <4>1. /\ lane[m].job \in Jobs /\ lane[m].attempt >= 1 /\ job[lane[m].job].status # "absent"
            /\ stopping = {} /\ lane[m].job \notin undone' =>
                 lane[m].attempt <= job[lane[m].job].attempts
        BY <3>1, <3>2, <1>4, <1>8 DEF QueueInv, LanesCounted
      <4>2. CASE lane[m].job = j
        <5>1. j \notin undone' => lane[m].attempt # lane[l].attempt
          BY <2>2, <3>2, <4>2, <1>0, <1>4 DEF QueueInv, NoSharedFiles, Outputs
        <5>2. lane[m].attempt \in Nat /\ job[j].attempts \in Nat
          BY <3>2, BusyLane, <1>2
        <5>3. stopping = {} /\ j \notin undone' => lane[m].attempt <= r.attempts
          BY <4>1, <4>2, <5>1, <5>2, <1>3
        <5> QED BY <4>1, <4>2, <5>3, <1>3, <1>5
      <4>3. CASE lane[m].job # j
        BY <4>1, <4>3, <1>5
      <4> QED BY <4>2, <4>3
    <3> QED BY <3>1, <3>2, <1>4 DEF QueueInv, LanesCounted
  <2> QED BY <2>1, <2>2
<1>11. FilesKept'
  <2> SUFFICES ASSUME NEW m \in Busy', lane'[m].job \notin undone'
               PROVE  /\ lane'[m].phase = "finish" =>
                           Outputs(m)' \subseteq files' \/ job'[lane'[m].job].status = "applied"
                      /\ job'[lane'[m].job].status = "done" => lane'[m].attempt # result'[lane'[m].job]
    BY DEF FilesKept
  <2>1. /\ m \in Busy /\ m # l /\ lane'[m] = lane[m] /\ Outputs(m)' = Outputs(m)
        /\ lane[m].job \in Jobs /\ lane[m].job \notin undone
    BY <1>4, <1>8
  <2>2. CASE lane[m].job = j
    <3>1. lane[m].attempt # lane[l].attempt
      BY <2>1, <2>2, <1>0 DEF QueueInv, NoSharedFiles, Outputs
    <3>2. lane[m].phase = "finish" => Outputs(m) \subseteq files
      BY <2>1, <2>2, <1>2 DEF QueueInv, FilesKept
    <3>3. r.status = "done" => result'[j] = lane[l].attempt
      BY <1>1, <1>3, <1>4 DEF QueueInv, QueueShape
    <3> QED BY <3>1, <3>2, <3>3, <2>1, <2>2, <1>4, <1>5
  <2>3. CASE lane[m].job # j
    <3>1. job'[lane[m].job] = job[lane[m].job] /\ result'[lane[m].job] = result[lane[m].job]
      BY <2>1, <2>3, <1>4, <1>5 DEF QueueInv, QueueShape
    <3> QED BY <3>1, <2>1, <1>4 DEF QueueInv, FilesKept
  <2> QED BY <2>2, <2>3
<1>12. NoSharedFiles'
  <2> SUFFICES ASSUME NEW m \in Busy', NEW p \in Busy', m # p, lane'[m].job \notin undone'
               PROVE  Outputs(m)' # Outputs(p)'
    BY DEF NoSharedFiles
  <2>1. m \in Busy /\ p \in Busy /\ lane[m].job \notin undone
    BY <1>4, <1>8
  <2> QED BY <2>1, <1>8 DEF QueueInv, NoSharedFiles
<1>13. DoneHasFiles'
  <2> SUFFICES ASSUME NEW i \in Jobs \ undone', job'[i].status = "done" PROVE <<i, result'[i]>> \in files
    BY <1>4 DEF DoneHasFiles
  <2>1. CASE i = j
    <3>1. lane[l].phase = "finish" /\ result'[j] = lane[l].attempt
      BY <2>1, <1>1, <1>3, <1>4, <1>5 DEF QueueInv, QueueShape
    <3>2. Outputs(l) \subseteq files
      BY <2>1, <3>1, <1>0, <1>2, <1>4 DEF QueueInv, FilesKept
    <3> QED BY <2>1, <3>1, <3>2 DEF Outputs
  <2>2. CASE i # j
    BY <2>2, <1>4, <1>5 DEF QueueInv, DoneHasFiles, QueueShape
  <2> QED BY <2>1, <2>2
<1> QED BY <1>7, <1>9, <1>10, <1>11, <1>12, <1>13 DEF QueueInv

-----------------------------------------------------------------------------
(* The process and the API *)

\* A stop only ends the claims; a restart and a crash find or leave every lane idle.
LEMMA WorkerKeeps ==
  ASSUME OneWorker, QueueInv, NEW w \in Workers, Stop(w) \/ Restart(w) \/ Crash(w)
  PROVE  QueueInv'
<1> USE QueueConstants
<1>1. UNCHANGED <<job, result, undone>> /\ files \subseteq files' /\ stopping' \subseteq Workers
  BY DEF Stop, Restart, Crash, QueueInv, QueueShape
<1>2. AttemptsCounted' /\ DoneHasFiles'
  BY <1>1 DEF QueueInv, AttemptsCounted, DoneHasFiles
<1>3. CASE Stop(w)
  <2>1. UNCHANGED <<lane, files, run>> /\ stopping' # {} /\ Busy' = Busy
    BY <1>3 DEF Stop, Busy
  <2>2. \A l \in Busy : Outputs(l)' = Outputs(l)
    BY <2>1 DEF Outputs
  <2>3. QueueShape'
    BY <1>1, <2>1 DEF QueueInv, QueueShape
  <2>4. LanesCounted'
    BY <1>1, <2>1 DEF QueueInv, LanesCounted
  <2>5. FilesKept' /\ NoSharedFiles'
    BY <1>1, <2>1, <2>2 DEF QueueInv, FilesKept, NoSharedFiles
  <2> QED BY <1>2, <2>3, <2>4, <2>5 DEF QueueInv
<1>4. CASE Restart(w) \/ Crash(w)
  <2>1. \A l \in Lanes : WorkerOf[l] = w
    BY DEF OneWorker
  <2>2. Busy' = {}
    <3>1. CASE Restart(w)
      BY <2>1, <3>1 DEF Restart, LanesOf, Busy
    <3>2. CASE Crash(w)
      BY <2>1, <3>2 DEF Crash, Busy, Idle
    <3> QED BY <1>4, <3>1, <3>2
  <2>3. Idle \in LaneState
    BY DEF Idle, LaneState
  <2>4. lane' \in [Lanes -> LaneState] /\ run' \in [Workers -> Nat]
    BY <1>4, <2>3 DEF Restart, Crash, QueueInv, QueueShape
  <2>5. files' \subseteq Jobs \X (1 .. MaxAttempts)
    <3>1. \A l \in Busy : Outputs(l) \subseteq Jobs \X (1 .. MaxAttempts)
      BY BusyLane DEF Outputs
    <3>2. files \subseteq Jobs \X (1 .. MaxAttempts)
      BY DEF QueueInv, QueueShape
    <3> QED BY <1>4, <3>1, <3>2 DEF Restart, Crash
  <2>6. QueueShape'
    BY <1>1, <2>4, <2>5 DEF QueueInv, QueueShape
  <2>7. LanesCounted'
    <3>1. \A l \in Lanes : lane'[l] = lane[l] \/ lane'[l] = Idle
      BY <1>4 DEF Restart, Crash
    <3>2. \A l \in Lanes : lane'[l].phase = "idle"
      BY <2>2 DEF Busy
    <3>3. \A l \in Lanes : lane[l].phase = "idle" => lane[l].job = None /\ ~lane[l].lost
      BY DEF QueueInv, QueueShape, LaneState, LanesCounted, Busy
    <3>4. \A l \in Lanes : lane'[l].job = None /\ ~lane'[l].lost
      BY <3>1, <3>2, <3>3 DEF Idle
    <3> QED BY <2>2, <3>2, <3>4 DEF LanesCounted
  <2>8. FilesKept' /\ NoSharedFiles'
    BY <2>2 DEF FilesKept, NoSharedFiles
  <2> QED BY <1>2, <2>6, <2>7, <2>8 DEF QueueInv
<1> QED BY <1>3, <1>4

\* A settled job's files go with it; a lane that is still at it is refused later.
LEMMA ApplyKeeps ==
  ASSUME QueueInv, NEW j \in Jobs, Apply(j)
  PROVE  QueueInv'
<1> USE QueueConstants
<1>1. UNCHANGED <<result, lane, run, stopping, undone>> /\ files' = {f \in files : f[1] # j}
  BY DEF Apply
<1>2. job[j] \in Row /\ job[j].status \in {"done", "failed"}
  BY DEF Apply, QueueInv, QueueShape
<1>3. /\ job'[j] = [job[j] EXCEPT !.status = "applied"]
      /\ \A i \in Jobs : i # j => job'[i] = job[i]
  BY DEF Apply, QueueInv, QueueShape
<1>4. job'[j] \in Row /\ job'[j].status = "applied" /\ job'[j].attempts = job[j].attempts
      /\ job'[j].lease = job[j].lease
  BY <1>2, <1>3 DEF Row, Statuses
<1>5. Busy' = Busy /\ \A l \in Busy : Outputs(l)' = Outputs(l) /\ lane[l].job \in Jobs
  BY <1>1, BusyLane DEF Busy, Outputs
<1>6. QueueShape'
  <2>1. job' \in [Jobs -> Row]
    BY <1>3, <1>4 DEF Apply, QueueInv, QueueShape
  <2> QED BY <2>1, <1>1 DEF QueueInv, QueueShape
<1>7. AttemptsCounted'
  <2>1. job'[j].lease = "free" /\ job'[j].status = "applied"
    BY <1>2, <1>4 DEF QueueInv, AttemptsCounted
  <2> SUFFICES ASSUME NEW i \in Jobs
               PROVE  /\ job'[i].lease # "free" <=> job'[i].status = "running"
                      /\ job'[i].status = "running" => job'[i].attempts >= 1
                      /\ job'[i].status = "queued" => job'[i].attempts < MaxAttempts
                      /\ job'[i].status = "absent" => job'[i].attempts = 0
    BY DEF AttemptsCounted
  <2>2. CASE i = j
    BY <2>1, <2>2
  <2>3. CASE i # j
    BY <2>3, <1>3 DEF QueueInv, AttemptsCounted
  <2> QED BY <2>2, <2>3
<1>8. \A i \in Jobs : /\ job'[i].attempts = job[i].attempts
                      /\ job'[i].status # job[i].status => i = j
  BY <1>3, <1>4
<1>9. LanesCounted'
  <2>1. \A l \in Busy : /\ job[lane[l].job].status # "absent" => job'[lane[l].job].status # "absent"
                        /\ job'[lane[l].job].attempts = job[lane[l].job].attempts
    BY <1>4, <1>5, <1>8
  <2> QED BY <2>1, <1>1, <1>5 DEF QueueInv, LanesCounted
<1>10. FilesKept'
  <2> SUFFICES ASSUME NEW l \in Busy, lane[l].job \notin undone
               PROVE  /\ lane[l].phase = "finish" =>
                           Outputs(l) \subseteq files' \/ job'[lane[l].job].status = "applied"
                      /\ job'[lane[l].job].status = "done" => lane[l].attempt # result[lane[l].job]
    BY <1>1, <1>5 DEF FilesKept
  <2>1. CASE lane[l].job = j
    BY <2>1, <1>4
  <2>2. CASE lane[l].job # j
    <3>1. Outputs(l) \subseteq files => Outputs(l) \subseteq files'
      BY <2>2, <1>1 DEF Outputs
    <3> QED BY <2>2, <3>1, <1>3, <1>5 DEF QueueInv, FilesKept
  <2> QED BY <2>1, <2>2
<1>11. NoSharedFiles'
  BY <1>1, <1>5 DEF QueueInv, NoSharedFiles
<1>12. DoneHasFiles'
  BY <1>1, <1>3, <1>4 DEF QueueInv, DoneHasFiles
<1> QED BY <1>6, <1>7, <1>9, <1>10, <1>11, <1>12 DEF QueueInv

-----------------------------------------------------------------------------
\* Steps that change nothing keep everything.
LEMMA StutterKeeps == QueueInv /\ UNCHANGED vars => QueueInv'
BY DEF vars, QueueInv, QueueShape, AttemptsCounted, LanesCounted, FilesKept, NoSharedFiles,
   DoneHasFiles, Busy, Outputs

\* The invariant holds in every reachable state of one worker.
LEMMA QueueInvAlways ==
  ASSUME OneWorker
  PROVE  Spec => []QueueInv
<1>1. QueueInv /\ [Next]_vars => QueueInv'
  <2> SUFFICES ASSUME QueueInv, [Next]_vars PROVE QueueInv'
    OBVIOUS
  <2>1. ASSUME NEW j \in Jobs, Enqueue(j) \/ Lapse(j) PROVE QueueInv'
    BY <2>1, RowActions
  <2>2. ASSUME NEW j \in Jobs, Apply(j) PROVE QueueInv'
    BY <2>2, ApplyKeeps
  <2>3. ASSUME NEW j \in Jobs, NEW l \in Lanes, Claim(l, j) PROVE QueueInv'
    BY <2>3, ClaimKeeps
  <2>4. ASSUME NEW l \in Lanes, LaneStep(l) PROVE QueueInv'
    BY <2>4, RequeueKeeps, LaneActions, RecordKeeps DEF LaneStep
  <2>5. ASSUME NEW w \in Workers, Stop(w) \/ Restart(w) \/ Crash(w) PROVE QueueInv'
    BY <2>5, WorkerKeeps
  <2> QED BY <2>1, <2>2, <2>3, <2>4, <2>5, StutterKeeps DEF Next
<1> QED BY QueueInvInit, <1>1, PTL DEF Spec

\* The queue of one worker (media-worker/src/main.ts), whatever its number of lanes: the rows, the
\* lanes and the files are well typed, and no job is attempted more often than the cap allows.
THEOREM QueueTyped == OneWorker => (Spec => []TypeOK)
<1> SUFFICES ASSUME OneWorker PROVE Spec => []TypeOK
  OBVIOUS
<1> QED BY QueueInvAlways, QueueInvTypes, PTL

\* The attempt's file names (media-worker/src/output.ts): no two lanes of the worker ever work on one
\* attempt, although the fence does not tell its lanes apart and leases lapse under them, unless a
\* late release for want of disk took back another lane's attempt of that job.
THEOREM LanesOwnFiles == OneWorker => (Spec => []NoSharedFiles)
<1> SUFFICES ASSUME OneWorker PROVE Spec => []NoSharedFiles
  OBVIOUS
<1>1. QueueInv => NoSharedFiles
  BY DEF QueueInv
<1> QED BY QueueInvAlways, <1>1, PTL

\* What the apply pass relies on: the file that a done job names is on disk, whatever stale lanes,
\* refused outcomes, shutdowns and crashes clean up, unless a late release for want of disk took back
\* another lane's attempt of that job.
THEOREM ResultsKept == OneWorker => (Spec => []DoneHasFiles)
<1> SUFFICES ASSUME OneWorker PROVE Spec => []DoneHasFiles
  OBVIOUS
<1>1. QueueInv => DoneHasFiles
  BY DEF QueueInv
<1> QED BY QueueInvAlways, <1>1, PTL
=============================================================================
