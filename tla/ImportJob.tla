------------------------------ MODULE ImportJob ------------------------------
(***************************************************************************)
(* The record of one log import job in the shared key-value store, its     *)
(* runner in one process, and the status polls of any process.             *)
(*                                                                         *)
(* The runner keeps the record it wants stored and writes it whole, one    *)
(* write at a time in the order of its changes, each by comparing with the *)
(* value it last wrote.  A write may fail, its answer may be lost, and it  *)
(* may land after the runner gave up on it.  A poll that finds a live      *)
(* record whose heartbeat is too old swaps it to failed.                   *)
(*                                                                         *)
(* The age of a stored record, or of one on its way, is the time since its *)
(* heartbeat, cut off once the record is stale on every clock; the local   *)
(* copies have none.                                                       *)
(***************************************************************************)
EXTENDS Naturals, Sequences

CONSTANTS Sheets,      \* number of sheets of the workbook
          Polls,       \* processes that answer status polls
          StaleAfter,  \* STALE_JOB_AFTER_MS
          LandBound,   \* how long after its heartbeat a write can still land
          Skew,        \* how far a poll's clock is ahead of the runner's
          MaxBeats,    \* bound: heartbeats of the runner
          MaxFaults    \* bound: writes that fail

ASSUME JobAssumption ==
  /\ Sheets \in Nat /\ StaleAfter \in Nat /\ LandBound \in Nat /\ Skew \in Nat
  /\ MaxBeats \in Nat /\ MaxFaults \in Nat
  /\ LandBound + Skew <= StaleAfter

VARIABLES
  record,   \* the stored record, or Gone
  local,    \* the record the runner wants stored
  last,     \* the value its last successful write stored
  chain,    \* its changes not yet written, in order
  sent,     \* the record of its write in flight, or Gone
  late,     \* given-up writes that may still land: what they expect and store
  lostJob,  \* it found its record changed by another writer
  runner,   \* working, ending (its chain drains), done or dead
  todo,     \* sheets left
  logged,   \* history: the progress lines it logged
  poll,     \* per poll: where it is and the value it read
  said,     \* per poll: its latest answer
  beats, faults

jobVars == <<record, local, last, chain, sent, late, lostJob, runner, todo, logged, poll, said,
             beats, faults>>

Gone == [status |-> "gone", seq |-> 0, lines |-> 0, age |-> 0]
\* "stale" is failed with STALE_JOB_ERROR.
Final == {"completed", "failed", "stale"}
OldAge == StaleAfter + 1

\* The stored text of a record.
Text(r) == <<r.status, r.seq, r.lines>>
Fresh(r) == [r EXCEPT !.age = 0]
Aged(r) == IF r = Gone \/ r.age = OldAge THEN r ELSE [r EXCEPT !.age = @ + 1]

-----------------------------------------------------------------------------
\* The job as created, its first status change queued.
JobInit ==
  /\ record = [status |-> "queued", seq |-> 0, lines |-> 0, age |-> 0]
  /\ local = record /\ last = record
  /\ chain = <<"running">>
  /\ sent = Gone /\ late = {}
  /\ lostJob = FALSE
  /\ runner = "working" /\ todo = Sheets /\ logged = 0
  /\ poll = [p \in Polls |-> [at |-> "idle", saw |-> Gone, tries |-> 0]]
  /\ said = [p \in Polls |-> "nothing"]
  /\ beats = 0 /\ faults = 0

\* A sheet, imported, skipped or failed: its progress is logged.
ImportSheet ==
  /\ runner = "working" /\ todo > 0 /\ ~lostJob
  /\ todo' = todo - 1
  /\ chain' = Append(chain, "line")
  /\ logged' = logged + 1
  /\ UNCHANGED <<record, local, last, sent, late, lostJob, runner, poll, said, beats, faults>>

\* The import is over, or access was revoked, or an error ended it.
EndImport ==
  /\ runner = "working"
  /\ runner' = "ending"
  /\ \E end \in {"completed", "failed"} :
       /\ end = "completed" => todo = 0
       /\ chain' = chain \o <<"line", end>>
  /\ logged' = logged + 1
  /\ UNCHANGED <<record, local, last, sent, late, lostJob, todo, poll, said, beats, faults>>

\* Before a sheet the runner sees that its job is lost, and stops.
StopLost ==
  /\ runner = "working" /\ todo > 0 /\ lostJob
  /\ runner' = "ending"
  /\ UNCHANGED <<record, local, last, chain, sent, late, lostJob, todo, logged, poll, said,
                 beats, faults>>

\* release: once the chain has drained the local state is forgotten and the heartbeat ends.
Released ==
  /\ runner = "ending" /\ chain = <<>> /\ sent = Gone
  /\ runner' = "done"
  /\ UNCHANGED <<record, local, last, chain, sent, late, lostJob, todo, logged, poll, said,
                 beats, faults>>

Heartbeat ==
  /\ runner \in {"working", "ending"} /\ beats < MaxBeats
  /\ chain' = Append(chain, "beat")
  /\ beats' = beats + 1
  /\ UNCHANGED <<record, local, last, sent, late, lostJob, runner, todo, logged, poll, said,
                 faults>>

\* The process dies; its write in flight may still land.
JobCrash ==
  /\ runner \in {"working", "ending"}
  /\ runner' = "dead"
  /\ chain' = <<>>
  /\ sent' = Gone
  /\ \/ UNCHANGED late
     \/ sent # Gone /\ late' = late \cup {[expects |-> last, stores |-> sent]}
  /\ UNCHANGED <<record, local, last, lostJob, todo, logged, poll, said, beats, faults>>

-----------------------------------------------------------------------------
\* A change applied to the local record.
Changed(r, change) ==
  CASE change = "line" -> [r EXCEPT !.lines = @ + 1]
    [] change = "beat" -> r
    [] OTHER -> [r EXCEPT !.status = change]

\* The next change of the chain: dropped on a lost job, nothing for a heartbeat once the local
\* record is final, else applied and written with the next sequence number.
Write ==
  /\ chain # <<>> /\ sent = Gone
  /\ chain' = Tail(chain)
  /\ IF lostJob \/ (Head(chain) = "beat" /\ local.status \in Final)
     THEN UNCHANGED <<local, sent>>
     ELSE /\ local' = Changed(local, Head(chain))
          /\ sent' = [local' EXCEPT !.seq = @ + 1]
  /\ UNCHANGED <<record, last, late, lostJob, runner, todo, logged, poll, said, beats, faults>>

\* Mutant: the write is a plain put.
MutSwaps(expected) == record # Gone

\* replaceIf: one conditional UPDATE on the stored text.
Swaps(expected) == record # Gone /\ Text(record) = Text(expected)

\* The write is answered: stored, or another writer changed the record.
Written ==
  /\ sent # Gone
  /\ IF Swaps(last)
     THEN record' = sent /\ local' = Fresh(sent) /\ last' = local' /\ UNCHANGED lostJob
     ELSE lostJob' = TRUE /\ UNCHANGED <<record, local, last>>
  /\ sent' = Gone
  /\ UNCHANGED <<chain, late, runner, todo, logged, poll, said, beats, faults>>

\* Mutant: a failed write takes its change back.
MutWriteFails ==
  /\ sent # Gone /\ faults < MaxFaults
  /\ faults' = faults + 1
  /\ sent' = Gone
  /\ local' = last
  /\ late' \in {late, late \cup {[expects |-> last, stores |-> sent]}}
  /\ UNCHANGED <<record, last, chain, lostJob, runner, todo, logged, poll, said, beats>>

\* The write fails: it never lands, or may land later, at once included.  The local record
\* keeps its change for the next write.
WriteFails ==
  /\ sent # Gone /\ faults < MaxFaults
  /\ faults' = faults + 1
  /\ sent' = Gone
  /\ late' \in {late, late \cup {[expects |-> last, stores |-> sent]}}
  /\ UNCHANGED <<record, local, last, chain, lostJob, runner, todo, logged, poll, said, beats>>

LateLands ==
  \E w \in late :
    /\ late' = late \ {w}
    /\ record' = IF Swaps(w.expects) THEN w.stores ELSE record
    /\ UNCHANGED <<local, last, chain, sent, lostJob, runner, todo, logged, poll, said, beats,
                   faults>>

-----------------------------------------------------------------------------
Answer(p, status) ==
  /\ said' = [said EXCEPT ![p] = status]
  /\ poll' = [poll EXCEPT ![p] = [at |-> "idle", saw |-> Gone, tries |-> 0]]

\* Mutant: only a running job can have stopped.
MutStaleOn(r, ahead) == r.status = "running" /\ r.age + ahead > StaleAfter

\* The record's heartbeat is too old on the poll's clock.
StaleOn(r, ahead) == r.status \notin Final /\ r.age + ahead > StaleAfter

\* What a poll makes of a record whose runner looks stopped.
Stopped(r) == [status |-> "stale", seq |-> r.seq + 1, lines |-> r.lines, age |-> r.age]

\* get: the record is read, and reported unless it is stale.
PollReads(p) ==
  /\ poll[p].at \in {"idle", "again"}
  /\ \/ record = Gone /\ Answer(p, "gone")
     \/ /\ record # Gone
        /\ \E ahead \in 0 .. Skew :
             IF StaleOn(record, ahead)
             THEN /\ poll' = [poll EXCEPT ![p] = [at |-> "swap", saw |-> Fresh(record),
                                                  tries |-> @.tries + 1]]
                  /\ UNCHANGED said
             ELSE Answer(p, record.status)
  /\ UNCHANGED <<record, local, last, chain, sent, late, lostJob, runner, todo, logged, beats,
                 faults>>

\* A stale record is swapped to failed; if another writer changed it meanwhile it is read a
\* second time, and after a second failure the job reads as unknown.
PollSwaps(p) ==
  /\ poll[p].at = "swap"
  /\ IF Swaps(poll[p].saw)
     THEN /\ record' = Stopped(poll[p].saw)
          /\ Answer(p, "stale")
     ELSE /\ UNCHANGED record
          /\ IF poll[p].tries < 2
             THEN /\ poll' = [poll EXCEPT ![p] = [at |-> "again", saw |-> Gone, tries |-> 1]]
                  /\ UNCHANGED said
             ELSE Answer(p, "gone")
  /\ UNCHANGED <<local, last, chain, sent, late, lostJob, runner, todo, logged, beats, faults>>

\* A final record expires an hour later; a live one two hours after its last write.
Expire ==
  /\ record # Gone
  /\ record.status \in Final \/ (record.age = OldAge /\ runner \notin {"working", "ending"})
  /\ record' = Gone
  /\ UNCHANGED <<local, last, chain, sent, late, lostJob, runner, todo, logged, poll, said,
                 beats, faults>>

\* Time passes.  A write in flight or given up lands before LandBound, and a poll's second
\* read follows at once.
JobTick ==
  /\ sent # Gone => sent.age < LandBound
  /\ \A w \in late : w.stores.age < LandBound
  /\ \A p \in Polls : poll[p].at # "again"
  /\ record' = Aged(record)
  /\ sent' = Aged(sent)
  /\ late' = {[w EXCEPT !.stores = Aged(@)] : w \in late}
  /\ UNCHANGED <<local, last, chain, lostJob, runner, todo, logged, poll, said, beats, faults>>

JobNext ==
  \/ ImportSheet \/ EndImport \/ StopLost \/ Released \/ Heartbeat \/ JobCrash
  \/ Write \/ Written \/ WriteFails \/ LateLands
  \/ \E p \in Polls : PollReads(p) \/ PollSwaps(p)
  \/ Expire \/ JobTick

JobSpec == JobInit /\ [][JobNext]_jobVars

\* The runner goes on, the database answers a write or fails it, time passes, and the page polls.
JobFairness ==
  /\ WF_jobVars(ImportSheet) /\ WF_jobVars(EndImport) /\ WF_jobVars(StopLost)
  /\ WF_jobVars(Released) /\ WF_jobVars(Write) /\ WF_jobVars(Written \/ WriteFails)
  /\ WF_jobVars(LateLands) /\ WF_jobVars(JobTick)
  /\ \A p \in Polls : WF_jobVars(PollReads(p)) /\ WF_jobVars(PollSwaps(p))

-----------------------------------------------------------------------------
Records(statuses) ==
  [status : statuses, seq : Nat, lines : Nat, age : 0 .. OldAge]

JobTypeOK ==
  /\ record \in {Gone} \cup Records({"queued", "running"} \cup Final)
  /\ local \in {Gone} \cup Records({"queued", "running", "completed", "failed"})
  /\ last \in {Gone} \cup Records({"queued", "running", "completed", "failed"})
  /\ chain \in Seq({"running", "line", "beat", "completed", "failed"})
  /\ sent \in {Gone} \cup Records({"queued", "running", "completed", "failed"})
  /\ lostJob \in BOOLEAN
  /\ runner \in {"working", "ending", "done", "dead"}
  /\ todo \in 0 .. Sheets /\ logged \in Nat
  /\ said \in [Polls -> {"nothing", "gone", "queued", "running"} \cup Final]

\* The stored record only moves on, whoever writes it and whatever writes fail or land late:
\* once final its outcome never changes, progress lines are never taken back, and every change
\* of the text takes the next sequence number.
RecordMovesOn ==
  [][/\ record = Gone => record' = Gone
     /\ record # Gone /\ record' # Gone /\ Text(record') # Text(record) =>
          /\ record.status \notin Final
          /\ record'.seq = record.seq + 1
          /\ record'.lines >= record.lines
          /\ record'.status = "queued" => record.status = "queued"]_record

\* A job that the runner ended shows all of its progress lines, those included whose own write
\* failed, and reads completed only when every sheet was handled.
EndIsWhole ==
  record.status \in {"completed", "failed"} =>
    /\ record.lines = logged
    /\ record.status = "completed" => todo = 0

\* Whatever the runner does, its death included, and whatever writes fail: a page that keeps
\* polling is told how the job ended, and stays told.
JobReported ==
  \A p \in Polls : <>[](said[p] \in Final \cup {"gone"})
=============================================================================
