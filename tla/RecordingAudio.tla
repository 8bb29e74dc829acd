--------------------------- MODULE RecordingAudio ---------------------------
(***************************************************************************)
(* The audio of one recording: live chunks uploaded window by window, the  *)
(* ingest that converts a WAV chunk, and the merge that replaces the       *)
(* chunks by one file.  Blobs live in a file system, rows and jobs in      *)
(* PostgreSQL, and no step covers both: each operation below is the        *)
(* sequence of its file system steps and its one session transaction.      *)
(*                                                                         *)
(* One API process runs the handlers, interleaved, and may crash; the      *)
(* media worker (module MediaJobs) appears as the results it leaves.  The  *)
(* ingest of other formats changes peaks and durations only and is left    *)
(* out.  A segment's id is its upload's or its merge job's.                *)
(***************************************************************************)
EXTENDS Integers, FiniteSets

CONSTANTS Windows, Uploads, Merges,
          WindowOf,                      \* the window a chunk upload carries
          Wav,                           \* the uploads whose bytes are a WAV
          MaxSyncs, MaxCrashes, MaxLost, MaxRuns,
            \* bounds: sync-from-disk calls, crashes, lost commit answers, generation runs
          LongOutages                    \* whether a crash may last over the orphan age (1 h)

ASSUME RecordingAssumption ==
  /\ WindowOf \in [Uploads -> Windows]
  /\ Wav \subseteq Uploads /\ Uploads \cap Merges = {}
  /\ MaxSyncs \in Nat /\ MaxCrashes \in Nat /\ MaxLost \in Nat /\ MaxRuns \in Nat
  /\ LongOutages \in BOOLEAN

NoId == "none"
ASSUME NoIdAssumption == NoId \notin Uploads \cup Merges \cup Windows

VARIABLES
  blobs,     \* the keys under audio/
  dirs,      \* the jobs whose result file is in media/
  segment,       \* per segment id: its key and whether it belongs to the recording, or NoRow
  seam,      \* per window: the segment that holds it, or None
  waiting,   \* the windows a pending finalize waits for
  blocked,   \* the segment set whose merge failed for good
  job,       \* per merge job: its status
  inputs,    \* per merge job: the segments its worker read
  holds,     \* per merge job: the windows of the audio its worker read
  ingest,    \* per WAV upload: its ingest job's status
  up,        \* per upload request: where its handler stands
  ap,        \* the apply pass
  listing,   \* the keys sync-from-disk has listed, NotListing when it is not running
  orphans,   \* the boot sweep's candidates: listed, then checked against the rows
  held,      \* whether a generation run holds the session's run lease
  reading,   \* the keys that run has listed
  acked,     \* history: windows whose upload was answered as stored
  syncs, crashes, lost, runs

content == <<blobs, dirs, segment, seam, waiting, blocked, job, inputs, holds, ingest>>
counts == <<syncs, crashes, lost, runs>>
audioVars == <<content, up, ap, listing, orphans, held, reading, acked, counts>>

Ids == Uploads \cup Merges
Orig(i) == <<i, "orig">>
Flac(u) == <<u, "flac">>
Keys == (Ids \X {"orig"}) \cup (Wav \X {"flac"})
NoSegment == [key |-> <<NoId, "orig">>, rec |-> FALSE]
NotListing == {NoSegment.key}
Resting == [pc |-> "idle", id |-> NoId, copied |-> FALSE, trash |-> {}]

Rows == {i \in Ids : segment[i] # NoSegment}
RecRows == {i \in Rows : segment[i].rec}
NamedKeys == {segment[i].key : i \in Rows}
LiveMerges == {m \in Merges : job[m] \in {"queued", "running", "done"}}

\* The windows whose audio a segment's file holds: a chunk's own, a merge's inputs'.
Holds(i) == IF i \in Uploads THEN {WindowOf[i]} ELSE holds[i]

\* Enqueue a merge unless one is live (the queue's unique index) in the job table `js`.
Enqueued(js) ==
  LET fresh == {m \in Merges : js[m] = "absent"}
  IN IF fresh = {} \/ \E m \in Merges : js[m] \in {"queued", "running", "done"}
     THEN js ELSE [js EXCEPT ![CHOOSE m \in fresh : TRUE] = "queued"]

-----------------------------------------------------------------------------
AudioInit ==
  /\ blobs = {} /\ dirs = {}
  /\ segment = [i \in Ids |-> NoSegment]
  /\ seam = [w \in Windows |-> NoId]
  /\ waiting = {} /\ blocked = {}
  /\ job = [m \in Merges |-> "absent"]
  /\ inputs = [m \in Merges |-> {}]
  /\ holds = [m \in Merges |-> {}]
  /\ ingest = [u \in Wav |-> "absent"]
  /\ up = [u \in Uploads |-> "new"]
  /\ ap = Resting
  /\ listing = NotListing
  /\ orphans = [phase |-> "off", keys |-> {}]
  /\ held = FALSE /\ reading = {}
  /\ acked = {}
  /\ syncs = 0 /\ crashes = 0 /\ lost = 0 /\ runs = 0

-----------------------------------------------------------------------------
\* storeLiveSegment: look for the window's holder, plan an id and key, write the blob, add the row.
UploadStart(u) ==
  /\ up[u] = "new"
  /\ IF seam[WindowOf[u]] # NoId
     THEN up' = [up EXCEPT ![u] = "end"] /\ acked' = acked \cup {WindowOf[u]}
     ELSE up' = [up EXCEPT ![u] = "planned"] /\ UNCHANGED acked
  /\ UNCHANGED <<content, ap, listing, orphans, held, reading, counts>>

UploadPut(u) ==
  /\ up[u] = "planned"
  /\ blobs' = blobs \cup {Orig(u)}
  /\ up' = [up EXCEPT ![u] = "put"]
  /\ UNCHANGED <<dirs, segment, seam, waiting, blocked, job, inputs, holds, ingest,
                 ap, listing, orphans, held, reading, acked, counts>>

\* Mutant: the transaction does not look for the window's holder, and its seam replaces the other's.
MutAddBlind(u) ==
  /\ segment[u] = NoSegment
  /\ segment' = [segment EXCEPT ![u] = [key |-> Orig(u), rec |-> TRUE]]
  /\ seam' = [seam EXCEPT ![WindowOf[u]] = u]
  /\ waiting' = IF \A w \in waiting : seam'[w] # NoId THEN {} ELSE waiting
  /\ job' = IF waiting # {} /\ waiting' = {} /\ Cardinality(RecRows \cup {u}) >= 2
            THEN Enqueued(job) ELSE job
  /\ ingest' = [x \in Wav |-> IF x = u /\ ingest[x] = "absent" THEN "queued" ELSE ingest[x]]

\* Mutant: a straggler does not look at the pending finalize.
MutAddNoMerge(u) ==
  /\ seam[WindowOf[u]] = NoId /\ segment[u] = NoSegment
  /\ segment' = [segment EXCEPT ![u] = [key |-> Orig(u), rec |-> TRUE]]
  /\ seam' = [seam EXCEPT ![WindowOf[u]] = u]
  /\ ingest' = [x \in Wav |-> IF x = u /\ ingest[x] = "absent" THEN "queued" ELSE ingest[x]]
  /\ UNCHANGED <<waiting, job>>

\* The row, its seam and its ingest job commit together; a straggler enqueues the merge its
\* finalize waits for.
AddSegment(u) ==
  /\ seam[WindowOf[u]] = NoId /\ segment[u] = NoSegment
  /\ segment' = [segment EXCEPT ![u] = [key |-> Orig(u), rec |-> TRUE]]
  /\ seam' = [seam EXCEPT ![WindowOf[u]] = u]
  /\ waiting' = IF \A w \in waiting : seam'[w] # NoId THEN {} ELSE waiting
  /\ job' = IF waiting # {} /\ waiting' = {} /\ Cardinality(RecRows \cup {u}) >= 2
            THEN Enqueued(job) ELSE job
  /\ ingest' = [x \in Wav |-> IF x = u /\ ingest[x] = "absent" THEN "queued" ELSE ingest[x]]

UploadAdd(u) ==
  /\ up[u] = "put"
  /\ AddSegment(u)
  /\ up' = [up EXCEPT ![u] = "end"]
  /\ acked' = acked \cup {WindowOf[u]}
  /\ UNCHANGED <<blobs, dirs, blocked, inputs, holds, ap, listing, orphans, held, reading, counts>>

\* The commit happened, but its answer was lost with the connection: the request sees an error.
UploadAddLost(u) ==
  /\ up[u] = "put" /\ lost < MaxLost
  /\ AddSegment(u)
  /\ lost' = lost + 1
  /\ up' = [up EXCEPT ![u] = "fail"]
  /\ UNCHANGED <<blobs, dirs, blocked, inputs, holds, ap, listing, orphans, held, reading,
                 acked, syncs, crashes, runs>>

\* Another upload holds the window; or the transaction fails, on the id that sync-from-disk
\* inserted or on the database.
UploadNotAdded(u) ==
  /\ up[u] = "put"
  /\ \E p \in {"fail"} \cup (IF seam[WindowOf[u]] # NoId THEN {"drop"} ELSE {}) :
       up' = [up EXCEPT ![u] = p]
  /\ UNCHANGED <<content, ap, listing, orphans, held, reading, acked, counts>>

\* The blob of a request that stored no row is deleted before its answer.
UploadDelete(u) ==
  /\ up[u] \in {"drop", "fail"}
  /\ blobs' = blobs \ {Orig(u)}
  /\ up' = [up EXCEPT ![u] = "end"]
  /\ acked' = IF up[u] = "drop" THEN acked \cup {WindowOf[u]} ELSE acked
  /\ UNCHANGED <<dirs, segment, seam, waiting, blocked, job, inputs, holds, ingest,
                 ap, listing, orphans, held, reading, counts>>

\* The client lists the recording's windows; the merge waits for the missing ones.
Finalize(ws) ==
  /\ ws # {}
  /\ IF \E w \in ws : seam[w] = NoId
     THEN waiting' = waiting \cup ws /\ UNCHANGED job
     ELSE /\ waiting' = {}
          /\ job' = IF Cardinality(RecRows) >= 2 THEN Enqueued(job) ELSE job
  /\ UNCHANGED <<blobs, dirs, segment, seam, blocked, inputs, holds, ingest,
                 up, ap, listing, orphans, held, reading, acked, counts>>

\* The lease sweeper's tick: a recording nobody finalized, and no failure of the last day.
Reconcile ==
  /\ Cardinality(RecRows) >= 2 /\ RecRows # blocked
  /\ \A i \in RecRows : \E w \in Windows : seam[w] = i
  /\ job' = Enqueued(job)
  /\ UNCHANGED <<blobs, dirs, segment, seam, waiting, blocked, inputs, holds, ingest,
                 up, ap, listing, orphans, held, reading, acked, counts>>

-----------------------------------------------------------------------------
\* The worker: a merge reads the recording's rows and opens their blobs, then leaves a verified
\* file or fails ("refused": as the same inputs always would).  A retried attempt reads again, as
\* if the job had only now been claimed.
MergeReads(m) ==
  /\ job[m] = "queued"
  /\ \/ /\ Cardinality(RecRows) >= 2 /\ \A i \in RecRows : segment[i].key \in blobs
        /\ inputs' = [inputs EXCEPT ![m] = RecRows]
        /\ holds' = [holds EXCEPT ![m] = UNION {Holds(i) : i \in RecRows}]
        /\ job' = [job EXCEPT ![m] = "running"]
     \/ /\ Cardinality(RecRows) < 2 \/ \E i \in RecRows : segment[i].key \notin blobs
        /\ job' = [job EXCEPT ![m] = "failed"]
        /\ UNCHANGED <<inputs, holds>>
  /\ UNCHANGED <<blobs, dirs, segment, seam, waiting, blocked, ingest,
                 up, ap, listing, orphans, held, reading, acked, counts>>

MergeEnds(m) ==
  /\ job[m] = "running"
  /\ \E s \in {"done", "failed", "refused"} :
       /\ job' = [job EXCEPT ![m] = s]
       /\ dirs' = IF s = "done" THEN dirs \cup {m} ELSE dirs
  /\ UNCHANGED <<blobs, segment, seam, waiting, blocked, inputs, holds, ingest,
                 up, ap, listing, orphans, held, reading, acked, counts>>

IngestEnds(u) ==
  /\ ingest[u] = "queued"
  /\ \/ /\ segment[u] # NoSegment
        /\ ingest' = [ingest EXCEPT ![u] = "done"]
        /\ dirs' = dirs \cup {u}
     \/ /\ ingest' = [ingest EXCEPT ![u] = "failed"]
        /\ UNCHANGED dirs
  /\ UNCHANGED <<blobs, segment, seam, waiting, blocked, job, inputs, holds,
                 up, ap, listing, orphans, held, reading, acked, counts>>

-----------------------------------------------------------------------------
\* Mutant: a key that is already there fails the copy.
MutAdoptNew(j, k) ==
  /\ k \notin blobs /\ j \in dirs
  /\ blobs' = blobs \cup {k}
  /\ dirs' = dirs \ {j}

\* The apply pass.  A job's result file is copied to its key before the transaction; a key
\* already there is a copy an earlier try made, and the job's directory goes either way.
Adopt(j, k) ==
  /\ k \in blobs \/ j \in dirs
  /\ blobs' = blobs \cup {k}
  /\ dirs' = dirs \ {j}

ApplyMerge(m) ==
  /\ ap = Resting /\ job[m] = "done" /\ ~held
  /\ ap' = [Resting EXCEPT !.pc = IF inputs[m] = RecRows THEN "adopt" ELSE "commit", !.id = m]
  /\ UNCHANGED <<content, up, listing, orphans, held, reading, acked, counts>>

AdoptMerged(m) ==
  /\ ap.pc = "adopt" /\ ap.id = m
  /\ \/ /\ Adopt(m, Orig(m))
        /\ ap' = [ap EXCEPT !.pc = "commit", !.copied = TRUE]
        /\ UNCHANGED job
     \/ /\ Orig(m) \notin blobs /\ m \notin dirs
        /\ job' = [job EXCEPT ![m] = "invalid"]
        /\ ap' = Resting
        /\ UNCHANGED <<blobs, dirs>>
  /\ UNCHANGED <<segment, seam, waiting, blocked, inputs, holds, ingest,
                 up, listing, orphans, held, reading, acked, counts>>

\* Mutant: the inputs' windows are not repointed, and go with their rows.
MutSwapCascades(m) ==
  /\ ~held /\ inputs[m] = RecRows /\ segment[m] = NoSegment
  /\ segment' = [i \in Ids |-> IF i = m THEN [key |-> Orig(m), rec |-> TRUE]
                           ELSE IF i \in inputs[m] THEN NoSegment ELSE segment[i]]
  /\ seam' = [w \in Windows |-> IF seam[w] \in inputs[m] THEN NoId ELSE seam[w]]
  /\ job' = [job EXCEPT ![m] = "applied"]
  /\ ap' = [ap EXCEPT !.pc = "trash", !.trash = {segment[i].key : i \in inputs[m]}]

\* Mutant: the swap does not look at the run lease again.
MutSwapUnderLease(m) ==
  /\ inputs[m] = RecRows /\ segment[m] = NoSegment
  /\ segment' = [i \in Ids |-> IF i = m THEN [key |-> Orig(m), rec |-> TRUE]
                           ELSE IF i \in inputs[m] THEN NoSegment ELSE segment[i]]
  /\ seam' = [w \in Windows |-> IF seam[w] \in inputs[m] THEN m ELSE seam[w]]
  /\ job' = [job EXCEPT ![m] = "applied"]
  /\ ap' = [ap EXCEPT !.pc = "trash", !.trash = {segment[i].key : i \in inputs[m]}]

\* The merged row takes the inputs' windows and place, and the inputs' blobs go to the trash.
SwapMerged(m) ==
  /\ ~held /\ inputs[m] = RecRows /\ segment[m] = NoSegment
  /\ segment' = [i \in Ids |-> IF i = m THEN [key |-> Orig(m), rec |-> TRUE]
                           ELSE IF i \in inputs[m] THEN NoSegment ELSE segment[i]]
  /\ seam' = [w \in Windows |-> IF seam[w] \in inputs[m] THEN m ELSE seam[w]]
  /\ job' = [job EXCEPT ![m] = "applied"]
  /\ ap' = [ap EXCEPT !.pc = "trash", !.trash = {segment[i].key : i \in inputs[m]}]

CommitMerged(m) ==
  /\ ap.pc = "commit" /\ ap.id = m
  /\ \/ SwapMerged(m) /\ dirs' = dirs \ {m}
     \/ /\ ~held /\ inputs[m] # RecRows  \* the segments changed: cancelled, and merged anew
        /\ job' = LET js == [job EXCEPT ![m] = "cancelled"]
                  IN IF Cardinality(RecRows) >= 2 THEN Enqueued(js) ELSE js
        /\ ap' = IF ap.copied THEN [ap EXCEPT !.pc = "trash", !.trash = {Orig(m)}] ELSE Resting
        /\ dirs' = dirs \ {m}
        /\ UNCHANGED <<segment, seam>>
     \/ /\ \/ held                                            \* deferred
           \/ inputs[m] = RecRows /\ segment[m] # NoSegment   \* or the insert conflicts
        /\ ap' = Resting
        /\ UNCHANGED <<dirs, segment, seam, job>>
  /\ UNCHANGED <<blobs, waiting, blocked, inputs, holds, ingest,
                 up, listing, orphans, held, reading, acked, counts>>

ApplyIngest(u) ==
  /\ ap = Resting /\ ingest[u] = "done"
  /\ IF segment[u] = NoSegment
     THEN /\ ingest' = [ingest EXCEPT ![u] = "cancelled"]
          /\ dirs' = dirs \ {u}
          /\ UNCHANGED ap
     ELSE /\ ap' = [Resting EXCEPT !.pc = IF segment[u].key = Flac(u) THEN "commit" ELSE "adopt",
                                   !.id = u]
          /\ UNCHANGED <<ingest, dirs>>
  /\ UNCHANGED <<blobs, segment, seam, waiting, blocked, job, inputs, holds,
                 up, listing, orphans, held, reading, acked, counts>>

AdoptFlac(u) ==
  /\ ap.pc = "adopt" /\ ap.id = u
  /\ \/ /\ Adopt(u, Flac(u))
        /\ ap' = [ap EXCEPT !.pc = "commit", !.copied = TRUE]
        /\ UNCHANGED ingest
     \/ /\ Flac(u) \notin blobs /\ u \notin dirs
        /\ ingest' = [ingest EXCEPT ![u] = "invalid"]
        /\ ap' = Resting
        /\ UNCHANGED <<blobs, dirs>>
  /\ UNCHANGED <<segment, seam, waiting, blocked, job, inputs, holds,
                 up, listing, orphans, held, reading, acked, counts>>

\* The row names the FLAC, and the WAV it named goes to the trash.
CommitFlac(u) ==
  /\ ap.pc = "commit" /\ ap.id = u
  /\ ingest' = [ingest EXCEPT ![u] = IF segment[u] = NoSegment THEN "cancelled" ELSE "applied"]
  /\ segment' = IF segment[u] = NoSegment THEN segment ELSE [segment EXCEPT ![u].key = Flac(u)]
  /\ dirs' = dirs \ {u}
  /\ ap' = [ap EXCEPT !.pc = "trash",
                      !.trash = IF segment[u] = NoSegment THEN {Flac(u)}
                                ELSE {segment[u].key} \ {Flac(u)}]
  /\ UNCHANGED <<blobs, seam, waiting, blocked, job, inputs, holds,
                 up, listing, orphans, held, reading, acked, counts>>

Trash ==
  /\ ap.pc = "trash"
  /\ \/ \E k \in ap.trash : blobs' = blobs \ {k} /\ ap' = [ap EXCEPT !.trash = @ \ {k}]
     \/ ap.trash = {} /\ ap' = Resting /\ UNCHANGED blobs
  /\ UNCHANGED <<dirs, segment, seam, waiting, blocked, job, inputs, holds, ingest,
                 up, listing, orphans, held, reading, acked, counts>>

\* applyFailedJobs: a merge that failed for good blocks the recording's current segments.
ReflectRefused(m) ==
  /\ ap = Resting /\ job[m] = "refused"
  /\ blocked' = RecRows
  /\ job' = [job EXCEPT ![m] = "blocked"]
  /\ UNCHANGED <<blobs, dirs, segment, seam, waiting, inputs, holds, ingest,
                 up, ap, listing, orphans, held, reading, acked, counts>>

-----------------------------------------------------------------------------
\* sync-from-disk: the keys are listed, then the ids without a row get one, outside any recording.
SyncList ==
  /\ listing = NotListing /\ syncs < MaxSyncs
  /\ syncs' = syncs + 1
  /\ listing' = blobs
  /\ UNCHANGED <<content, up, ap, orphans, held, reading, acked, crashes, lost, runs>>

SyncInsert ==
  /\ listing # NotListing
  /\ LET new == {k[1] : k \in listing} \ Rows
     IN \E key \in [new -> listing] :
          /\ \A i \in new : key[i][1] = i
          /\ segment' = [i \in Ids |-> IF i \in new THEN [key |-> key[i], rec |-> FALSE]
                                      ELSE segment[i]]
          /\ ingest' = [x \in Wav |-> IF x \in new /\ ingest[x] = "absent" THEN "queued"
                                         ELSE ingest[x]]
  /\ listing' = NotListing
  /\ UNCHANGED <<blobs, dirs, seam, waiting, blocked, job, inputs, holds,
                 up, ap, orphans, held, reading, acked, counts>>

\* A generation run: take the session's run lease, list the segments, read their blobs.  The run
\* keeps its lease: what a run meets that cannot renew it is module RunLease's subject.
RunStart ==
  /\ ~held /\ runs < MaxRuns
  /\ held' = TRUE /\ runs' = runs + 1
  /\ UNCHANGED <<content, up, ap, listing, orphans, reading, acked, syncs, crashes, lost>>

RunList ==
  /\ held /\ reading = {}
  /\ reading' = NamedKeys
  /\ UNCHANGED <<content, up, ap, listing, orphans, held, acked, counts>>

RunEnd ==
  /\ held
  /\ held' = FALSE /\ reading' = {}
  /\ UNCHANGED <<content, up, ap, listing, orphans, acked, counts>>

-----------------------------------------------------------------------------
\* Mutant: the boot sweep also takes the copy of a merge that waits for its apply.
MutSwept == blobs

\* The boot sweep's candidates: an hour-old blob, but the copy of a live merge.
Swept == blobs \ {Orig(m) : m \in LiveMerges}

\* The API process dies in every handler at once and starts again; the boot sweep lists the blobs
\* when the outage made them old enough.
ApiCrash ==
  /\ crashes < MaxCrashes /\ crashes' = crashes + 1
  /\ up' = [u \in Uploads |-> IF up[u] \in {"new", "end"} THEN up[u] ELSE "end"]
  /\ ap' = Resting /\ listing' = NotListing
  /\ held' = FALSE /\ reading' = {}
  /\ orphans' \in {[phase |-> "off", keys |-> {}]}
                  \cup (IF LongOutages THEN {[phase |-> "listed", keys |-> Swept]} ELSE {})
  /\ UNCHANGED <<content, acked, syncs, lost, runs>>

\* Mutant: the candidates are not checked against the rows.
MutSweepUnchecked ==
  /\ orphans.phase = "listed"
  /\ orphans' = [orphans EXCEPT !.phase = "named"]
  /\ UNCHANGED <<content, up, ap, listing, held, reading, acked, counts>>

SweepNamed ==
  /\ orphans.phase = "listed"
  /\ orphans' = [phase |-> "named", keys |-> orphans.keys \ NamedKeys]
  /\ UNCHANGED <<content, up, ap, listing, held, reading, acked, counts>>

SweepTrash(k) ==
  /\ orphans.phase = "named" /\ k \in orphans.keys
  /\ blobs' = blobs \ {k}
  /\ orphans' = [orphans EXCEPT !.keys = @ \ {k}]
  /\ UNCHANGED <<dirs, segment, seam, waiting, blocked, job, inputs, holds, ingest,
                 up, ap, listing, held, reading, acked, counts>>

-----------------------------------------------------------------------------
Upload(u) == UploadStart(u) \/ UploadPut(u) \/ UploadAdd(u) \/ UploadAddLost(u)
             \/ UploadNotAdded(u) \/ UploadDelete(u)

Merge(m) == MergeReads(m) \/ MergeEnds(m) \/ ApplyMerge(m) \/ AdoptMerged(m)
            \/ CommitMerged(m) \/ ReflectRefused(m)

Ingest(u) == IngestEnds(u) \/ ApplyIngest(u) \/ AdoptFlac(u) \/ CommitFlac(u)

AudioNext ==
  \/ \E u \in Uploads : Upload(u)
  \/ \E m \in Merges : Merge(m)
  \/ \E u \in Wav : Ingest(u)
  \/ \E ws \in SUBSET Windows : Finalize(ws)
  \/ Reconcile \/ Trash \/ SyncList \/ SyncInsert
  \/ RunStart \/ RunList \/ RunEnd
  \/ ApiCrash \/ SweepNamed \/ \E k \in Keys : SweepTrash(k)

AudioSpec == AudioInit /\ [][AudioNext]_audioVars

\* The worker settles its jobs (module MediaJobs), a run ends, and the apply pass goes on.
AudioFairness ==
  /\ WF_audioVars(RunEnd) /\ WF_audioVars(Trash)
  /\ \A m \in Merges : WF_audioVars(Merge(m))
  /\ \A u \in Wav : WF_audioVars(Ingest(u))

AudioFairSpec == AudioSpec /\ AudioFairness

-----------------------------------------------------------------------------
UploadStates == {"new", "planned", "put", "drop", "fail", "end"}
MergeStates == {"absent", "queued", "running", "done", "applied", "cancelled", "failed",
                "refused", "blocked", "invalid"}
IngestStates == {"absent", "queued", "done", "applied", "cancelled", "failed", "invalid"}

\* Seams refer to rows of the recording, and one merge of it is live at a time.
AudioTypeOK ==
  /\ blobs \subseteq Keys /\ dirs \subseteq Ids
  /\ segment \in [Ids -> [key : Keys, rec : BOOLEAN] \cup {NoSegment}]
  /\ \A w \in Windows : seam[w] # NoId => seam[w] \in RecRows
  /\ waiting \subseteq Windows /\ blocked \subseteq Ids /\ acked \subseteq Windows
  /\ job \in [Merges -> MergeStates] /\ Cardinality(LiveMerges) <= 1
  /\ inputs \in [Merges -> SUBSET Ids] /\ holds \in [Merges -> SUBSET Windows]
  /\ ingest \in [Wav -> IngestStates]
  /\ up \in [Uploads -> UploadStates]
  /\ ap.pc \in {"idle", "adopt", "commit", "trash"} /\ ap.trash \subseteq Keys
  /\ orphans.keys \subseteq Keys
  /\ reading # {} => held

\* "the blob lands before the row, so a listed row always has its bytes": whatever crashes
\* between a file system step and a transaction, and whatever the sweep takes.
RowHasBlob == NamedKeys \subseteq blobs

\* Audio the server has answered for stays: its window is held by a listed segment whose file
\* is there and holds that window's audio, through retries, merges, conversions and crashes.
AckedKept ==
  \A w \in acked :
    /\ seam[w] # NoId
    /\ segment[seam[w]].key \in blobs
    /\ w \in Holds(seam[w])

\* No window is heard twice: two segments of a recording never hold the same window's audio,
\* however uploads of it are retried and merges of it repeated.
WindowOnce ==
  \A i, j \in RecRows : i # j => Holds(i) \cap Holds(j) = {}

\* A finalize never waits for windows that are all there: the finalize and the last
\* straggler cannot miss each other.
NoForgottenFinalize ==
  waiting # {} => \E w \in waiting : seam[w] = NoId

\* "the generation run reads every blob it listed": the lease check inside the swap keeps merges and
\* crashes away from a run that keeps its lease.
RunReadsAll == reading \subseteq blobs

\* "a retry after a crash finds the key in place": no result the worker left well is refused
\* as invalid because of where a crash fell.
ResultsAdopted ==
  /\ \A m \in Merges : job[m] # "invalid"
  /\ \A u \in Wav : ingest[u] # "invalid"

\* "the next apply tick completes the swap once": a finished merge is applied, cancelled or
\* failed, and does not stay done for ever.
DoneMergeSettles ==
  \A m \in Merges : job[m] = "done" ~> job[m] # "done"
=============================================================================
