# Autologger-2 in TLA+

This directory is the formal companion of the autologger-2 server, media worker and web client:
TLA+ modules translated from the source, TLC configurations that check them on small instances,
and theorems that TLAPS proves for every value of the constants.  Paths below are relative to
the root of the repository, and `SessionHub.ts` and the like are files of `packages/*/src`.

1. [The system](#1-the-system)
2. [Modules and how they correspond to the code](#2-modules-and-how-they-correspond-to-the-code)
3. [What the runs check](#3-what-the-runs-check)
4. [Fairness](#4-fairness)
5. [What is proved](#5-what-is-proved)
6. [Where the code and its documents disagree](#6-where-the-code-and-its-documents-disagree)
7. [What is not modelled](#7-what-is-not-modelled)
8. [Plan](#8-plan)

## 1. The system

The API is a Node server in front of a PostgreSQL database (the catalog) and one directory of
blobs.  The documented deployment runs one API process, but everything that several processes
would share goes through the database: a session's row lock orders its writes, leases are rows,
frames travel over LISTEN/NOTIFY, and `core-ports-architecture/spec.md` specifies each of them
for several processes.  The lease, frame and run modules therefore have several processes.  A
media worker (one process with two lanes) runs ffmpeg jobs that the server queues in the
database.  Browsers record audio in chunks, hold one WebSocket per open session and cache what
they read.  A Companion module (a hardware control surface) polls and sends commands.

    browser tab ---- HTTP ----> API process ---- one transaction per operation ----> PostgreSQL
      |  ^                        |  hub per session: row lock, alarm, sockets        |  ^   |
      |  +------ WebSocket -------+<---------------- NOTIFY (frames) ------------------+  |   |
      |                           |                                                      |   |
      +-- chunks on disk          +---- blobs (put, rename, trash) ----+                 |   |
          (one owner tab)                                              v                 |   |
                                   media worker lanes <--- claim / renew / outcome ------+   |
                                     result files ----> apply pass of the API <--------------+

### The components

What each part keeps, what it does and what makes it correct.  The last column names the module
that covers it; a dash means that it is not modelled (section 7 says why, section 8 what is
planned).

| Component | State | Operations | What is hard | Correct when | Module |
|---|---|---|---|---|---|
| Recording lease: `leaseStore.ts`, the alarm of `SessionHub.ts`, the sweeper of `server/src/startupPurge.ts` | one `session_leases` row per session, an alarm slot per hub | claim, heartbeat, release, alarm, sweep | clock skew, lost COMMIT answers, crashes, evicted hubs, a sweep of a stale list | two recorders never both hold it; a live holder is never freed; an expired lease is freed and announced | RecordingLease |
| Run leases: `runLease.ts`, `_aiSlot.ts`, `aiChatRegistry.ts` and two more guards | one row per kind and session, an in-process slot, a renewal timer | slot, claim, renew, release, sweep | a renewal in flight at the release, two-step claim and free, crashes | one run at a time unless one lapsed; nothing left behind; the slot is exact | RunLease |
| Frame bus: `postgresFrameBus.ts`, `frameBusEnvelope.ts`, `sessionWs.ts` | frames of a running transaction, listener connection, first-LISTEN time, attached sockets | publish, commit, roll back, retry, receive, attach, close | retried bodies, lost listeners, skewed clocks | frames in commit order; none missed without the socket being closed | FrameBus, FrameStream |
| Live feed: `web/.../useSessionSocket.ts` | socket, cached response, coalescing timer, fetch in flight | frame, invalidate, trailing refetch, reconnect | an answer older than the frame that asked for it | a stale feed always has something that will refresh it | LiveFeed |
| Media jobs: `mediaJobs.ts`, `media-worker/src/main.ts` | job rows with status, attempts, owner, lease; the attempt's files | enqueue, claim, renew, outcome, requeue, shutdown | lapsed leases under live lanes, lanes sharing an id, a failing outcome | no two lanes share files; a done job's file is there; every job settles | MediaJobs |
| Recording audio: `audioStore.ts`, `routers/audio.ts`, `mediaApply.ts`, `jobs/ingest.ts`, `jobs/merge.ts` | segments, seams (which segment holds which window), pending finalize, blobs, result files | upload, finalize, reconcile, ingest, merge, swap, trash, sync from disk, boot sweep | files and rows change in separate steps; races of uploads, merges and sweeps | acknowledged audio stays; nothing is heard twice; a merge is not forgotten | RecordingAudio |
| Recorder and upload queue: `AudioRecorder.tsx`, `chunkUploadQueue.ts`, `recorderLocks.ts` | chunks on disk, Web Locks, a queue per tab, a finalize record | capture, roll over, stop, upload, look up, retry, discard, scan, finalize | crashes, two tabs, requests that land late | every chunk reaches the server or stays on disk, owned by one tab | ChunkUploads |
| Session hub and registry: `SessionHub.ts` | open hubs, a FIFO lock each, the registry | open, call, evict, close | an opening under a shutdown, an eviction racing a call, a call that fails with the lock | each caller is answered; a shutdown cuts no admitted call short | HubCalls |
| Catalog adapter: `postgresCatalogStore.ts` | connection slots, their queue, deadlines, attempts | acquire, begin, run, commit, roll back, retry, recycle, close | a deadline at any step, a lost connection whose transaction lives on, an unknown commit, a deadlock retry | a slot is neither lost nor used twice, and handed out clean; an answer tells the truth | SlotPool |
| Event log and anchors: `eventStore.ts`, `eventAnchors.ts`, `transportStore.ts`, timecode | event rows, revision, anchors, transport | insert, edit, undo, re-anchor, start, stop | sequential meaning; drop-frame arithmetic | a feed and its anchors agree with the transport | - (planned: SessionLog) |
| Resumable uploads: `mediaUploads.ts`, `audioUploads.ts`, `web/src/api/uploads.ts`, `batchImport/runner.ts` | upload rows, a staged file; in the tab, the remembered upload and session | start, part, complete, expire; run, resume, stop, roll back | a crash between rename and row, a completion nobody heard of, a recording that starts meanwhile | a listed take has its bytes, an import is there once, and running it again brings it in | PartUploads, BatchImport |
| Log-import jobs: `jobStore.ts`, `runSessionLogImport.ts`, `kvStore.ts` | a kv record, the copy its runner wants stored, a chain of changes | create, progress, heartbeat, end, poll, swap to failed, expire | a write that fails, lands late or whose answer is lost; a runner that dies | a record only moves on; an ended one is whole; the page is told | ImportJob |
| Questions of a design turn: `aiV2PendingQuestions.ts`, `kvStore.ts` | a kv row a question, the questions held, a poll | register, answer, poll, take, abandon, expire | a turn that ends under a put, a swap or a take; two replies; a process that dies | the accepted reply is the one used, once; every question is settled | DesignQuestions |
| Wiki and suggestions: `wikiStore.ts`, `wikiSuggestionStore.ts` | pages, revisions, suggestions | edit, merge, split, restore, accept | a page that moved under a suggestion | no edit is overwritten unseen | - (planned: WikiPages) |
| Transcript, topics, dashboards | rows of a session | replace, edit, delete | - | one transaction each | - |
| AI turns, generation runs, transcription, YouTube and log import | a child process or a request | run, stream, store the result | single flight | RunLease; reads what it listed | their lease and reads only |
| Accounts, teams, shows, search, presence, devices, credentials, kv | rows | create, edit, remove | access policies | the database's own | - |
| Blob store | files | put, stage, adopt, trash, list | a crash between two calls | see recording audio | within RecordingAudio and PartUploads |
| Chunk store of the browser | files of a chunk | append, list, remove | I/O | see the upload queue | within ChunkUploads |
| Companion module | the last poll | poll, command, refresh | a refresh that joins an older poll | corrected by the next poll | - |
| Boot, routing, schemas, user interface, decoding, deployment | - | - | - | - | - |

### How they interact

A *hub* (one per process and open session) runs every operation of a session as one transaction
that first takes the session's row lock.  What the operation publishes is sent with NOTIFY inside
the transaction, so that it is delivered at COMMIT or not at all.  After COMMIT, and only then,
the hub re-arms its alarm.  The *lease* is claimed by the recorder tab before it captures; its
alarm and the sweeper free it when heartbeats stop.  A *chunk* is written to browser storage,
uploaded as a window, stored as a blob and then as a row with a *seam*; the finalize call, or a
straggler's upload, or the reconcile pass enqueues the *merge job*; a *lane* of the worker claims
it, reads the segments and leaves a file; the *apply pass* of the API copies the file to its blob
key, swaps the rows and then trashes what was replaced.  A *generation run* holds the run lease of
the session meanwhile, which the swap respects.  A *batch import* makes a session, uploads a file in
parts to a staging file and completes it into a take, or deletes the session again.  Each commit's frame makes *feeds* in all tabs
refetch.

## 2. Modules and how they correspond to the code

One module per component, one action per operation, handler or step.  Everything an operation
does in one database transaction is one action, because it holds the session's row lock; what it
does outside a transaction (a file written, a timer armed, a slot freed, an answer lost) is an
action of its own.  `PROJECT.json` maps every definition to its lines.  Time, where a property
needs it, is an integer; where only "it may have lapsed" matters it is a nondeterministic step.

| Module | About |
|---|---|
| `RecordingLease`, `RecordingLeaseProofs` | the recording lease over several processes with skewed clocks |
| `RunLease` | the single flight of one kind of run |
| `ImportJob` | the record of a log import in the key-value store: its runner and the polls |
| `DesignQuestions` | the questions of a design turn, rows of the same store |
| `ServerRunsProofs` | the theorems of RunLease, ImportJob and DesignQuestions |
| `MCSessionPage` | ImportJob, DesignQuestions, ChunkUploads and RecordingAudio, one of which a behaviour shows |
| `MCTakes` | ChunkUploads, RecordingAudio and RunLease, one of which a behaviour shows |
| `SlotPool` | the session slots of the catalog adapter: queue, transactions, deadlines, retries |
| `HubCalls`, `HubCallsProofs` | the hubs of a process and their calls, over SlotPool (it extends it) |
| `MCSessionHub` | RecordingLease and HubCalls, one of which a behaviour shows |
| `FrameStream` | what the web client is written against: one gapless ordered stream of frames per socket |
| `FrameBus`, `FrameBusProofs` | the frame bus, shown to implement FrameStream |
| `LiveFeed` | a tab's event feed, composed with FrameStream (it extends it) |
| `MediaJobs`, `MediaJobsProofs` | the job queue and the worker's lanes |
| `MCPostgres`, `MCFrameBus` | FrameBus and MediaJobs, one of which a behaviour shows; FrameBus by itself |
| `RecordingAudio`, `MCRecordingAudio` | the audio of a recording: uploads, ingest, merge, apply, sweeps |
| `RecordingAudioProofs` | its theorems: about windows and segments, and about files |
| `PartUploads` | an upload in parts at the server: rows, staging file, completion, expiry, crashes |
| `BatchImport`, `MCBatchImport` | a batch import in a tab, over PartUploads (it extends it) |
| `BrowserTabProofs` | the theorems of LiveFeed and BatchImport |
| `MCBrowserTab` | LiveFeed and BatchImport, one of which a behaviour shows |
| `ChunkUploads`, `MCChunkUploads` | the recorder and its upload queue, over several tabs |
| `ChunkUploadsProofs` | its theorems |

**RecordingLease.**  `row` is the `session_leases` row.  `Claim`, `Heartbeat`, `Release` are
`claimRecordingLease`, `heartbeatRecordingLease` and `releaseRecordingLease`, run by any process.
A claim is one conditional upsert that replaces an expired row, a heartbeat and a release touch the
row of their own client; a claim and a heartbeat compare its expiry with the clock of their process
(`Clock(p)`);
`ExpireIfStale` is what the alarm and the sweeper run.  `Store` is the write and the alarm armed after COMMIT, `StoreUnknown` the
COMMIT whose answer is lost.  `alarm`, `firing` and `backoff` are the hub's one alarm slot, its
expiry write in progress and the retry delay; `AlarmFires`, `AlarmRuns`, `AlarmFails` are the
timer.  `SweepList` and `SweepFree` are the sweeper's query and its later per-session call.
`OpenHub`, `Evict` and `Crash` are the rest of a hub's life.  The history variable `promise` is the
time until which a caller was told that it holds the lease, shortened by the largest skew.

**RunLease.**  `slot` is `AiChatTurnRegistry` (or the other two guards), `row` the run lease,
`timer` and `renewing` the renewal interval and the renewal in flight of `startRunLease`.  A failed
claim, renewal or release may have committed.  `stray` names the runs whose failed claim or release
may have left a row.

**SlotPool and HubCalls.**  `free`, `waiters`, `on` and `closed` are `PostgresCatalogStore`'s slots;
`phase` is how far a call's `runTx` and `attempt` are, from `Acquire` over `BeginOk`, `BodyEnds` and
`BackendCommits` (the server's own step) to `CommitOk`, with one action for each way each of them can
fail.  `link` is a slot's connection as the server sees it, `lock` a session's row lock, and `orphan`
a transaction whose connection was given up and which the server still has: `OrphanEnds` ends it,
and may carry out a COMMIT it had received.  `Recycle` is the replacement of a connection,
`Deadlocked`, `AfterRollback` and `Retry` the retries, `ClosePool` and `EndPool` the close.  `applied`
counts the commits of a call's write.  `HubCalls` adds `SessionHubRegistry` (`hubs`, `registry`) and
each hub's FIFO lock (`line`): `Get` joins an opening or starts one with a transaction of its own,
`Admit` queues a call, `RunCall` and `Leave` hold the lock round the transaction, `EvictIdle`,
`CloseRegistry`, `CloseHubs` and `CloseAdapter` end hubs.

**ImportJob.**  `record` is the stored job; `local`, `last` and `chain` are the runner's local record,
the value it last wrote and the promise chain of its changes.  `Write` sends the next change,
`Written` is its conditional update answered, `WriteFails` a failure that may land later
(`LateLands`).  `PollReads` and `PollSwaps` are `get` with its compare-and-swap to failed, `Expire`
the kv's expiry.  Ages stop counting once a record is stale on every clock.

**DesignQuestions.**  `stored` is a question's row, `asking` and `result` the turn's side of it,
`answering` a reply's route on any process (`ReadForAnswer`, `SwapAnswer`), `polling` the poller's
tick (`PollStarts`, `PollRow`, `Take`, `PollEnds`).  `Ask`, `RowStored` and `StoreFails` are
`register`; `AbandonTurn` is `abandonTurn`, whose deletes (`Delete`) may fail.

**FrameBus and FrameStream.**  `held` is what a running attempt has published; `Begin` and
`Publish` (again after a deadlock), `Commit` and `Abort` are `SessionHub.call`'s transaction.
`wire` is what Postgres has queued for a listener; `Listen`, `ListenerLost`, `Receive` are
`postgresFrameBus.ts`, with `booted` its first-LISTEN time and `Admits` the checks of
`frameBusEnvelope.ts`.  `FrameStream` says what a socket sees: it is open or broken, the next
revision it is due, and the frames that an age check dropped.

**LiveFeed.**  Adds to `FrameStream` the tab's connection, the query's cache (`data`, `fetch`) and
the coalescing `window` with its `trailing` flag.  The query library is external and modelled by
the two rules the code relies on: an invalidation restarts a fetch in flight if there is data, and
joins it if there is none.

**MediaJobs.**  `job` is the row, `lane` a lane's loop, `Fence` the `WHERE` of every statement
after the claim.  `Lapse` is the lease's expiry, `RequeueExpired`, `Renew`, `RunEnds`, `Record`,
`Refused`, `Abandon`, `RecordFails`, `Shutdown`, `Restart` and `Crash` are the paths of `main.ts`.
`LowDisk` is a run that finds too little disk for its inputs: the lane removes the attempt's files and
goes to the phase `release`, and the release is a later statement (`Record`), by which time the lease
may have lapsed and another lane of the same process claimed the job.  The history variable `undone`
names the jobs of which such a release took back an attempt that was not its lane's own (`Undoes`).

**RecordingAudio.**  `UploadStart`, `UploadPut`, `UploadAdd` (or `UploadNotAdded`, `UploadAddLost`)
and `UploadDelete` are the steps of `storeLiveSegment`; `AddSegment` is its transaction, with the
window's seam, the straggler's merge and the ingest job.  `MergeReads`, `MergeEnds`, `IngestEnds`
stand for the worker.  `ApplyMerge`, `AdoptMerged`, `CommitMerged` (`SwapMerged`), the three of an
ingest, and `Trash` are the apply pass of `mediaApply.ts`.  `holds` remembers which windows' audio a
merged file has.  `ApiCrash` ends every handler and, after a long outage, starts the boot sweep.

**PartUploads and BatchImport.**  A request is a record whose `at` is the step its handler has reached;
`heard` says that its caller still waits.  `upload` is the row, `place` and `whole` the staging file
and what of it is really there, `listed` the takes.  `CreateUpload`, `OpenStaging`, `LoadForPart`,
`WritePart`, `RecordPart` and `Status` are the routes of `audioUploads.ts` up to completion, which is
`LoadForCompletion`, `Rehash` (or `AbortStaging`), `FirstCheck`, `AdoptStaging`, `AddTake`,
`MarkComplete`, and then `SecondCheck` and `AnchorTake`, either of which may take the take out again
(`UndoTake` the row, `DeleteUndone` the blob).  Once the take is listed, `CompletionFails` is a failure
of the statement that marks the upload, of the second look at the status or of the roll-back: the
answer is a 500 and the take stays listed, which the history variable `halfway` remembers.  A row that
cannot be written takes the blob with it (`AddTake`); statements that fail earlier change nothing and
are left out.  `SweepRows` and `SweepFile` are the expiry.  `ServerCrash` ends the handlers and may
lose bytes of staged files, which are synced only at the rename.  In `BatchImport`, `tab` is
`runBatchImport` for one group of files, with `uploadInParts` inside; `memory` is the remembered
upload and `imported` the remembered session.  A tab that stops waiting leaves its handler running.

**ChunkUploads.**  `take` is `AudioRecorder`'s state; `disk`, `pend` and `finRecord` are browser
storage; `takeLock` and `lock` are the Web Locks, `lockAsks` the locks asked for; `queue`, `pump`, `unsure`, `once`, `fin` are the
upload queue of a tab.  `Attempt`, `LookupAnswers`, `Send`, `SendAnswered`, `Confirm` are the pump;
`ProbeTake`, `ProbeChunk`, `Probed`, `Recovered`, `FinishScan` the recovery scan; `LateArrives` is
a request that the client gave up on and that the server stores later.

## 3. What the runs check

Properties are stated and explained in the modules.  Each property of a passing run has a mutant in
`PROJECT.json`, a plausible slip in the code that breaks it under the same configuration.  Type
invariants are proved (section 5), each within the invariant of its module.

| Run | Instance | States | It shows |
|---|---|---|---|
| `session_hub` | one of: 2 recorders, 2 processes one unit apart, TTL 3, time to 4; 1 slot, 2 sessions, 3 calls, 3 openings, 2 tries | 300,257 | one promise at a time, promises kept, holders announced, the alarm watched, expired leases freed; exact slots, clean hand-overs, truthful answers, the adapter closed last, every call answered |
| `bus_and_jobs` | one of: 2 processes one unit apart, 1 socket, 2 writers, 2 commits, 1 loss, 2 attachments; 2 jobs, 2 lanes of 1 worker, 2 attempts, 2 mishaps, or 1 job and 3 mishaps | 537,578 | no silent gap, FrameStream implemented (frames in commit order with it), sockets settle or close; no shared files and done jobs have theirs (one named exception), every job settles |
| `browser_tab` | one of: 3 revisions, 2 drops, 1 failed request; 1 file of 2 parts, 3 sessions, 3 uploads, 2 open at once, 2 attempts a part, 2 mishaps | 733,734 | a stale feed has something to wake it, a quiet session's feed converges; a listed take is whole, an import is there once (two named exceptions), and run again it lands |
| `session_page` | one of: 1 sheet, 1 poll, 1 heartbeat, 1 failed write; 2 questions, 3 replies; 2 tabs, 2 chunks, 2 events; 2 windows, one uploaded twice, 2 merges, 1 crash, 1 generation run, long outages | 330,741 | a job record moves on, ends whole and is reported; the accepted reply is used, questions settle; upload queues drain; acknowledged audio is kept, rows have blobs, runs read all, results are adopted, done merges settle |
| `takes` | one of: 2 tabs, 2 chunks, 3 events; 2 windows, one uploaded twice, 1 WAV, 1 merge, 1 sync, 1 crash, 1 lost commit, long outages; 3 runs, 2 processes, TTL 2, time to 4 | 2,100,081 | nothing lost, one owner, exact finalizes; no window twice, no finalize forgotten; overlap only after a lapse, no ghost row, an exact slot |
| `frame_bus_boot` | 2 sockets, no losses | - | a frame dropped by the first-LISTEN check (section 6) |
| `recording_audio_lost` | one window twice, 1 lost commit | - | acknowledged audio lost (section 6) |
| `recording_audio_stuck` | 2 windows, 1 merge, 1 sync | - | a done merge that never settles (section 6) |
| `chunk_uploads_windows` | 1 tab, 2 chunks | - | a recovery's finalize that lacks a window (section 6) |
| `chunk_uploads_discard` | 1 tab, 2 chunks | - | a finalize that lists a discarded chunk (section 6) |
| `media_jobs_files` | 2 lanes of 1 worker, 2 attempts, 3 mishaps | - | a done job without its file (section 6) |
| `batch_import_rerun` | 1 file of 2 parts, 1 mishap | - | a session deleted with its take (section 6) |

### The bounds and why they are enough

* *Lease.*  Two recorders suffice for exclusion; two processes one unit apart (the largest skew) let
  one think a lease expired that the other still counts.  With TTL 3 and four units of time a lease
  is claimed, heartbeated, lapses and is claimed by the other, and a failed expiry write backs off
  twice.  The theorems of section 5 remove these bounds for safety.
* *Run lease.*  Three runs over two processes put two in one process and a third against both;
  four units let a lease lapse twice.
* *Hubs and slots.*  One slot makes every two calls meet in the queue; the two sets of callers
  (`Casts`) are a hub opened twice and two hubs that share the slot; two tries reach the retry and
  its limit.  The theorems remove these bounds for safety.
* *Import job.*  One failed write falls on any write, the last included, and may land at any later
  moment; one poll meets it between any two.  `LandBound` and `Skew` are one unit each and
  `StaleAfter` two: a write lands, or is settled by the adapter, within 51 seconds of its heartbeat
  (five for the statement, 46 until its connection has settled) and a heartbeat is stale after 60.
  The same configuration was also checked with two failed writes and with two sheets.
* *Questions.*  Two questions, one with two fitting replies that race, the other with an unfit one.
* *Frames.*  Two writers order against each other and one of them can abort and retry; a second
  attachment lets a socket come back after a close; two units of time exceed the age limit of one.
* *Feed.*  Three revisions: one fetched, one that opens the window, one folded into it; two drops
  put a reconnect during a resynchronisation.
* *Jobs.*  Two attempts reach the cap.  A mishap is a lapse under a live lane, a failed statement, a
  low-disk run, a stop or a crash.  Two of them, with two jobs, let a stale lane meet its successor;
  three, with one job, add a low-disk release by the stale lane and the lapse that makes the two meet
  again.  Both lanes share a worker, as deployed.
* *Audio.*  Two merges let one be cancelled and another follow, and the second upload of a window come
  as a straggler.  One crash falls at every step of every handler.  Bounds that are zero in
  one configuration (lost commits, sync from disk) are the ones whose effect is the subject of
  another: `AckedKept` and `RowHasBlob` are false with them, and that is reported, not hidden.
  In `takes` one merge and no generation run are enough: the two properties are theorems, and
  a run only makes a swap wait.
* *Imports.*  Two parts leave an upload half done.  A mishap is a crash, a lost answer, a stop, a page
  closed, a forgotten memory, a recording that starts, a failed statement or a day that passes in a run: two of them fall
  at any two steps, in one run or in two.  Days that pass between runs are not bounded, nor are runs.
  Three sessions and three uploads are as many as are ever in use at once: an id that nothing refers
  to stands for a new one.
* *What `RerunLands` says.*  A user who runs an import again and again in the end keeps it: from some
  point on, for ever, there is a shown session with a take, or a session made without the tab hearing of
  it stands in its way.  A take that is listed for a moment and then taken out does not satisfy it.
* *Uploads.*  Two chunks give a rollover, an order and a predecessor; two tabs give a rival scan;
  three events combine, for instance, a failed request, a crash and a second page load; two, under
  which `Drains` is checked, a failed request and a reload or a discard.

Runs whose system may stop for good (`CHECK_DEADLOCK FALSE`) are those of `MCPostgres`, where with no
job left the lanes only poll, of `MCChunkUploads`, where the user may close every tab, of
`MCSessionPage` and `MCTakes`, where time is bounded, a turn's process may die and tabs may be closed, of `MCSessionHub`, where every
caller is answered and the adapter closed, and of the imports, which nobody has to run again.

## 4. Fairness

Liveness is claimed only under what the code's own timers and loops give.

| Module | Assumed | Why |
|---|---|---|
| RecordingLease | time passes (WF); every process's sweeper lists (WF) and frees (SF) | `setInterval` of a minute in every process; a database that fails every sweep for ever would be an outage, so a sweep attempted again and again succeeds once.  No alarm, no client and no hub is assumed to act |
| FrameBus | each process re-listens and receives (WF) | the listener reconnects with a delay, and the driver delivers what arrives.  No write, attachment or age is assumed |
| LiveFeed | timers fire, frames and answers arrive, a broken socket closes and reconnects (WF) | browser timers, TCP, and the reconnect loop; nobody has to focus the window |
| HubCalls | a caller's own step: the lock's holder runs and leaves, the timers of a call fire (WF, all of a caller's together) | one event loop, a deadline at every wait; the database is not assumed to answer, to find a deadlock or to end an orphan |
| ImportJob | the runner goes on, a write is answered or fails and lands or not, time passes, the page polls (WF) | the adapter bounds every statement; the page polls while it shows a live job; the runner is not assumed to live |
| DesignQuestions | the store answers or fails a put or a take, the poller ticks and reads, rows expire, the turn ends (WF) | an interval timer, the kv's expiry and the turn's deadline; no user is assumed to answer |
| MediaJobs | a lease that nobody renews lapses, a lane's loop goes on, a stopped worker restarts (WF), a queued job is claimed by some lane (SF) | lanes poll for ever, ffmpeg has a time limit, the container restarts; a claim is enabled again and again, not always, because the lanes may be at another job |
| RecordingAudio | the worker's and the apply pass's next step for each job, `Trash`, the end of a run (WF) | the apply tick repeats; MediaJobs shows that the worker settles its jobs |
| ChunkUploads | the open page's next own step, all steps together (WF) | one event loop and one backoff timer; the user is not assumed to load, retry or close anything |
| BatchImport | handlers run on, heard or not, the sweeper sweeps, the tab goes on with a run it has begun and takes answers (WF); between runs a day passes (SF) | one event loop each, the sweep's interval; nothing a run does to an upload that cannot be completed moves its expiry (only a part does, and its parts are all there).  That the user runs the import again, and that a recording in the session stops, are premises of `RerunLands`, not fairness |
| RunLease | none | safety only |

## 5. What is proved

TLAPS proves the following for every value of the constants that satisfies the modules' named
assumptions (TLC evaluates these on every run).  Nothing is left without a proof.

| Theorem | Says | Along which invariant |
|---|---|---|
| `RecordingLeaseProofs!TypeCorrect` | the lease is well typed | itself |
| `RecordingLeaseProofs!LeaseKept` | a promised lease stays stored and unexpired for its holder | `IInv` |
| `RecordingLeaseProofs!LeaseExclusive` | no two recorders hold an unexpired promise | `IInv` |
| `RecordingLeaseProofs!LeaseWatched` | the hub that stored the lease watches it | `TypeOK` and `WriterWatches` |
| `RecordingLeaseProofs!LeaseAnnounced` | a page that re-reads on each frame shows the stored holder | `TypeOK` and the property |
| `ServerRunsProofs!RunTyped` | the single flight is well typed | itself |
| `ServerRunsProofs!RunExclusive` | overlap only after a lapse | `Backed` |
| `ServerRunsProofs!RunLeavesNothing` | a released run holds no row | `Owners` |
| `ServerRunsProofs!RunSlotExact` | the slot is exact | `SlotExact` |
| `RecordingAudioProofs!AudioTyped` | the audio is well typed, one merge is live | `Typed` |
| `RecordingAudioProofs!HeardOnce` | no window is heard twice | `Typed`, `Chained`, `Sole` |
| `RecordingAudioProofs!FinalizeRemembered` | no finalize is forgotten | `Typed` and the property |
| `RecordingAudioProofs!ResultsStay` | no result that a worker left well is refused (first condition below) | `Typed`, `Chained`, `Results` |
| `RecordingAudioProofs!RowsKeepBlobs` | rows have their blobs (both conditions) | and `FilesInv` |
| `RecordingAudioProofs!AnsweredAudioStays` | answered audio is kept (both conditions) | and `Holding`, `Answered` |
| `RecordingAudioProofs!RunReads` | a run that keeps its lease reads every blob it listed (no WAV, second condition) | and `ReadNamed` |
| `MediaJobsProofs!QueueTyped` | the queue is well typed, for one worker process | `QueueInv` |
| `MediaJobsProofs!LanesOwnFiles` | no two lanes of the process share files (but of a job in `undone`) | `QueueInv` |
| `MediaJobsProofs!ResultsKept` | a done job's file is there (but of a job in `undone`) | `QueueInv` |
| `HubCallsProofs!SlotsStayExact` | the pool is well typed, its slots exact, its hand-overs clean | `SlotFacts` |
| `HubCallsProofs!AnswersTruthful` | an answered call was committed as it was told, and at most once | `SlotFacts`, `CallFacts` |
| `HubCallsProofs!HubImplementsPool` | every behaviour of the hubs is one of the pool (a refinement) | each action maps to a step or a stutter |
| `HubCallsProofs!HubsKeepPool` | the pool's invariants hold under the hubs | the two above |
| `HubCallsProofs!AdapterClosesLast` | a shutdown cuts no admitted call short | `HubFacts` |
| `ServerRunsProofs!JobTypes` | the import job is well typed | `JobInv` |
| `ServerRunsProofs!RecordMoves` | a record only moves on (an action property) | `JobInv` |
| `ServerRunsProofs!EndsWhole` | an ended record is whole | `JobInv`, `WholeInv` |
| `ServerRunsProofs!QuestionsTyped` | the questions are well typed | `QuestionInv` |
| `ServerRunsProofs!AnswersUsed` | the accepted reply, and no other, is used | `QuestionInv` |
| `BrowserTabProofs!FeedTyped` | the feed is well typed and never ahead of the server | `FeedInv` |
| `BrowserTabProofs!FeedAwake` | a stale feed has something to wake it | `FeedInv` |
| `BrowserTabProofs!TakesWhole` | a listed take has all of its bytes in its blob | `ImportTyped`, `TakeInv` |
| `BrowserTabProofs!ImportsOnce` | one take, in a session that is shown, while the tab is aware and no completion failed halfway | `ImportTyped`, `OnceInv` |
| `ChunkUploadsProofs!UploadsTyped` | the recorder, storage, locks, queues and scans are well typed | `Typed`, itself |
| `ChunkUploadsProofs!CapturedStays` | captured audio stays in storage until it may go | `Safe` (its `LossInv`) |
| `ChunkUploadsProofs!SoleOwner` | one tab owns a chunk | `Safe` (its `OwnersInv`, `ScansInv`) |
| `ChunkUploadsProofs!ListsCaptured` | a finalize lists nothing but captured windows, the recorder's own all that were not discarded | `Safe` (its `FinInv`, `TakeInv`) |
| `FrameBusProofs!BusInvariant` | what wires, sockets and drops add up to | `BusInv`, itself |
| `FrameBusProofs!BusNoSilentGap` | a socket misses no frame silently | `BusInv` |
| `FrameBusProofs!BusImplementsStream` | the bus implements FrameStream (a refinement) | `BusInv`; each action maps to a step or a stutter |

**The lease.**  `PromiseKept` is not inductive: it says that a promised row has not expired on any
clock *now*, and a tick of time may end that.  `Cover` says instead that the stored expiry lies at
least `MaxSkew` beyond the promise, so as long as true time is before the promise every clock is
before the expiry; `Fresh` bounds a promise by what a write at this moment would give, which is what
a new write needs to cover the older promise of the same holder.  From `Cover` no rival claim, alarm
or sweep has its guard true while a promise lasts, on any process.  Exclusion follows: two promised
holders would both be the row's.  `LeaseAnnounced` needs no more than the types: each action that
writes the holder sends the frame in the same step.

**The single flight.**  `Backed` is the same argument without skew.  `Owners` says that whoever holds
the row without having strayed is still running, stopping or dead in a crash, and that a renewal is
in flight only for a run that has not released: that is what waiting for it before the release buys.

**The audio.**  `Sole` says that each window a segment's audio has is pointed to by that
segment's seam; since a window has one seam, no two segments share one.  A swap keeps this only if
the merged file holds nothing but what its inputs hold *at the swap*, and that needs `Chained`: the
inputs of a running merge that are merges themselves are applied and so will not be read again, the
rows that are merges are applied, and the job at which the apply pass stands stays done.  The
theorem covers sync from disk, lost commits, crashes and the boot sweep, with any number of each.
`Typed` adds to `TypeOK` the shape of the handlers' local state (`Shape`) and the unique index
without cardinalities (`JobsTyped`).

**The files of a recording.**  These theorems say what a row, an answered upload or a run may count on,
and name what they do not cover.  *First condition* (`SweepSparesFlacs`): no window comes as WAV, or
no outage is long enough for the boot sweep to take the copied FLAC of an ingest that pends; the
sweep's exception names the files of merges only.  *Second condition* (`Sure`): no answer to a
COMMIT was lost and nobody called sync from disk (`lost = 0 /\ syncs = 0`, in the conclusion, so the
theorem speaks of every state up to the first of these).  Without them `RowHasBlob`
and `AckedKept` are false, which `recording_audio_lost` shows and section 6 reports.  The argument
goes by keys: `KeySteps` proves once that a step deletes a blob only if its key was `Doomed` (in the
trash list of a swap or named by the sweep), and that a key becomes doomed only when no row names it;
`Touched` lists the four steps that do more.  From it `MergeFile` and `FlacFile` follow a job's
result from the worker's directory to its key: nobody may remove it before the swap, so a retry after
a crash finds one or the other (`ResultsStay`).  `RowFile` and `Uploading` do the same for rows and
for uploads under way, whose key no row names yet, and `PassFile` for the pass between its copy and
its commit.  `InputsStay` says that what a merge has read stays until the merge is applied or given
up; with `Holding` a swap therefore passes on all of the audio, and an answered window never
loses its segment.  `ReadNamed` says that what a run has listed is still named by rows, because every
swap asks for the run lease, but for that of an ingest: hence no WAV there.  In this module a run keeps
its lease until it ends; a lease that lapses under a live run is the subject of RunLease.

**The job queue.**  The theorems have the hypothesis `OneWorker`, which is how the worker is deployed,
with any number of lanes.  The lanes of one process share an id, so the fence does not tell a lane
whose lease lapsed from the one that claimed its job after it.  Their files stay apart because each
claim counts an attempt and only a release gives one back.  A release comes in two cases.  A stopping
process releases, and it claims nothing until all of its lanes are idle.  And a lane releases when it
finds too little disk; then it, and the other lanes, go on claiming.  That is harmless as long as the
attempt it takes back is its own, the last one; when its lease has lapsed and another lane has claimed
the job meanwhile, the fence admits it all the same, the other lane's attempt is taken back, and its
number is given out a second time.  Section 6 reports this, and the theorems name it: they promise
nothing of a job in `undone`, and everything of all others.  `LanesCounted` carries the argument: unless
the process is stopping or the job is in `undone`, a lane's attempt is still counted.  `FilesKept` adds that nobody runs the attempt a done job
names, so nobody removes its file.  Nothing is claimed for two processes: a release by one that stops
could give its attempt's number to the other.

**The slots and the hubs.**  `SlotFacts` is inductive as it stands: type, exactness and clean
hand-overs need one another.  `CallFacts` gives, for every phase of a call, how often its write was
applied and whether a COMMIT of it is still out; the answers follow, because a call leaves a phase
with an unknown outcome only as "unknown", which is never run again.  Every step of the hubs either
starts, steps or closes the pool or leaves it alone, so the pool's theorems carry over.  `HubOrder`
says why the shutdown is safe: while the registry drains no hub is opening, a hub that is gone has
nobody in line, and the adapter is closed only when the lines are empty.

**The import job.**  `WritesInStep` says that each write in flight or given up expects a live record
and stores its successor, and `EndComesLast` that only heartbeats follow the end of an import in the
chain, which write nothing.  So a final record is expected by no write and keeps its text.
`WholeInv` counts: the lines shown and those still in the chain are the lines logged, unless the job
was lost.

**The questions.**  `QuestionInv` says what a row can be at each stage of its question: written once,
before it is shown; answered only while shown and pending, by the swap of a fitting reply; and gone
under a held question only when the turn has run out or a take was not heard.

**The feed.**  `FeedInv` adds three facts to the property: the next frame due is at most one past the
last commit, so that a commit always leaves a frame to come; a tab that sees its socket open is
attached; an answer in flight is no older than what is shown.

**The frame bus.**  `BusInv` counts: one transaction at a time holds the row lock, and the frame it
published is the next revision; the notifications on their way to a process are the last revisions, in
order; and what is no longer on its way was received by each attached socket or dropped for its age.
`NoSilentGap` is the sum of the last two.  For the refinement, a commit is a commit of the stream, a
notification that arrives or is dropped is a delivery or a drop at the sockets of its process, and the
first revision on a wire is the `next` of the stream; every other step is a stutter.

**The import.**  `ImportTyped` has the tab wait for one request at a time, that of its step and
session.  `TakeInv` follows a file: a new upload's id is named by nobody else until its staging file
is open (`MadeAlone`), so that opening it truncates nothing; what a completion has re-hashed stays whole
(`Hashed`), because a crash loses bytes of staged files only after ending every handler; from the rename
on, a blob has one completion that owns it (`Owners`), so that only a take that is not listed is
deleted.  It needs nothing of what the tab knows: any number of unheard handlers may run on.
`OnceInv` is about a tab that heard of every completion and deletion, none of which failed after it had
listed its take (`halfway`).  It hears the one in progress
(`AllHeard`), hence there is one, hence no session is hidden under a completion that was let in
(`StaysShown`), and the one take is that of the completion in progress or of a finished import
(`OneTake`), which has forgotten its upload and session and so never starts on it again.

**The upload queue.**  `Safe` is five invariants that need one another.  `OwnersInv` says that a chunk in
a queue is locked by its tab or asked for by the recorder, and that until the take is over only the
recorder has locks, of chunks it settled; so the lock of a chunk that settles is free.  This rests on
`ScansInv`: no scan gets past the take lock before the take is over, and a scan that works on an entry
belongs to a tab that does not have it in its queue, so that giving a probed lock back frees
nothing that is owned.  Before the take storage is empty, which is why a scan that is under way when it
starts has nothing left to probe.  `TakeInv` orders the chunks: what settled or stopped is earlier than
the current one, and what is captured is settled, stopped or current; hence a chunk starts where no
slice was written, and at the end of the take the list is exactly what was captured, the chunks discarded meanwhile included.  `FinInv` follows
the lists through storage, scans and recoveries: a manifest lists captured chunks and its own chunk,
which a recovery leaves out when it is empty.  `LossInv` adds why an entry may be removed: what is
confirmed is on the server, what is in the trash was discarded.

Model-checked only: the liveness properties (`ExpiredFreed`, `EveryCallAnswered`, `JobReported`,
`QuestionsSettle`, `SettlesOrCloses`, `EveryJobSettles`, `DoneMergeSettles`, `QuietConverges`,
`RerunLands`, `Drains`), because the prover does not reason about fairness and ENABLED.  Every safety
property of a passing run has a theorem.

## 6. Where the code and its documents disagree

Seven runs end in a counterexample; `PROJECT.json` quotes the lines.

* **`frame_bus_boot`.**  A receiver drops frames sealed before its first LISTEN because "no socket
  can attach before it".  The frame's time is that of its sealing, before COMMIT: a write sealed just
  before the LISTEN and committed after a socket attached is dropped although the socket is there.
  It takes a process that starts during the write.
* **`recording_audio_lost`.**  Any error of `addAudioSegment` deletes the blob, "no row names it".  If
  the connection was lost after COMMIT was sent, the row is there; the window's retry is answered with
  its holder, and the audio that was acknowledged has no bytes.
* **`recording_audio_stuck`.**  Sync from disk, called between the copy of a merged file and its
  commit, inserts a row with the merge's segment id; the swap's insert then conflicts at every tick.
* **`chunk_uploads_windows`.**  A chunk's manifest is written before the stopped chunk's window is
  known, so that a recovery's finalize lacks a window it should list.
* **`chunk_uploads_discard`.**  The queue says that discarding a chunk drops its window from the
  finalize's list.  It edits a finalize that is pending; a chunk discarded while the take still runs is
  in the take's own list by then, and the recorder's finalize lists it at the end of the take.
  `FinalizeExact` therefore bounds that list by what was captured, discarded or not.
* **`media_jobs_files`.**  An attempt's file names are its own, "so an attempt whose lease was lost never
  touches the re-claimer's files".  Lane A claims attempt 1 and its lease lapses; lane B of the same
  process requeues the job and claims attempt 2; A finds too little disk, and its release, fenced on
  the worker id that both share, takes B's attempt back; A claims attempt 2 beside B.  B finishes, A's
  renewal is refused, and A removes the files of attempt 2, which the done job names.
* **`batch_import_rerun`.**  The page closes, or the connection breaks, while a completion runs on and
  lists the take.  The next run finds the remembered upload: its status is answered (a complete upload
  has one), so it is resumed, every part is there, and its completion is unknown (only an open upload
  has one).  The runner takes that for an import that failed and deletes the session, "created but
  audio-less", with the take in it.  A completion whose statement
  fails after the upload was marked (the second look at the status, or the roll-back) ends the same way,
  although its 500 is heard.  `ImportedOnce` therefore speaks of tabs that heard of every completion and
  deletion, of which none failed after listing its take; with two mishaps others may also import the
  group twice.

One more disagreement is visible in a passing run: `jobStore.ts:9-14` says that the only other writer
of a job's record is a poll, and that the next write carries a failed write's change.  A write that
was committed but not answered is a second such writer (the job is lost although no poll touched
it), and no write follows a failed last one: a finished import then reads failed a minute later.
`EndIsWhole`, `RecordMovesOn` and `JobReported` hold all the same, which is what a page needs.

Other gaps were met, without a run; most are listed under `hazards` with a note: sync from disk lists
the blobs before its transaction; a FLAC copied just before an outage of an hour is swept; an ingest
swap does not look at the run lease; a merge that failed for good blocks the segments there are now;
a renewal that re-inserts a swept run lease moves its start; an invalidation that joins the first
fetch (`joined` in LiveFeed) may leave the feed behind until the next frame; a scan removes as empty a chunk whose first slice came after its listing (`wiped` in
ChunkUploads); two scanning tabs may skip each other's chunk; a tab that dies before the finalize
record is stored leaves the finalize to the server's reconcile; a server that dies between the sweep of an upload's row and of its file leaves the file in
`.tmp` for good.  Such exceptions (`joined`, `wiped`, `undone`, `unaware`, `halfway`) are written
into properties by named history variables, so that nothing else is excused with them.

## 7. What is not modelled

* *Signatures, access checks and validation.*  A handler appears from the point where its request is
  accepted.  Access that is withdrawn while a socket is open, and commands relayed to browsers, are
  not in FrameBus.
* *Formats.*  Peaks, durations, codecs and gaps of audio; the ingest of formats that are not WAV
  changes only those.  Names, labels, prompts, pages and messages.
* *Segment deletion and restore, YouTube imports and local imports in one request* of audio.
* *In the uploads in parts:* those of a recording's chunk, the DELETE of an upload, the caps in bytes
  and disk, parts with wrong bytes, a group whose files changed between two runs, and statements that fail before a
  completion has listed its take.
* *In the browser:* chunks kept in memory when the disk refuses, the heartbeat mode without Web
  Locks, sign-out and several users, the split of a chunk that is too large for one request.
* *In the worker:* the clean-up of old jobs, how much disk is free (a run may find too little at any time), NOTIFY as a
  wake-up (lanes poll anyway), ffmpeg itself.
* *The components marked `not_modelled` in `PROJECT.json`*, with the reason there: stores whose
  operations are one transaction each, process and network I/O, schemas, views, configuration, and
  the ones that are planned below.

## 8. Plan

What is left, in order; each item names what its properties are for.

1. `WikiPages`: revision checks, merge, split, restore, suggestions.
2. `SessionLog`: event insert, edit, undo and anchors against the transport, drop-frame timecode and
   the transcript remap as functions against reference definitions.
3. The Companion's command path, and the heartbeat mode of the upload queue.

Theorems next: the safety of the modules above, stated with them.
