---------------------------- MODULE ChunkUploads ----------------------------
(***************************************************************************)
(* The recorder and the chunk upload queue of one browser: a take is cut   *)
(* into chunks that are written to browser storage as they are captured,   *)
(* uploaded in capture order by the recording tab, and recovered from      *)
(* storage by whatever tab loads after a crash.  Web Locks (one per take,  *)
(* one per chunk) say which tab owns what.  When a recording's last chunk  *)
(* is confirmed, a finalize call tells the server its list of windows.     *)
(*                                                                         *)
(* One user and one recording; the tab Recorder records it.  Backoff       *)
(* delays are left out (a retry may come at any time), and so is a lost    *)
(* microphone, which stops a chunk and starts the next one later.          *)
(***************************************************************************)
EXTENDS Naturals, FiniteSetsExt

CONSTANTS
  Tabs, Recorder, NoTab,
  LastChunk,     \* bound: the take has at most this many chunks
  MaxEvents      \* bound: page loads, failed requests, retries and discards together

ASSUME ChunkAssumption ==
  /\ Recorder \in Tabs /\ NoTab \notin Tabs
  /\ LastChunk \in Nat \ {0}
  /\ MaxEvents \in Nat

Chunks == 1 .. LastChunk
Record == 0               \* the stored finalize record, first in every scan
Entries == {Record} \cup Chunks

VARIABLES
  take,      \* the recorder: phase, chunk being captured, chunks stopped, windows
  disk,      \* a chunk's stored entry: none, empty (manifest only) or bytes
  pend,      \* the window list in a chunk's manifest
  finRecord, \* the stored finalize record's windows, {} without one
  takeLock,  \* the tab holding the recording's lock, to record or for a probe
  lock,      \* the tab holding a chunk's lock, to own it or for a probe
  page,      \* a tab: closed, scanning storage, or open
  scan,      \* a scanning tab: what it listed, what is left, what it found
  queue,     \* a tab's queue: a chunk is out, queued, blocked or permanent
  lockAsks,  \* chunks whose lock a tab has asked for on enqueue
  unsure,    \* queued chunks to look up before the next attempt
  erring,    \* queued chunks with an error to show
  once,      \* parked chunks the user gave one attempt
  pump,      \* the attempt in progress
  fin,       \* a tab's pending finalize: its windows, {} without one
  trash,     \* discarded chunks whose entry is still to be removed
  onServer,  \* windows the server holds
  inFlight,  \* requests given up on that may still reach the server
  told,      \* finalize calls the server answered
  captured,  \* history: chunks with bytes in storage
  discarded, \* history: chunks the user discarded
  wiped,     \* history: chunks removed as empty that had bytes by then
  events     \* page loads, failures, retries and discards so far

locks == <<takeLock, lock>>
device == <<take, disk, pend, finRecord, locks>>
work == <<queue, lockAsks, unsure, erring, once>>
tabs == <<page, scan, work, pump, fin, trash>>
server == <<onServer, inFlight, told>>
fates == <<captured, discarded, wiped>>
history == <<fates, events>>
chunkVars == <<device, tabs, server, history>>

NoAttempt == [at |-> "idle", chunk |-> 0]
NoScan == [left |-> {}, probe |-> "no", bytes |-> {}, windows |-> {}, found |-> {}]
AllOut == [c \in Chunks |-> "out"]

ChunkInit ==
  /\ take = [phase |-> "before", cur |-> 0, stopped |-> {}, windows |-> {}]
  /\ disk = [c \in Chunks |-> "none"]
  /\ pend = [c \in Chunks |-> {}]
  /\ finRecord = {}
  /\ takeLock = NoTab
  /\ lock = [c \in Chunks |-> NoTab]
  /\ page = [t \in Tabs |-> IF t = Recorder THEN "open" ELSE "closed"]
  /\ scan = [t \in Tabs |-> NoScan]
  /\ queue = [t \in Tabs |-> AllOut]
  /\ lockAsks = [t \in Tabs |-> {}]
  /\ unsure = [t \in Tabs |-> {}]
  /\ erring = [t \in Tabs |-> {}]
  /\ once = [t \in Tabs |-> {}]
  /\ pump = [t \in Tabs |-> NoAttempt]
  /\ fin = [t \in Tabs |-> {}]
  /\ trash = [t \in Tabs |-> {}]
  /\ onServer = {} /\ inFlight = {} /\ told = {}
  /\ captured = {} /\ discarded = {} /\ wiped = {}
  /\ events = 0

Event == events < MaxEvents /\ events' = events + 1
Held(t) == {c \in Chunks : queue[t][c] # "out"}
Parked(t) == {c \in Chunks : queue[t][c] \in {"blocked", "permanent"}}

-----------------------------------------------------------------------------
\* The recorder.  A chunk's manifest lists the windows pushed so far and its
\* own: at a rollover the stopped chunk's window is pushed only later.
Opened(from, c) ==
  /\ take' = [from EXCEPT !.phase = "recording", !.cur = c]
  /\ disk' = [disk EXCEPT ![c] = "empty"]
  /\ pend' = [pend EXCEPT ![c] = from.windows \cup {c}]

\* Record, once the page's scan is done: the take lock, then the first chunk.
StartTake ==
  /\ take.phase = "before" /\ takeLock = NoTab
  /\ takeLock' = Recorder
  /\ Opened(take, 1)
  /\ UNCHANGED <<finRecord, lock, tabs, server, history>>

\* A slice (the last one comes with the stop) is appended to the entry.
Slice(c) ==
  /\ take.phase \in {"recording", "stopping"}
  /\ c \in take.stopped \cup {take.cur} /\ disk[c] = "empty"
  /\ disk' = [disk EXCEPT ![c] = "bytes"]
  /\ captured' = captured \cup {c}
  /\ UNCHANGED <<take, pend, finRecord, locks, tabs, server, discarded, wiped, events>>

\* The chunk timer: stop this chunk and start the next on the same stream.
Rollover ==
  /\ take.phase = "recording" /\ take.cur < LastChunk
  /\ Opened([take EXCEPT !.stopped = @ \cup {take.cur}], take.cur + 1)
  /\ UNCHANGED <<finRecord, locks, tabs, server, history>>

\* Stop is pressed.
StopTake ==
  /\ take.phase = "recording"
  /\ take' = [take EXCEPT !.phase = "stopping", !.cur = 0, !.stopped = @ \cup {take.cur}]
  /\ UNCHANGED <<disk, pend, finRecord, locks, tabs, server, history>>

\* Stopped chunks settle in capture order: an empty one is removed, another
\* is enqueued and its lock asked for.
SettleChunk(c) ==
  /\ take.phase \in {"recording", "stopping"} /\ c \in take.stopped /\ c = Min(take.stopped)
  /\ IF c \in captured
     THEN /\ take' = [take EXCEPT !.stopped = @ \ {c}, !.windows = @ \cup {c}]
          /\ queue' = [queue EXCEPT ![Recorder][c] = "queued"]
          /\ lockAsks' = [lockAsks EXCEPT ![Recorder] = @ \cup {c}]
          /\ UNCHANGED disk
     ELSE /\ take' = [take EXCEPT !.stopped = @ \ {c}]
          /\ disk' = [disk EXCEPT ![c] = "none"]
          /\ UNCHANGED <<queue, lockAsks>>
  /\ UNCHANGED <<pend, finRecord, locks, page, scan, unsure, erring, once, pump, fin, trash, server,
                 history>>

\* The browser grants the chunk lock (OneOwner says that it is free).
Own(c) ==
  /\ c \in lockAsks[Recorder] /\ lock[c] = NoTab
  /\ lock' = [lock EXCEPT ![c] = Recorder]
  /\ lockAsks' = [lockAsks EXCEPT ![Recorder] = @ \ {c}]
  /\ UNCHANGED <<take, disk, pend, finRecord, takeLock, page, scan, queue, unsure, erring, once,
                 pump, fin, trash, server, history>>

\* Mutant: the take lock goes before the chunk locks are held.
MutSettled == take.stopped = {}

\* Every chunk is settled and owned: only then may the take lock go.
Settled == take.stopped = {} /\ lockAsks[Recorder] = {}

\* The end of the take: release the lock and request the finalize.
EndTake ==
  /\ take.phase = "stopping" /\ Settled
  /\ takeLock' = NoTab
  /\ take' = [take EXCEPT !.phase = IF take.windows = {} THEN "over" ELSE "saving"]
  /\ fin' = [fin EXCEPT ![Recorder] = take.windows]
  /\ UNCHANGED <<disk, pend, finRecord, lock, page, scan, work, pump, trash, server, history>>

\* The finalize request reaches storage.
SaveFinalize ==
  /\ take.phase = "saving"
  /\ take' = [take EXCEPT !.phase = "over"]
  /\ finRecord' = fin[Recorder]
  /\ UNCHANGED <<disk, pend, locks, tabs, server, history>>

-----------------------------------------------------------------------------
\* Mutant: a chunk in doubt is not attempted again.
MutEligible(t) ==
  {c \in Chunks : c \in once[t] \cup ({d \in Chunks : queue[t][d] = "queued"} \ unsure[t])}

\* The upload queue.  Every trigger starts at most one pump, on the earliest
\* chunk that is queued or was given one attempt.
Eligible(t) == {c \in Chunks : queue[t][c] = "queued" \/ c \in once[t]}

Attempt(t) ==
  /\ page[t] = "open" /\ pump[t] = NoAttempt /\ Eligible(t) # {}
  /\ LET c == Min(Eligible(t)) IN
     /\ c \notin lockAsks[t]
     /\ once' = [once EXCEPT ![t] = @ \ {c}]
     /\ pump' = [pump EXCEPT ![t] =
                   [at |-> IF c \in unsure[t] THEN "lookup" ELSE "send", chunk |-> c]]
  /\ UNCHANGED <<device, page, scan, queue, lockAsks, unsure, erring, fin, trash, server, history>>

\* How an attempt leaves the chunk; one discarded meanwhile stays out.
Left(t, class, doubt) ==
  LET c == pump[t].chunk IN
  /\ pump' = [pump EXCEPT ![t] = NoAttempt]
  /\ IF queue[t][c] = "out" THEN UNCHANGED <<queue, unsure, erring>>
     ELSE /\ queue' = [queue EXCEPT ![t][c] = class]
          /\ unsure' = [unsure EXCEPT ![t] = IF doubt THEN @ \cup {c} ELSE @]
          /\ erring' = [erring EXCEPT ![t] = @ \cup {c}]
  /\ UNCHANGED <<device, page, scan, lockAsks, once, fin, trash>>

Pumping(t, step) == pump[t].at = step
KeepClass(t) == queue[t][pump[t].chunk]

\* The segments list is asked for the chunk's window: stored is a success.
LookupAnswers(t) ==
  LET c == pump[t].chunk IN
  /\ Pumping(t, "lookup")
  /\ IF c \in onServer
     THEN pump' = [pump EXCEPT ![t].at = "confirm"] /\ UNCHANGED unsure
     ELSE pump' = [pump EXCEPT ![t].at = "send"] /\ unsure' = [unsure EXCEPT ![t] = @ \ {c}]
  /\ UNCHANGED <<device, page, scan, queue, lockAsks, erring, once, fin, trash, server, history>>

\* Mutant: a lookup that fails counts as found.
MutLookupFails(t) ==
  /\ Pumping(t, "lookup") /\ Event
  /\ pump' = [pump EXCEPT ![t].at = "confirm"]
  /\ UNCHANGED <<device, page, scan, work, fin, trash, server, fates>>

\* The lookup fails (still unsure) or the sign-in is lost (parked).
LookupFails(t) ==
  /\ Pumping(t, "lookup") /\ Event
  /\ \E class \in {KeepClass(t), "blocked"} : Left(t, class, TRUE)
  /\ UNCHANGED <<server, fates>>

\* The bytes are read back and posted.
Send(t) ==
  /\ Pumping(t, "send") /\ disk[pump[t].chunk] = "bytes"
  /\ pump' = [pump EXCEPT ![t].at = "sent"]
  /\ UNCHANGED <<device, page, scan, work, fin, trash, server, history>>

\* The entry is gone: the server is asked before the chunk is parked, and may not answer (still
\* unsure) or ask for a sign-in.
Vanished(t) ==
  /\ Pumping(t, "send") /\ disk[pump[t].chunk] = "none"
  /\ \/ /\ pump[t].chunk \in onServer
        /\ pump' = [pump EXCEPT ![t].at = "confirm"]
        /\ UNCHANGED <<device, page, scan, work, fin, trash, events>>
     \/ pump[t].chunk \notin onServer /\ Left(t, "permanent", FALSE) /\ UNCHANGED events
     \/ Event /\ Left(t, KeepClass(t), TRUE)
     \/ Event /\ Left(t, "blocked", FALSE)
  /\ UNCHANGED <<server, fates>>

\* The server stores the window (again) and the 2xx arrives.
SendAnswered(t) ==
  /\ Pumping(t, "sent")
  /\ onServer' = onServer \cup {pump[t].chunk}
  /\ pump' = [pump EXCEPT ![t].at = "confirm"]
  /\ UNCHANGED <<device, page, scan, work, fin, trash, inFlight, told, history>>

\* A status: transient stays queued, 401 and 403 block, any other 4xx parks.
Refused(t) ==
  /\ Pumping(t, "sent") /\ Event
  /\ \E class \in {"queued", "blocked", "permanent"} : Left(t, class, FALSE)
  /\ UNCHANGED <<server, fates>>

\* No status: the request was lost, was stored, or is still on its way.
NetworkFails(t) ==
  /\ Pumping(t, "sent") /\ Event
  /\ Left(t, "queued", TRUE)
  /\ \/ UNCHANGED <<onServer, inFlight>>
     \/ onServer' = onServer \cup {pump[t].chunk} /\ UNCHANGED inFlight
     \/ inFlight' = inFlight \cup {pump[t].chunk} /\ UNCHANGED onServer
  /\ UNCHANGED <<told, fates>>

LateArrives(c) ==
  /\ c \in inFlight
  /\ inFlight' = inFlight \ {c}
  /\ onServer' = onServer \cup {c}
  /\ UNCHANGED <<device, tabs, told, history>>

Unlocked(t, c) == lock' = [lock EXCEPT ![c] = IF @ = t THEN NoTab ELSE @]

\* Confirmed: the entry goes (or a failed removal leaves it for a later
\* scan), then the chunk and its lock.
Confirm(t) ==
  LET c == pump[t].chunk IN
  /\ Pumping(t, "confirm")
  /\ \/ disk' = [disk EXCEPT ![c] = "none"] /\ UNCHANGED events
     \/ Event /\ UNCHANGED disk
  /\ pump' = [pump EXCEPT ![t] = NoAttempt]
  /\ queue' = [queue EXCEPT ![t][c] = "out"]
  /\ unsure' = [unsure EXCEPT ![t] = @ \ {c}]
  /\ erring' = [erring EXCEPT ![t] = @ \ {c}]
  /\ once' = [once EXCEPT ![t] = @ \ {c}]
  /\ Unlocked(t, c)
  /\ UNCHANGED <<take, pend, finRecord, takeLock, page, scan, lockAsks, fin, trash, server, fates>>

\* Retry: one attempt for every parked chunk.
RetryAll(t) ==
  /\ page[t] = "open" /\ Event /\ ~(Parked(t) \subseteq once[t])
  /\ once' = [once EXCEPT ![t] = @ \cup Parked(t)]
  /\ UNCHANGED <<device, page, scan, queue, lockAsks, unsure, erring, pump, fin, trash, server,
                 fates>>

\* The page shows chunks that failed and, on a recovering page, every chunk.
OwnPage(t) == t = Recorder /\ take.phase # "gone"
OnPage(t) == IF OwnPage(t) THEN erring[t] ELSE Held(t)

\* Discard: a shown chunk leaves the queue, its window a pending finalize and the
\* stored record; its entry is removed after its lock is released.
Discard(t, c) ==
  /\ page[t] = "open" /\ c \in OnPage(t) /\ Event
  /\ queue' = [queue EXCEPT ![t][c] = "out"]
  /\ lockAsks' = [lockAsks EXCEPT ![t] = @ \ {c}]
  /\ unsure' = [unsure EXCEPT ![t] = @ \ {c}]
  /\ erring' = [erring EXCEPT ![t] = @ \ {c}]
  /\ once' = [once EXCEPT ![t] = @ \ {c}]
  /\ Unlocked(t, c)
  /\ fin' = [fin EXCEPT ![t] = @ \ {c}]
  /\ finRecord' = IF fin[t] = {} THEN finRecord ELSE fin[t] \ {c}
  /\ trash' = [trash EXCEPT ![t] = @ \cup {c}]
  /\ discarded' = discarded \cup {c}
  /\ UNCHANGED <<take, disk, pend, takeLock, page, scan, pump, server, captured, wiped>>

RemoveDiscarded(t, c) ==
  /\ c \in trash[t]
  /\ disk' = [disk EXCEPT ![c] = "none"]
  /\ trash' = [trash EXCEPT ![t] = @ \ {c}]
  /\ UNCHANGED <<take, pend, finRecord, locks, page, scan, work, pump, fin, server, history>>

-----------------------------------------------------------------------------
\* The finalize call, once no chunk of the recording is in this tab's queue.
\* The recorder's own calls are told apart from those of a recovery.
FinalizeDue(t) == page[t] = "open" /\ fin[t] # {} /\ pump[t] = NoAttempt /\ Held(t) = {}
Call(t) == [own |-> OwnPage(t), windows |-> fin[t]]

\* Answered, or refused for good (400, 404): the pending finalize is done.
SendFinalize(t) ==
  /\ FinalizeDue(t)
  /\ \/ told' = told \cup {Call(t)} /\ UNCHANGED events
     \/ Event /\ UNCHANGED told
  /\ fin' = [fin EXCEPT ![t] = {}]
  /\ finRecord' = {}
  /\ UNCHANGED <<take, disk, pend, locks, page, scan, work, pump, trash, onServer, inFlight, fates>>

\* The answer is lost: the server has the list, the tab will call again.
FinalizeUnanswered(t) ==
  /\ FinalizeDue(t) /\ Event
  /\ told' = told \cup {Call(t)}
  /\ UNCHANGED <<device, tabs, onServer, inFlight, fates>>

-----------------------------------------------------------------------------
\* A page load lists storage once; the scan works on what it listed.
Load(t) ==
  /\ page[t] = "closed" /\ Event
  /\ page' = [page EXCEPT ![t] = "scanning"]
  /\ scan' = [scan EXCEPT ![t] =
       [left |-> {c \in Chunks : disk[c] # "none"} \cup {e \in {Record} : finRecord # {}},
        probe |-> "no", bytes |-> {c \in Chunks : disk[c] = "bytes"}, windows |-> finRecord,
        found |-> {}]]
  /\ UNCHANGED <<device, work, pump, fin, trash, server, fates>>

Entry(t) == Min(scan[t].left)
Probing(t, step) == page[t] = "scanning" /\ scan[t].left # {} /\ scan[t].probe = step
Skipped(t) == [scan[t] EXCEPT !.left = @ \ {Entry(t)}, !.probe = "no"]
Found(t) == [Skipped(t) EXCEPT !.found = @ \cup {Entry(t)}]
Scans(t, s) == scan' = [scan EXCEPT ![t] = s]

\* Is the take lock free?  Asking for it holds it until the answer is read;
\* an entry whose lock is held is skipped.
ProbeTake(t) ==
  /\ Probing(t, "no")
  /\ IF takeLock = NoTab
     THEN takeLock' = t /\ Scans(t, [scan[t] EXCEPT !.probe = "take"])
     ELSE Scans(t, Skipped(t)) /\ UNCHANGED takeLock
  /\ UNCHANGED <<take, disk, pend, finRecord, lock, page, work, pump, fin, trash, server, history>>

\* It was; a chunk's own lock is asked for next.
ProbeChunk(t) ==
  /\ Probing(t, "take")
  /\ takeLock' = NoTab
  /\ IF Entry(t) = Record THEN Scans(t, Found(t)) /\ UNCHANGED lock
     ELSE IF lock[Entry(t)] = NoTab
     THEN lock' = [lock EXCEPT ![Entry(t)] = t] /\ Scans(t, [scan[t] EXCEPT !.probe = "chunk"])
     ELSE Scans(t, Skipped(t)) /\ UNCHANGED lock
  /\ UNCHANGED <<take, disk, pend, finRecord, page, work, pump, fin, trash, server, history>>

\* Both were free: an entry listed without bytes is removed, another is kept.
Probed(t) ==
  LET c == Entry(t) IN
  /\ Probing(t, "chunk")
  /\ Unlocked(t, c)
  /\ IF c \in scan[t].bytes
     THEN Scans(t, [scan[t] EXCEPT !.probe = "own"]) /\ UNCHANGED <<disk, wiped>>
     ELSE /\ Scans(t, Found(t))
          /\ disk' = [disk EXCEPT ![c] = "none"]
          /\ wiped' = IF disk[c] = "bytes" THEN wiped \cup {c} ELSE wiped
  /\ UNCHANGED <<take, pend, finRecord, takeLock, page, work, pump, fin, trash, server, captured,
                 discarded, events>>

\* Mutant: an empty chunk's window stays in the list.
MutRecovered(t) ==
  IF Record \in scan[t].found THEN scan[t].windows
  ELSE IF scan[t].found = {} THEN {} ELSE pend[Max(scan[t].found)]

\* The chunk's lock is taken to keep; refused, another tab has the chunk.
HoldRecovered(t) ==
  LET c == Entry(t) IN
  /\ Probing(t, "own")
  /\ Scans(t, Found(t))
  /\ IF lock[c] = NoTab
     THEN /\ lock' = [lock EXCEPT ![c] = t]
          /\ queue' = [queue EXCEPT ![t][c] = "queued"]
          /\ unsure' = [unsure EXCEPT ![t] = @ \cup {c}]
     ELSE UNCHANGED <<lock, queue, unsure>>
  /\ UNCHANGED <<take, disk, pend, finRecord, takeLock, page, lockAsks, erring, once, pump, fin,
                 trash, server, history>>

\* The recovered recording is over: its stored list, or else the newest
\* chunk's, without the empty chunks, is what this tab will finalize.
Recovered(t) ==
  LET s == scan[t]
      chunks == s.found \ {Record}
      base == IF Record \in s.found THEN s.windows
              ELSE IF chunks = {} THEN {} ELSE pend[Max(chunks)] IN
  base \ (chunks \ s.bytes)

FinishScan(t) ==
  /\ page[t] = "scanning" /\ scan[t].left = {}
  /\ page' = [page EXCEPT ![t] = "open"]
  /\ Scans(t, NoScan)
  /\ fin' = [fin EXCEPT ![t] = Recovered(t)]
  /\ finRecord' = IF (Record \in scan[t].found) <=> (Recovered(t) = {})
                    THEN Recovered(t) ELSE finRecord
  /\ UNCHANGED <<take, disk, pend, locks, work, pump, trash, server, history>>

\* A tab dies: its memory and its locks go, a request it sent may not.
TakeGone == [phase |-> "gone", cur |-> 0, stopped |-> {}, windows |-> {}]

CloseTab(t) ==
  /\ page[t] # "closed" /\ (t = Recorder => take.phase # "before")
  /\ take' = IF t = Recorder THEN TakeGone ELSE take
  /\ takeLock' = IF takeLock = t THEN NoTab ELSE takeLock
  /\ lock' = [c \in Chunks |-> IF lock[c] = t THEN NoTab ELSE lock[c]]
  /\ page' = [page EXCEPT ![t] = "closed"]
  /\ scan' = [scan EXCEPT ![t] = NoScan]
  /\ queue' = [queue EXCEPT ![t] = AllOut]
  /\ lockAsks' = [lockAsks EXCEPT ![t] = {}]
  /\ unsure' = [unsure EXCEPT ![t] = {}]
  /\ erring' = [erring EXCEPT ![t] = {}]
  /\ once' = [once EXCEPT ![t] = {}]
  /\ pump' = [pump EXCEPT ![t] = NoAttempt]
  /\ fin' = [fin EXCEPT ![t] = {}]
  /\ trash' = [trash EXCEPT ![t] = {}]
  /\ inFlight' = IF pump[t].at = "sent" THEN inFlight \cup {pump[t].chunk} ELSE inFlight
  /\ UNCHANGED <<disk, pend, finRecord, onServer, told, history>>

-----------------------------------------------------------------------------
TabStep(t) ==
  \/ Attempt(t) \/ LookupAnswers(t) \/ Send(t) \/ Vanished(t) \/ SendAnswered(t)
  \/ Confirm(t) \/ SendFinalize(t)
  \/ ProbeTake(t) \/ ProbeChunk(t) \/ Probed(t) \/ HoldRecovered(t) \/ FinishScan(t)
  \/ \E c \in Chunks : RemoveDiscarded(t, c)

TakeStep == EndTake \/ SaveFinalize \/ \E c \in Chunks : SettleChunk(c) \/ Own(c)

ChunkNext ==
  \/ StartTake \/ Rollover \/ StopTake \/ TakeStep
  \/ \E c \in Chunks : Slice(c) \/ LateArrives(c)
  \/ \E t \in Tabs :
       \/ TabStep(t) \/ LookupFails(t) \/ Refused(t) \/ NetworkFails(t) \/ FinalizeUnanswered(t)
       \/ RetryAll(t) \/ \E c \in Chunks : Discard(t, c)
       \/ Load(t) \/ CloseTab(t)

\* Some page with a step of its own takes one, and every request is answered
\* or fails; users, crashes and page loads are free.
PageStep == TakeStep \/ \E t \in Tabs : TabStep(t)

ChunkSpec == ChunkInit /\ [][ChunkNext]_chunkVars
ChunkFairSpec == ChunkSpec /\ WF_chunkVars(PageStep)

-----------------------------------------------------------------------------
\* Captured audio is on disk until the server has it or the user discards it
\* (removal on confirm, discard and recovery), whatever crashes, lost answers
\* and second tabs do.  The one exception is wiped: a scan removes as empty a
\* chunk whose first slice came after it listed storage.
NothingLost ==
  \A c \in captured : disk[c] = "bytes" \/ c \in onServer \cup discarded \cup wiped

\* A chunk is in one tab's queue at most, and the lock that the recorder asks
\* for on enqueue is never another tab's: the take lock goes only when the
\* chunk locks are held, and a recovery takes both.
OneOwner ==
  /\ \A t, u \in Tabs : t # u => Held(t) \cap Held(u) = {}
  /\ \A t \in Tabs : \A c \in lockAsks[t] : lock[c] = NoTab

\* A finalize call lists no chunk that never had audio, and the recorder's own
\* lists every window it captured and the user kept.  It may list a window that
\* was discarded (DiscardDropsWindow).
FinalizeExact ==
  \A call \in told : /\ call.windows \subseteq captured
                     /\ call.own => captured \ discarded \subseteq call.windows

\* What the documentation says of every finalize call, a recovery's too: it
\* lists all of the recording's windows.
FinalizeListsAll ==
  \A call \in told : captured \ (discarded \cup wiped) \subseteq call.windows

\* What the queue's comment says of a discard: it drops the chunk's window from
\* the list, so that no later finalize call has it.
DiscardDropsWindow ==
  [][\A call \in told' \ told : call.windows \cap discarded = {}]_chunkVars

\* An open tab's queue drains: what is not parked is uploaded, and then the
\* finalize goes out, past blocked chunks, lost locks and lookups.
Drains ==
  \A t \in Tabs :
    []<>(\/ page[t] = "closed"
         \/ page[t] = "open" /\ Held(t) \subseteq Parked(t) /\ (fin[t] = {} \/ Held(t) # {}))
=============================================================================
