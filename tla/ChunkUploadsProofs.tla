------------------------- MODULE ChunkUploadsProofs -------------------------
(***************************************************************************)
(* Proofs about the recorder and its upload queue, for any tabs, chunks    *)
(* and bounds: no captured chunk is lost, no chunk has two owners and no   *)
(* finalize call lists what was not captured, whatever tabs crash, load    *)
(* and scan, and whatever answers are lost.                                *)
(***************************************************************************)
EXTENDS ChunkUploads, WellFoundedInduction, TLAPS

\* Min, which picks the next entry of a scan and the next chunk to upload, is in its set.
LEMMA MinIn ==
  ASSUME NEW S \in SUBSET Nat, S # {}
  PROVE  Min(S) \in S /\ \A y \in S : Min(S) <= y
<1> DEFINE R == OpToRel(<, Nat)
<1>1. PICK x \in S : \A y \in S : <<y, x>> \notin R
  <2>1. IsWellFoundedOn(R, Nat)
    BY NatLessThanWellFounded, Zenon
  <2> QED
    BY <2>1, WFMin, Zenon
<1>2. \A y \in S : ~(y < x)
  <2> SUFFICES ASSUME NEW y \in S, y < x PROVE FALSE
    OBVIOUS
  <2>1. <<y, x>> \in Nat \X Nat /\ <<y, x>>[1] < <<y, x>>[2]
    OBVIOUS
  <2> QED
    BY <1>1, <2>1 DEF OpToRel
<1>3. \A y \in S : x =< y
  BY <1>2
<1> QED
  BY <1>3 DEF Min

\* Max, which picks the manifest a recovery trusts, is one of the chunks found.
LEMMA MaxIn ==
  ASSUME NEW S \in SUBSET Chunks, S # {}
  PROVE  Max(S) \in S
<1> DEFINE T == {LastChunk - y : y \in S}
<1>1. T \in SUBSET Nat /\ T # {}
  BY ChunkAssumption DEF Chunks
<1>2. Min(T) \in T /\ \A z \in T : Min(T) <= z
  BY <1>1, MinIn
<1>3. PICK x \in S : Min(T) = LastChunk - x
  BY <1>2
<1>4. \A y \in S : x >= y
  <2> SUFFICES ASSUME NEW y \in S PROVE x >= y
    OBVIOUS
  <2>1. LastChunk - x <= LastChunk - y
    BY <1>2, <1>3
  <2> QED
    BY <2>1, ChunkAssumption DEF Chunks
<1> QED
  BY <1>4 DEF Max

-----------------------------------------------------------------------------
\* A held chunk's class, a take's phase, and the records the variables hold.  A scan that probes
\* a chunk's lock is past the finalize record.
Live == {"queued", "blocked", "permanent"}
Phases == {"before", "recording", "stopping", "saving", "over", "gone"}
Takes == [phase : Phases, cur : Chunks \cup {0}, stopped : SUBSET Chunks, windows : SUBSET Chunks]
Scannings ==
  {s \in [left : SUBSET Entries, probe : {"no", "take", "chunk", "own"}, bytes : SUBSET Chunks,
         windows : SUBSET Chunks, found : SUBSET Entries] :
     s.probe \in {"chunk", "own"} => Record \notin s.left}
Pumps == [at : {"lookup", "send", "sent", "confirm"}, chunk : Chunks] \cup {NoAttempt}

\* The types of what storage and the locks hold, of what the tabs hold, and of the rest.
DeviceTyped ==
  /\ take \in Takes /\ (take.phase = "recording" => take.cur \in Chunks)
  /\ disk \in [Chunks -> {"none", "empty", "bytes"}]
  /\ pend \in [Chunks -> SUBSET Chunks]
  /\ finRecord \in SUBSET Chunks
  /\ takeLock \in Tabs \cup {NoTab}
  /\ lock \in [Chunks -> Tabs \cup {NoTab}]

TabsTyped ==
  /\ page \in [Tabs -> {"closed", "scanning", "open"}]
  /\ scan \in [Tabs -> Scannings]
  /\ queue \in [Tabs -> [Chunks -> Live \cup {"out"}]]
  /\ lockAsks \in [Tabs -> SUBSET Chunks]
  /\ unsure \in [Tabs -> SUBSET Chunks]
  /\ erring \in [Tabs -> SUBSET Chunks]
  /\ once \in [Tabs -> SUBSET Chunks]
  /\ pump \in [Tabs -> Pumps]
  /\ fin \in [Tabs -> SUBSET Chunks]
  /\ trash \in [Tabs -> SUBSET Chunks]

RestTyped ==
  /\ onServer \in SUBSET Chunks /\ inFlight \in SUBSET Chunks
  /\ told \in SUBSET [own : BOOLEAN, windows : SUBSET Chunks]
  /\ captured \in SUBSET Chunks /\ discarded \in SUBSET Chunks /\ wiped \in SUBSET Chunks
  /\ events \in Nat

Typed == DeviceTyped /\ TabsTyped /\ RestTyped

\* The take lock is held; the take is not over.
InTake == take.phase \in {"recording", "stopping"}
Early == take.phase \in {"before", "recording", "stopping"}

\* The take: chunks settle in order and once, and what is captured is settled, stopped or current.
TakeInv ==
  /\ take.phase # "gone" => page[Recorder] = "open"
  /\ take.phase = "before" =>
       captured = {} /\ finRecord = {} /\ \A c \in Chunks : disk[c] = "none"
  /\ take.phase # "recording" => take.cur = 0
  /\ take.phase = "recording" =>
       \A c \in take.stopped \cup take.windows : c < take.cur
  /\ ~InTake => take.stopped = {}
  /\ take.phase \in {"before", "gone"} => take.windows = {}
  /\ take.windows \cap take.stopped = {}
  /\ take.windows \subseteq captured
  /\ Early => captured \subseteq take.windows \cup take.stopped \cup {take.cur}

\* The locks: a chunk in a queue is locked by that tab or asked for by the recorder, and until the
\* take is over the recorder alone has locks, of its settled chunks.
OwnersInv ==
  /\ Early => \A t \in Tabs \ {Recorder} : Held(t) = {}
  /\ Early => \A c \in Chunks : lock[c] = NoTab \/ (lock[c] = Recorder /\ c \in take.windows)
  /\ \A t \in Tabs : \A c \in Held(t) : lock[c] = t \/ c \in lockAsks[t]
  /\ \A t \in Tabs : \A c \in lockAsks[t] :
       t = Recorder /\ InTake /\ lock[c] = NoTab /\ c \in take.windows

\* The scans: none has got past the take lock before the take is over, none looks at a chunk that
\* its own tab has, and a tab that is not scanning has no scan.
ScansInv ==
  /\ InTake => takeLock = Recorder
  /\ \A t \in Tabs : page[t] # "scanning" => scan[t] = NoScan
  /\ \A t \in Tabs : page[t] = "closed" => Held(t) = {}
  /\ \A t \in Tabs : Held(t) \cap scan[t].left = {}
  /\ take.phase = "before" => \A t \in Tabs : scan[t].left = {}
  /\ Early => \A t \in Tabs : scan[t].probe = "no" /\ scan[t].found = {}

\* The lists: each holds captured chunks only, but for the own chunk of a manifest, and the
\* recorder's holds all of them that were not discarded.
FinInv ==
  /\ Early => \A t \in Tabs : fin[t] = {}
  /\ take.phase \in {"saving", "over"} =>
       fin[Recorder] = {} \/ captured \ discarded \subseteq fin[Recorder]
  /\ finRecord \subseteq captured
  /\ \A t \in Tabs : fin[t] \subseteq captured /\ scan[t].windows \subseteq captured
                     /\ scan[t].bytes \subseteq captured
  /\ \A c \in Chunks : pend[c] \ {c} \subseteq captured
  /\ \A c \in Chunks : disk[c] = "bytes" => c \in captured
  /\ \A call \in told : call.own => ~Early
  /\ FinalizeExact

\* The chunks: what is to be removed was discarded, and what is confirmed is on the server.
LossInv ==
  /\ NothingLost
  /\ \A t \in Tabs : trash[t] \subseteq discarded
  /\ \A t \in Tabs : pump[t].at = "confirm" => pump[t].chunk \in onServer
-----------------------------------------------------------------------------
\* The entry a scan looks at is one it has left.
LEMMA EntryIn ==
  ASSUME Typed, NEW t \in Tabs, scan[t].left # {}
  PROVE  /\ Entry(t) \in scan[t].left /\ Entry(t) \in Entries
         /\ Entry(t) \in Chunks <=> Record \notin scan[t].left
         /\ Entry(t) # Record => Entry(t) \in Chunks
<1>1. scan[t].left \in SUBSET Entries
  BY DEF Typed, TabsTyped, Scannings
<1>2. scan[t].left \in SUBSET Nat
  BY <1>1 DEF Entries, Record, Chunks
<1>3. Entry(t) \in scan[t].left /\ \A y \in scan[t].left : Entry(t) <= y
  BY <1>2, MinIn DEF Entry
<1>4. Entry(t) \in Entries /\ (Record \in scan[t].left => Entry(t) <= Record)
  BY <1>1, <1>3
<1> QED
  BY <1>3, <1>4 DEF Entries, Record, Chunks

\* The next probe of an entry keeps the scan a scan.
LEMMA ProbedOn ==
  ASSUME Typed, NEW t \in Tabs, NEW p \in {"no", "take", "chunk", "own"},
         p \in {"chunk", "own"} => Record \notin scan[t].left
  PROVE  LET s == [scan[t] EXCEPT !.probe = p] IN
         /\ s \in Scannings /\ s.probe = p
         /\ s.left = scan[t].left /\ s.found = scan[t].found
         /\ s.bytes = scan[t].bytes /\ s.windows = scan[t].windows
BY DEF Typed, TabsTyped, Scannings

\* What skipping an entry and keeping it as found make of a scan.
LEMMA ScannedOn ==
  ASSUME Typed, NEW t \in Tabs, scan[t].left # {}
  PROVE  /\ Skipped(t) \in Scannings /\ Found(t) \in Scannings
         /\ Skipped(t).left = scan[t].left \ {Entry(t)} /\ Found(t).left = Skipped(t).left
         /\ Skipped(t).probe = "no" /\ Found(t).probe = "no"
         /\ Skipped(t).found = scan[t].found /\ Found(t).found = scan[t].found \cup {Entry(t)}
         /\ Skipped(t).bytes = scan[t].bytes /\ Found(t).bytes = scan[t].bytes
         /\ Skipped(t).windows = scan[t].windows /\ Found(t).windows = scan[t].windows
<1>1. Entry(t) \in Entries
  BY EntryIn
<1>2. scan[t] \in Scannings
  BY DEF Typed, TabsTyped
<1> QED
  BY <1>1, <1>2 DEF Skipped, Found, Scannings

\* The list a recovery will finalize: its stored one or the newest chunk's, less empty chunks.
LEMMA RecoveredIn ==
  ASSUME Typed, NEW t \in Tabs
  PROVE  /\ Recovered(t) \in SUBSET Chunks
         /\ \/ Recovered(t) \subseteq scan[t].windows
            \/ \E m \in Chunks :
                 Recovered(t) \subseteq pend[m] /\ (m \in scan[t].bytes \/ m \notin Recovered(t))
         /\ scan[t].found = {} => Recovered(t) = {}
<1> DEFINE chunks == scan[t].found \ {Record}
           base == IF Record \in scan[t].found THEN scan[t].windows
                   ELSE IF chunks = {} THEN {} ELSE pend[Max(chunks)]
<1>1. scan[t] \in Scannings /\ pend \in [Chunks -> SUBSET Chunks]
  BY DEF Typed, TabsTyped, DeviceTyped
<1>2. chunks \in SUBSET Chunks
  BY <1>1 DEF Scannings, Entries
<1>3. Recovered(t) = base \ (chunks \ scan[t].bytes)
  BY DEF Recovered
<1>4. CASE Record \in scan[t].found
  BY <1>1, <1>3, <1>4 DEF Scannings
<1>5. CASE Record \notin scan[t].found /\ chunks = {}
  BY <1>3, <1>5
<1>6. CASE Record \notin scan[t].found /\ chunks # {}
  <2>1. PICK m \in chunks : m = Max(chunks)
    BY <1>2, <1>6, MaxIn
  <2>2. base = pend[m] /\ m \in Chunks /\ scan[t].found # {}
    BY <1>2, <1>6, <2>1
  <2>3. pend[m] \in SUBSET Chunks
    BY <1>1, <2>2
  <2> QED
    BY <1>3, <2>1, <2>2, <2>3
<1> QED
  BY <1>4, <1>5, <1>6

-----------------------------------------------------------------------------
\* What is left unchanged together.
USE DEF device, tabs, server, history, fates, locks, work

\* The recorder's state, field by field.
LEMMA TakeFields ==
  ASSUME Typed
  PROVE  /\ take = [phase |-> take.phase, cur |-> take.cur, stopped |-> take.stopped,
                    windows |-> take.windows]
         /\ take.phase \in Phases /\ take.cur \in Chunks \cup {0}
         /\ take.stopped \in SUBSET Chunks /\ take.windows \in SUBSET Chunks
BY DEF Typed, DeviceTyped, Takes

\* It after a step: the first chunk starts,
LEMMA StartIs ==
  ASSUME Typed, StartTake
  PROVE  take' = [phase |-> "recording", cur |-> 1, stopped |-> take.stopped,
                  windows |-> take.windows]
<1> PICK p, n, s, w : take = [phase |-> p, cur |-> n, stopped |-> s, windows |-> w]
  BY TakeFields
<1> QED
  BY DEF StartTake, Opened

\* the next chunk starts,
LEMMA RolloverIs ==
  ASSUME Typed, Rollover
  PROVE  /\ take.cur \in Chunks /\ take.cur + 1 \in Chunks
         /\ take' = [phase |-> "recording", cur |-> take.cur + 1,
                     stopped |-> take.stopped \cup {take.cur}, windows |-> take.windows]
         /\ disk' = [disk EXCEPT ![take.cur + 1] = "empty"]
         /\ pend' = [pend EXCEPT ![take.cur + 1] = take.windows \cup {take.cur + 1}]
<1> PICK p, n, s, w : take = [phase |-> p, cur |-> n, stopped |-> s, windows |-> w]
  BY TakeFields
<1>1. n \in Chunks /\ n + 1 \in Chunks
  BY ChunkAssumption DEF Rollover, Typed, DeviceTyped, Chunks
<1>2. [take EXCEPT !.stopped = @ \cup {take.cur}]
        = [phase |-> p, cur |-> n, stopped |-> s \cup {n}, windows |-> w]
  OBVIOUS
<1>3. take' = [phase |-> "recording", cur |-> n + 1, stopped |-> s \cup {n}, windows |-> w]
  BY <1>2 DEF Rollover, Opened
<1> QED
  BY <1>1, <1>2, <1>3 DEF Rollover, Opened

\* Stop is pressed,
LEMMA StopIs ==
  ASSUME Typed, StopTake
  PROVE  /\ take.cur \in Chunks
         /\ take' = [phase |-> "stopping", cur |-> 0, stopped |-> take.stopped \cup {take.cur},
                     windows |-> take.windows]
<1> PICK p, n, s, w : take = [phase |-> p, cur |-> n, stopped |-> s, windows |-> w]
  BY TakeFields
<1>1. take' = [phase |-> "stopping", cur |-> 0, stopped |-> s \cup {n}, windows |-> w]
  BY DEF StopTake
<1> QED
  BY <1>1 DEF StopTake, Typed, DeviceTyped

\* a stopped chunk settles, with audio or without,
LEMMA SettleIs ==
  ASSUME Typed, NEW c \in Chunks, SettleChunk(c)
  PROVE  take' = [phase |-> take.phase, cur |-> take.cur, stopped |-> take.stopped \ {c},
                  windows |-> IF c \in captured THEN take.windows \cup {c} ELSE take.windows]
<1> PICK p, n, s, w : take = [phase |-> p, cur |-> n, stopped |-> s, windows |-> w]
  BY TakeFields
<1>1. CASE c \in captured
  BY <1>1 DEF SettleChunk
<1>2. CASE c \notin captured
  BY <1>2 DEF SettleChunk
<1> QED
  BY <1>1, <1>2

\* and the take ends, and its finalize is saved.
LEMMA EndIs ==
  ASSUME Typed
  PROVE  /\ EndTake =>
              take' = [phase |-> IF take.windows = {} THEN "over" ELSE "saving", cur |-> take.cur,
                       stopped |-> take.stopped, windows |-> take.windows]
         /\ SaveFinalize =>
              take' = [phase |-> "over", cur |-> take.cur, stopped |-> take.stopped,
                       windows |-> take.windows]
<1> PICK p, n, s, w : take = [phase |-> p, cur |-> n, stopped |-> s, windows |-> w]
  BY TakeFields
<1>1. ASSUME EndTake
      PROVE  take' = [phase |-> IF w = {} THEN "over" ELSE "saving", cur |-> n, stopped |-> s,
                      windows |-> w]
  BY <1>1 DEF EndTake
<1>2. ASSUME SaveFinalize
      PROVE  take' = [phase |-> "over", cur |-> n, stopped |-> s, windows |-> w]
  BY <1>2 DEF SaveFinalize
<1> QED
  BY <1>1, <1>2

-----------------------------------------------------------------------------
\* The initial state is well typed: an idle recorder and empty storage.
LEMMA InitTyped == ChunkInit => Typed
BY ChunkAssumption DEF ChunkInit, Typed, DeviceTyped, TabsTyped, RestTyped, Takes, Phases, Scannings,
   Pumps, Live, NoScan, NoAttempt, AllOut, Chunks, Entries, Record

\* A step of the recorder keeps the types.
LEMMA TakeTyped ==
  ASSUME Typed,
         \/ StartTake \/ Rollover \/ StopTake \/ EndTake \/ SaveFinalize
         \/ \E c \in Chunks : Slice(c) \/ SettleChunk(c) \/ Own(c) \/ LateArrives(c)
  PROVE  Typed'
<1>0. take.phase \in Phases /\ take.cur \in Chunks \cup {0} /\ take.stopped \in SUBSET Chunks
      /\ take.windows \in SUBSET Chunks /\ 1 \in Chunks /\ Recorder \in Tabs
  BY TakeFields, ChunkAssumption DEF Chunks
<1>1. ASSUME StartTake PROVE Typed'
  BY <1>0, <1>1, StartIs
  DEF StartTake, Opened, Takes, Phases, Typed, DeviceTyped, TabsTyped, RestTyped
<1>2. ASSUME Rollover PROVE Typed'
  BY <1>0, <1>2, RolloverIs
  DEF Rollover, Opened, Takes, Phases, Typed, DeviceTyped, TabsTyped, RestTyped
<1>3. ASSUME StopTake PROVE Typed'
  BY <1>0, <1>3, StopIs DEF StopTake, Takes, Phases, Typed, DeviceTyped, TabsTyped, RestTyped
<1>4. ASSUME EndTake PROVE Typed'
  BY <1>0, <1>4, EndIs DEF EndTake, Takes, Phases, Typed, DeviceTyped, TabsTyped, RestTyped
<1>5. ASSUME SaveFinalize PROVE Typed'
  BY <1>0, <1>5, EndIs DEF SaveFinalize, Takes, Phases, Typed, DeviceTyped, TabsTyped, RestTyped
<1>6. ASSUME NEW c \in Chunks, Slice(c) PROVE Typed'
  BY <1>0, <1>6 DEF Slice, Typed, DeviceTyped, TabsTyped, RestTyped
<1>7. ASSUME NEW c \in Chunks, SettleChunk(c) PROVE Typed'
  <2>1. take' \in Takes /\ (take'.phase = "recording" => take'.cur \in Chunks)
    BY <1>0, <1>7, SettleIs DEF Takes, Typed, DeviceTyped
  <2>2. CASE c \in captured
    <3>1. queue' = [queue EXCEPT ![Recorder][c] = "queued"] /\ disk' = disk
          /\ lockAsks' = [lockAsks EXCEPT ![Recorder] = @ \cup {c}]
      BY <1>7, <2>2 DEF SettleChunk
    <3>2. DeviceTyped'
      BY <1>7, <2>1, <3>1 DEF SettleChunk, Typed, DeviceTyped
    <3>3. TabsTyped'
      BY <1>0, <1>7, <3>1 DEF SettleChunk, Typed, TabsTyped, Live
    <3> QED
      BY <1>7, <3>2, <3>3 DEF SettleChunk, Typed, RestTyped
  <2>3. CASE c \notin captured
    <3>1. queue' = queue /\ lockAsks' = lockAsks /\ disk' = [disk EXCEPT ![c] = "none"]
      BY <1>7, <2>3 DEF SettleChunk
    <3>2. DeviceTyped'
      BY <1>7, <2>1, <3>1 DEF SettleChunk, Typed, DeviceTyped
    <3> QED
      BY <1>7, <3>1, <3>2 DEF SettleChunk, Typed, TabsTyped, RestTyped
  <2> QED
    BY <2>2, <2>3
<1>8. ASSUME NEW c \in Chunks, Own(c) PROVE Typed'
  BY <1>0, <1>8 DEF Own, Typed, DeviceTyped, TabsTyped, RestTyped
<1>9. ASSUME NEW c \in Chunks, LateArrives(c) PROVE Typed'
  BY <1>0, <1>9 DEF LateArrives, Typed, DeviceTyped, TabsTyped, RestTyped
<1> QED
  BY <1>1, <1>2, <1>3, <1>4, <1>5, <1>6, <1>7, <1>8, <1>9

-----------------------------------------------------------------------------
\* An attempt in progress is about a chunk.
LEMMA PumpIn ==
  ASSUME Typed, NEW t \in Tabs
  PROVE  /\ pump[t] # NoAttempt => pump[t].chunk \in Chunks
         /\ pump[t] = NoAttempt <=> pump[t].at = "idle"
         /\ pump[t] # NoAttempt =>
              \E a \in {"lookup", "send", "sent", "confirm"}, c \in Chunks :
                pump[t] = [at |-> a, chunk |-> c]
<1> DEFINE Steps == {"lookup", "send", "sent", "confirm"}
<1>1. pump[t] \in [at : Steps, chunk : Chunks] \/ pump[t] = NoAttempt
  BY DEF Typed, TabsTyped, Pumps
<1>2. ASSUME pump[t] \in [at : Steps, chunk : Chunks]
      PROVE  /\ pump[t].at \in Steps /\ pump[t].chunk \in Chunks
             /\ pump[t] = [at |-> pump[t].at, chunk |-> pump[t].chunk]
  BY <1>2
<1>3. NoAttempt.at = "idle"
  BY DEF NoAttempt
<1> QED
  BY <1>1, <1>2, <1>3

\* A step of an attempt moves that attempt alone.
LEMMA PumpMoves ==
  ASSUME Typed, NEW t \in Tabs, pump[t].at # "idle",
         NEW step \in {"lookup", "send", "sent", "confirm"}, pump' = [pump EXCEPT ![t].at = step]
  PROVE  /\ pump' \in [Tabs -> Pumps]
         /\ pump'[t].at = step /\ pump'[t].chunk = pump[t].chunk
         /\ \A u \in Tabs \ {t} : pump'[u] = pump[u]
<1>1. pump \in [Tabs -> Pumps] /\ pump[t] # NoAttempt
  BY PumpIn DEF Typed, TabsTyped
<1> PICK a \in {"lookup", "send", "sent", "confirm"}, c \in Chunks :
      pump[t] = [at |-> a, chunk |-> c]
  BY <1>1, PumpIn
<1>2. pump' = [pump EXCEPT ![t] = [at |-> step, chunk |-> c]]
  <2>1. [pump[t] EXCEPT !.at = step] = [at |-> step, chunk |-> c]
    OBVIOUS
  <2>2. pump' = [pump EXCEPT ![t] = [pump[t] EXCEPT !.at = step]]
    BY <1>1
  <2> QED
    BY <2>1, <2>2
<1>3. [at |-> step, chunk |-> c] \in Pumps
  BY DEF Pumps
<1> QED
  BY <1>1, <1>2, <1>3

\* An attempt that leaves its chunk in the queue, or finds it discarded, keeps the types.
LEMMA LeftTyped ==
  ASSUME Typed, NEW t \in Tabs, NEW class \in Live \cup {"out"}, NEW doubt, pump[t] # NoAttempt,
         Left(t, class, doubt)
  PROVE  DeviceTyped' /\ TabsTyped'
<1> PICK c \in Chunks : c = pump[t].chunk
  BY PumpIn
<1>1. pump' \in [Tabs -> Pumps]
  BY DEF Left, Typed, TabsTyped, Pumps
<1>2. CASE queue[t][c] = "out"
  BY <1>1, <1>2 DEF Left, Typed, DeviceTyped, TabsTyped
<1>3. CASE queue[t][c] # "out"
  <2>1. queue' = [queue EXCEPT ![t][c] = class] /\ erring' = [erring EXCEPT ![t] = @ \cup {c}]
        /\ unsure' = [unsure EXCEPT ![t] = IF doubt THEN @ \cup {c} ELSE @]
    BY <1>3 DEF Left
  <2>2. queue' \in [Tabs -> [Chunks -> Live \cup {"out"}]]
    BY <2>1 DEF Typed, TabsTyped
  <2>3. erring' \in [Tabs -> SUBSET Chunks] /\ unsure' \in [Tabs -> SUBSET Chunks]
    BY <2>1 DEF Typed, TabsTyped
  <2> QED
    BY <1>1, <2>2, <2>3 DEF Left, Typed, DeviceTyped, TabsTyped
<1> QED
  BY <1>2, <1>3

\* An upload attempt starts on a chunk.
LEMMA AttemptIs ==
  ASSUME Typed, NEW t \in Tabs, Attempt(t)
  PROVE  \E c \in Chunks, step \in {"lookup", "send"} :
           /\ once' = [once EXCEPT ![t] = @ \ {c}]
           /\ pump' = [pump EXCEPT ![t] = [at |-> step, chunk |-> c]]
<1>1. Eligible(t) \in SUBSET Nat /\ Eligible(t) \in SUBSET Chunks /\ Eligible(t) # {}
  BY DEF Attempt, Eligible, Chunks
<1>2. Min(Eligible(t)) \in Chunks
  BY <1>1, MinIn
<1> QED
  BY <1>2 DEF Attempt

\* A released lock is free, and no other lock changes.
LEMMA UnlockedIs ==
  ASSUME Typed, NEW t \in Tabs, NEW c \in Chunks, Unlocked(t, c)
  PROVE  /\ lock' \in [Chunks -> Tabs \cup {NoTab}]
         /\ \A d \in Chunks : lock'[d] = lock[d] \/ (d = c /\ lock[c] = t /\ lock'[d] = NoTab)
BY DEF Unlocked, Typed, DeviceTyped

-----------------------------------------------------------------------------
\* A step of an upload attempt keeps the types.
LEMMA PumpTyped ==
  ASSUME Typed, NEW t \in Tabs,
         \/ Attempt(t) \/ LookupAnswers(t) \/ LookupFails(t) \/ Send(t) \/ Vanished(t)
         \/ SendAnswered(t) \/ Refused(t) \/ NetworkFails(t) \/ Confirm(t)
  PROVE  Typed'
<1> DEFINE c == pump[t].chunk
<1>0. /\ pump[t].at # "idle" => pump[t] # NoAttempt /\ c \in Chunks
      /\ {"queued", "blocked", "permanent"} \subseteq Live
      /\ pump[t] # NoAttempt => KeepClass(t) \in Live \cup {"out"}
      /\ Event => events' \in Nat
  BY PumpIn DEF Live, KeepClass, Event, Typed, TabsTyped, RestTyped
<1>1. ASSUME Attempt(t) PROVE Typed'
  <2>1. PICK d \in Chunks, step \in {"lookup", "send"} :
          /\ once' = [once EXCEPT ![t] = @ \ {d}]
          /\ pump' = [pump EXCEPT ![t] = [at |-> step, chunk |-> d]]
    BY <1>1, AttemptIs
  <2>2. [at |-> step, chunk |-> d] \in Pumps
    BY DEF Pumps
  <2>3. TabsTyped'
    BY <1>1, <2>1, <2>2 DEF Attempt, Typed, TabsTyped
  <2> QED
    BY <1>1, <2>3 DEF Attempt, Typed, DeviceTyped, RestTyped
<1>2. ASSUME LookupAnswers(t) PROVE Typed'
  <2>1. \E step \in {"confirm", "send"} : pump' = [pump EXCEPT ![t].at = step]
    BY <1>2 DEF LookupAnswers
  <2>2. pump' \in [Tabs -> Pumps]
    BY <1>2, <2>1, PumpMoves DEF LookupAnswers, Pumping
  <2>3. unsure' \in [Tabs -> SUBSET Chunks]
    BY <1>2 DEF LookupAnswers, Typed, TabsTyped
  <2> QED
    BY <1>2, <2>2, <2>3 DEF LookupAnswers, Typed, DeviceTyped, TabsTyped, RestTyped
<1>3. ASSUME Send(t) PROVE Typed'
  <2>1. pump' \in [Tabs -> Pumps]
    BY <1>3, PumpMoves DEF Send, Pumping
  <2> QED
    BY <1>3, <2>1 DEF Send, Typed, DeviceTyped, TabsTyped, RestTyped
<1>4. ASSUME SendAnswered(t) PROVE Typed'
  <2>1. pump' \in [Tabs -> Pumps] /\ onServer' \in SUBSET Chunks
    BY <1>0, <1>4, PumpMoves DEF SendAnswered, Pumping, Typed, RestTyped
  <2> QED
    BY <1>4, <2>1 DEF SendAnswered, Typed, DeviceTyped, TabsTyped, RestTyped
<1>5. ASSUME NEW k \in Live \cup {"out"}, NEW b \in BOOLEAN, Left(t, k, b), pump[t] # NoAttempt
      PROVE  DeviceTyped' /\ TabsTyped'
  BY <1>5, LeftTyped
<1>6. ASSUME LookupFails(t) \/ Refused(t) PROVE Typed'
  <2>1. DeviceTyped' /\ TabsTyped'
    BY <1>0, <1>5, <1>6 DEF LookupFails, Refused, Pumping
  <2> QED
    BY <1>0, <1>6, <2>1 DEF LookupFails, Refused, Typed, RestTyped
<1>7. ASSUME NetworkFails(t) PROVE Typed'
  <2>1. DeviceTyped' /\ TabsTyped'
    BY <1>0, <1>5, <1>7 DEF NetworkFails, Pumping
  <2> QED
    BY <1>0, <1>7, <2>1 DEF NetworkFails, Pumping, Typed, RestTyped
<1>8. ASSUME Vanished(t) PROVE Typed'
  <2>1. CASE /\ c \in onServer /\ pump' = [pump EXCEPT ![t].at = "confirm"]
             /\ UNCHANGED <<device, page, scan, work, fin, trash>>
    <3>1. pump' \in [Tabs -> Pumps]
      BY <1>8, <2>1, PumpMoves DEF Vanished, Pumping
    <3>2. UNCHANGED <<server, fates>> /\ (events' = events \/ events' = events + 1)
      BY <1>8, <2>1 DEF Vanished, Event, history
    <3>3. DeviceTyped' /\ TabsTyped'
      BY <2>1, <3>1 DEF Typed, DeviceTyped, TabsTyped
    <3> QED
      BY <3>2, <3>3 DEF Typed, RestTyped
  <2>2. CASE \E k \in {"permanent", "blocked", KeepClass(t)}, b \in BOOLEAN : Left(t, k, b)
    <3>1. DeviceTyped' /\ TabsTyped'
      BY <1>0, <1>5, <1>8, <2>2 DEF Vanished, Pumping
    <3> QED
      BY <1>0, <1>8, <3>1 DEF Vanished, Typed, RestTyped
  <2> QED
    BY <1>8, <2>1, <2>2 DEF Vanished
<1>9. ASSUME Confirm(t) PROVE Typed'
  <2> PICK d \in Chunks : d = c
    BY <1>0, <1>9 DEF Confirm, Pumping
  <2>1. lock' \in [Chunks -> Tabs \cup {NoTab}]
    BY <1>9, UnlockedIs DEF Confirm
  <2>2. disk' \in [Chunks -> {"none", "empty", "bytes"}] /\ events' \in Nat
    BY <1>0, <1>9 DEF Confirm, Typed, DeviceTyped, RestTyped
  <2>3. queue' = [queue EXCEPT ![t][d] = "out"] /\ pump' = [pump EXCEPT ![t] = NoAttempt]
        /\ unsure' = [unsure EXCEPT ![t] = @ \ {d}]
        /\ erring' = [erring EXCEPT ![t] = @ \ {d}]
        /\ once' = [once EXCEPT ![t] = @ \ {d}]
    BY <1>9 DEF Confirm
  <2>4. TabsTyped'
    BY <1>9, <2>3 DEF Confirm, Typed, TabsTyped, Pumps
  <2> QED
    BY <1>9, <2>1, <2>2, <2>4 DEF Confirm, Typed, DeviceTyped, RestTyped
<1> QED
  BY <1>1, <1>2, <1>3, <1>4, <1>6, <1>7, <1>8, <1>9

\* A user's step, a finalize call and the removal of a discarded chunk keep the types.
LEMMA QueueTyped ==
  ASSUME Typed, NEW t \in Tabs,
         \/ RetryAll(t) \/ SendFinalize(t) \/ FinalizeUnanswered(t)
         \/ \E c \in Chunks : Discard(t, c) \/ RemoveDiscarded(t, c)
  PROVE  Typed'
<1>0. (Event => events' \in Nat) /\ Call(t) \in [own : BOOLEAN, windows : SUBSET Chunks]
  BY DEF Event, Call, OwnPage, Typed, TabsTyped, RestTyped
<1>1. ASSUME RetryAll(t) PROVE Typed'
  <2>1. Parked(t) \in SUBSET Chunks
    BY DEF Parked
  <2> QED
    BY <1>0, <1>1, <2>1 DEF RetryAll, Typed, DeviceTyped, TabsTyped, RestTyped
<1>2. ASSUME SendFinalize(t) PROVE Typed'
  <2>1. told' \in SUBSET [own : BOOLEAN, windows : SUBSET Chunks] /\ events' \in Nat
    BY <1>0, <1>2 DEF SendFinalize, Typed, RestTyped
  <2> QED
    BY <1>2, <2>1 DEF SendFinalize, Typed, DeviceTyped, TabsTyped, RestTyped
<1>3. ASSUME FinalizeUnanswered(t) PROVE Typed'
  <2>1. told' \in SUBSET [own : BOOLEAN, windows : SUBSET Chunks] /\ events' \in Nat
    BY <1>0, <1>3 DEF FinalizeUnanswered, Typed, RestTyped
  <2> QED
    BY <1>3, <2>1 DEF FinalizeUnanswered, Typed, DeviceTyped, TabsTyped, RestTyped
<1>4. ASSUME NEW c \in Chunks, Discard(t, c) PROVE Typed'
  <2>1. lock' \in [Chunks -> Tabs \cup {NoTab}]
    BY <1>4, UnlockedIs DEF Discard
  <2>2. finRecord' \in SUBSET Chunks /\ discarded' \in SUBSET Chunks /\ events' \in Nat
    BY <1>0, <1>4 DEF Discard, Typed, DeviceTyped, TabsTyped, RestTyped
  <2>3. TabsTyped'
    BY <1>4 DEF Discard, Typed, TabsTyped
  <2> QED
    BY <1>4, <2>1, <2>2, <2>3 DEF Discard, Typed, DeviceTyped, RestTyped
<1>5. ASSUME NEW c \in Chunks, RemoveDiscarded(t, c) PROVE Typed'
  BY <1>5 DEF RemoveDiscarded, Typed, DeviceTyped, TabsTyped, RestTyped
<1> QED
  BY <1>1, <1>2, <1>3, <1>4, <1>5

\* A step of a page load's scan, the load and a crash keep the types.
LEMMA ScanTyped ==
  ASSUME Typed, NEW t \in Tabs,
         \/ Load(t) \/ ProbeTake(t) \/ ProbeChunk(t) \/ Probed(t) \/ HoldRecovered(t)
         \/ FinishScan(t) \/ CloseTab(t)
  PROVE  Typed'
<1>0. /\ NoScan \in Scannings /\ scan[t] \in Scannings
      /\ \A s \in Scannings : Scans(t, s) => scan' \in [Tabs -> Scannings]
  <2>1. NoScan \in Scannings
    BY DEF NoScan, Scannings
  <2>2. scan \in [Tabs -> Scannings]
    BY DEF Typed, TabsTyped
  <2>3. \A s \in Scannings : Scans(t, s) => scan' \in [Tabs -> Scannings]
    BY <2>2 DEF Scans
  <2> QED
    BY <2>1, <2>2, <2>3
<1>1. ASSUME Load(t) PROVE Typed'
  <2>1. [left |-> {c \in Chunks : disk[c] # "none"} \cup {e \in {Record} : finRecord # {}},
         probe |-> "no", bytes |-> {c \in Chunks : disk[c] = "bytes"}, windows |-> finRecord,
         found |-> {}] \in Scannings
    BY DEF Scannings, Entries, Typed, DeviceTyped
  <2>2. scan' \in [Tabs -> Scannings] /\ events' \in Nat
    BY <1>1, <2>1 DEF Load, Event, Typed, TabsTyped, RestTyped
  <2> QED
    BY <1>1, <2>2 DEF Load, Typed, DeviceTyped, TabsTyped, RestTyped
<1>2. ASSUME ProbeTake(t) PROVE Typed'
  <2>1. scan' \in [Tabs -> Scannings]
    BY <1>0, <1>2, ProbedOn, ScannedOn DEF ProbeTake, Probing
  <2>2. takeLock' \in Tabs \cup {NoTab}
    BY <1>2 DEF ProbeTake, Typed, DeviceTyped
  <2> QED
    BY <1>2, <2>1, <2>2 DEF ProbeTake, Typed, DeviceTyped, TabsTyped, RestTyped
<1>3. ASSUME ProbeChunk(t) PROVE Typed'
  <2>1. scan' \in [Tabs -> Scannings]
    BY <1>0, <1>3, EntryIn, ProbedOn, ScannedOn DEF ProbeChunk, Probing
  <2>2. lock' \in [Chunks -> Tabs \cup {NoTab}] /\ takeLock' \in Tabs \cup {NoTab}
    BY <1>3 DEF ProbeChunk, Typed, DeviceTyped
  <2> QED
    BY <1>3, <2>1, <2>2 DEF ProbeChunk, Typed, DeviceTyped, TabsTyped, RestTyped
<1>4. ASSUME Probed(t) PROVE Typed'
  <2>1. scan' \in [Tabs -> Scannings]
    BY <1>0, <1>4, ProbedOn, ScannedOn DEF Probed, Probing, Scannings
  <2>2. Entry(t) \in Chunks
    BY <1>0, <1>4, EntryIn DEF Probed, Probing, Scannings
  <2>3. lock' \in [Chunks -> Tabs \cup {NoTab}]
    BY <1>4, <2>2, UnlockedIs DEF Probed
  <2>4. disk' \in [Chunks -> {"none", "empty", "bytes"}] /\ wiped' \in SUBSET Chunks
    BY <1>4, <2>2 DEF Probed, Typed, DeviceTyped, RestTyped
  <2> QED
    BY <1>4, <2>1, <2>3, <2>4 DEF Probed, Typed, DeviceTyped, TabsTyped, RestTyped
<1>5. ASSUME HoldRecovered(t) PROVE Typed'
  <2>1. scan' \in [Tabs -> Scannings]
    BY <1>0, <1>5, ScannedOn DEF HoldRecovered, Probing
  <2> PICK c \in Chunks : c = Entry(t)
    BY <1>0, <1>5, EntryIn DEF HoldRecovered, Probing, Scannings
  <2>2. CASE lock[c] = NoTab
    <3>1. lock' = [lock EXCEPT ![c] = t] /\ queue' = [queue EXCEPT ![t][c] = "queued"]
          /\ unsure' = [unsure EXCEPT ![t] = @ \cup {c}]
      BY <1>5, <2>2 DEF HoldRecovered
    <3>2. queue' \in [Tabs -> [Chunks -> Live \cup {"out"}]]
      BY <3>1 DEF Typed, TabsTyped, Live
    <3>3. lock' \in [Chunks -> Tabs \cup {NoTab}] /\ unsure' \in [Tabs -> SUBSET Chunks]
      BY <3>1 DEF Typed, DeviceTyped, TabsTyped
    <3> QED
      BY <1>5, <2>1, <3>2, <3>3 DEF HoldRecovered, Typed, DeviceTyped, TabsTyped, RestTyped
  <2>3. CASE lock[c] # NoTab
    BY <1>5, <2>1, <2>3 DEF HoldRecovered, Typed, DeviceTyped, TabsTyped, RestTyped
  <2> QED
    BY <2>2, <2>3
<1>6. ASSUME FinishScan(t) PROVE Typed'
  <2>1. scan' \in [Tabs -> Scannings]
    BY <1>0, <1>6 DEF FinishScan
  <2>2. Recovered(t) \in SUBSET Chunks
    BY RecoveredIn
  <2>3. finRecord' \in SUBSET Chunks /\ fin' \in [Tabs -> SUBSET Chunks]
    BY <1>6, <2>2 DEF FinishScan, Typed, DeviceTyped, TabsTyped
  <2> QED
    BY <1>6, <2>1, <2>3 DEF FinishScan, Typed, DeviceTyped, TabsTyped, RestTyped
<1>7. ASSUME CloseTab(t) PROVE Typed'
  <2>1. take' \in Takes /\ (take'.phase = "recording" => take'.cur \in Chunks)
    BY <1>7 DEF CloseTab, TakeGone, Takes, Phases, Typed, DeviceTyped
  <2>2. DeviceTyped'
    BY <1>7, <2>1 DEF CloseTab, Typed, DeviceTyped
  <2>3. AllOut \in [Chunks -> Live \cup {"out"}] /\ NoAttempt \in Pumps
    BY DEF AllOut, Pumps
  <2>4. TabsTyped'
    BY <1>0, <1>7, <2>3 DEF CloseTab, Typed, TabsTyped
  <2>5. inFlight' \in SUBSET Chunks
    BY <1>7, PumpIn DEF CloseTab, Typed, RestTyped
  <2> QED
    BY <1>7, <2>2, <2>4, <2>5 DEF CloseTab, Typed, RestTyped
<1> QED
  BY <1>1, <1>2, <1>3, <1>4, <1>5, <1>6, <1>7

\* The steps of the system: those of the recorder, and those of each tab.
LEMMA StepIs ==
  ASSUME [ChunkNext]_chunkVars
  PROVE  \/ StartTake \/ Rollover \/ StopTake \/ EndTake \/ SaveFinalize
         \/ \E c \in Chunks : Slice(c) \/ SettleChunk(c) \/ Own(c) \/ LateArrives(c)
         \/ \E t \in Tabs :
              \/ Attempt(t) \/ LookupAnswers(t) \/ LookupFails(t) \/ Send(t) \/ Vanished(t)
              \/ SendAnswered(t) \/ Refused(t) \/ NetworkFails(t) \/ Confirm(t)
         \/ \E t \in Tabs :
              \/ RetryAll(t) \/ SendFinalize(t) \/ FinalizeUnanswered(t)
              \/ \E c \in Chunks : Discard(t, c) \/ RemoveDiscarded(t, c)
         \/ \E t \in Tabs :
              \/ Load(t) \/ ProbeTake(t) \/ ProbeChunk(t) \/ Probed(t) \/ HoldRecovered(t)
              \/ FinishScan(t) \/ CloseTab(t)
         \/ UNCHANGED chunkVars
BY Zenon DEF ChunkNext, TakeStep, TabStep

\* The types of the recorder, of storage, of the locks and of every tab.
THEOREM UploadsTyped == ChunkSpec => []Typed
<1>1. Typed /\ [ChunkNext]_chunkVars => Typed'
  <2> SUFFICES ASSUME Typed, [ChunkNext]_chunkVars PROVE Typed'
    OBVIOUS
  <2>1. CASE UNCHANGED chunkVars
    BY <2>1 DEF chunkVars, Typed, DeviceTyped, TabsTyped, RestTyped
  <2> QED
    BY <2>1, StepIs, TakeTyped, PumpTyped, QueueTyped, ScanTyped
<1> QED
  BY InitTyped, <1>1, PTL DEF ChunkSpec

-----------------------------------------------------------------------------
\* Steps that only give up chunks: a chunk that a tab still has keeps its lock, or the request.
Released ==
  /\ \A u \in Tabs : Held(u)' \subseteq Held(u) /\ lockAsks'[u] \subseteq lockAsks[u]
  /\ \A c \in Chunks : lock'[c] = lock[c] \/ lock'[c] = NoTab
  /\ \A u \in Tabs : \A c \in Held(u)' :
       (lock[c] = u => lock'[c] = u) /\ (c \in lockAsks[u] => c \in lockAsks'[u])

\* What an upload attempt does to the locks, to storage and to the server's windows.
LEMMA PumpDoes ==
  ASSUME Typed, NEW t \in Tabs,
         \/ Attempt(t) \/ LookupAnswers(t) \/ LookupFails(t) \/ Send(t) \/ Vanished(t)
         \/ SendAnswered(t) \/ Refused(t) \/ NetworkFails(t) \/ Confirm(t)
  PROVE  /\ UNCHANGED <<take, pend, finRecord, takeLock, page, scan, lockAsks, fin, trash, told,
                        captured, discarded, wiped>>
         /\ Released
         /\ \A c \in Chunks : disk'[c] = disk[c] \/ disk'[c] = "none"
         /\ \A c \in Chunks :
              disk'[c] # disk[c] => pump[t].at = "confirm" /\ c = pump[t].chunk
         /\ onServer \subseteq onServer'
         /\ pump'[t].at = "confirm" => pump'[t].chunk \in onServer'
         /\ \A u \in Tabs \ {t} : pump'[u] = pump[u]
<1> DEFINE c == pump[t].chunk
           Same == UNCHANGED <<take, pend, finRecord, takeLock, page, scan, lockAsks, fin, trash, told,
                               captured, discarded, wiped>>
<1>0. pump[t].at # "idle" => c \in Chunks
  BY PumpIn
<1>1. ASSUME lock' = lock, queue' = queue, lockAsks' = lockAsks PROVE Released
  BY <1>1 DEF Released, Held
<1>2. ASSUME NEW class, NEW doubt, Left(t, class, doubt), pump[t].at # "idle"
      PROVE  /\ Released /\ pump'[t] = NoAttempt /\ \A u \in Tabs \ {t} : pump'[u] = pump[u]
             /\ UNCHANGED <<device, page, scan, lockAsks, fin, trash>>
  <2>1. pump' = [pump EXCEPT ![t] = NoAttempt] /\ UNCHANGED <<device, page, scan, lockAsks, fin, trash>>
    BY <1>2 DEF Left
  <2>2. \A u \in Tabs : Held(u)' \subseteq Held(u)
    <3>1. CASE queue[t][c] = "out"
      BY <1>2, <3>1 DEF Left, Held
    <3>2. CASE queue[t][c] # "out"
      BY <1>0, <1>2, <3>2 DEF Left, Held, Typed, TabsTyped
    <3> QED
      BY <3>1, <3>2
  <2> QED
    BY <2>1, <2>2 DEF Released, Typed, TabsTyped
<1>3. NoAttempt.at = "idle" /\ NoAttempt.at # "confirm"
  BY DEF NoAttempt
<1>4. ASSUME NEW step \in {"lookup", "send", "sent", "confirm"}, pump[t].at # "idle",
             pump' = [pump EXCEPT ![t].at = step]
      PROVE  /\ pump'[t].at = step /\ pump'[t].chunk = c
             /\ \A u \in Tabs \ {t} : pump'[u] = pump[u]
  BY <1>4, PumpMoves
<1>5. CASE Attempt(t)
  <2>1. PICK d \in Chunks, step \in {"lookup", "send"} :
          pump' = [pump EXCEPT ![t] = [at |-> step, chunk |-> d]]
    BY <1>5, AttemptIs
  <2>2. pump'[t].at # "confirm" /\ \A u \in Tabs \ {t} : pump'[u] = pump[u]
    BY <2>1 DEF Typed, TabsTyped
  <2> QED
    BY <1>1, <1>5, <2>2 DEF Attempt
<1>6. CASE LookupAnswers(t)
  <2>1. CASE c \in onServer
    BY <1>1, <1>4, <1>6, <2>1 DEF LookupAnswers, Pumping
  <2>2. CASE c \notin onServer
    BY <1>1, <1>4, <1>6, <2>2 DEF LookupAnswers, Pumping
  <2> QED
    BY <2>1, <2>2
<1>7. CASE LookupFails(t)
  BY <1>2, <1>3, <1>7 DEF LookupFails, Pumping
<1>8. CASE Send(t)
  BY <1>1, <1>4, <1>8 DEF Send, Pumping
<1>9. CASE Vanished(t)
  <2>1. CASE /\ c \in onServer /\ pump' = [pump EXCEPT ![t].at = "confirm"]
             /\ UNCHANGED <<device, page, scan, work, fin, trash>>
    BY <1>1, <1>4, <1>9, <2>1 DEF Vanished, Pumping
  <2>2. CASE \E k \in {"permanent", "blocked", KeepClass(t)}, b \in BOOLEAN : Left(t, k, b)
    BY <1>2, <1>3, <1>9, <2>2 DEF Vanished, Pumping
  <2> QED
    BY <1>9, <2>1, <2>2 DEF Vanished
<1>10. CASE SendAnswered(t)
  BY <1>1, <1>4, <1>10 DEF SendAnswered, Pumping
<1>11. CASE Refused(t)
  BY <1>2, <1>3, <1>11 DEF Refused, Pumping
<1>12. CASE NetworkFails(t)
  BY <1>2, <1>3, <1>12 DEF NetworkFails, Pumping
<1>13. CASE Confirm(t)
  <2>1. c \in Chunks /\ Unlocked(t, c) /\ queue' = [queue EXCEPT ![t][c] = "out"]
        /\ pump' = [pump EXCEPT ![t] = NoAttempt] /\ Same /\ onServer' = onServer
    BY <1>0, <1>13 DEF Confirm, Pumping
  <2>2. \A u \in Tabs : Held(u)' \subseteq Held(u) /\ (u = t => c \notin Held(u)')
    BY <2>1 DEF Held, Typed, TabsTyped
  <2>3. \A d \in Chunks : lock'[d] = lock[d] \/ (d = c /\ lock[c] = t /\ lock'[d] = NoTab)
    BY <2>1, UnlockedIs
  <2>4. Released
    BY <2>1, <2>2, <2>3 DEF Released, Held
  <2>5. \A d \in Chunks : disk'[d] = disk[d] \/ (d = c /\ disk'[d] = "none")
    BY <1>13, <2>1 DEF Confirm, Typed, DeviceTyped
  <2>6. pump'[t] = NoAttempt /\ \A u \in Tabs \ {t} : pump'[u] = pump[u]
    BY <2>1 DEF Typed, TabsTyped
  <2> QED
    BY <1>3, <1>13, <2>1, <2>4, <2>5, <2>6 DEF Confirm, Pumping
<1> QED
  BY <1>5, <1>6, <1>7, <1>8, <1>9, <1>10, <1>11, <1>12, <1>13

\* What a user's step, a finalize call and the removal of a discarded chunk do.
LEMMA QueueDoes ==
  ASSUME Typed, NEW t \in Tabs,
         \/ RetryAll(t) \/ SendFinalize(t) \/ FinalizeUnanswered(t)
         \/ \E c \in Chunks : Discard(t, c) \/ RemoveDiscarded(t, c)
  PROVE  /\ UNCHANGED <<take, pend, takeLock, page, scan, pump, onServer, captured, wiped>>
         /\ Released
         /\ \A c \in Chunks : disk'[c] = disk[c] \/ (disk'[c] = "none" /\ c \in trash[t])
         /\ \A u \in Tabs \ {t} : fin'[u] = fin[u] /\ trash'[u] = trash[u]
         /\ fin'[t] \subseteq fin[t] /\ (fin'[t] = {} \/ fin[t] \ fin'[t] \subseteq discarded')
         /\ finRecord' \subseteq finRecord \cup fin[t]
         /\ discarded \subseteq discarded' /\ trash'[t] \subseteq trash[t] \cup discarded'
         /\ told' = told \/ (FinalizeDue(t) /\ told' = told \cup {Call(t)} /\ discarded' = discarded)
<1>1. ASSUME lock' = lock, queue' = queue, lockAsks' = lockAsks PROVE Released
  BY <1>1 DEF Released, Held
<1>2. CASE RetryAll(t)
  BY <1>1, <1>2 DEF RetryAll
<1>3. CASE SendFinalize(t)
  BY <1>1, <1>3 DEF SendFinalize, Typed, TabsTyped
<1>4. CASE FinalizeUnanswered(t)
  BY <1>1, <1>4 DEF FinalizeUnanswered
<1>5. ASSUME NEW c \in Chunks, RemoveDiscarded(t, c)
      PROVE  /\ UNCHANGED <<take, pend, finRecord, takeLock, page, scan, pump, onServer, captured,
                            wiped, fin, told, discarded>>
             /\ Released
             /\ \A d \in Chunks : disk'[d] = disk[d] \/ (disk'[d] = "none" /\ d \in trash[t])
             /\ \A u \in Tabs \ {t} : trash'[u] = trash[u]
             /\ trash'[t] \subseteq trash[t]
  BY <1>1, <1>5 DEF RemoveDiscarded, Typed, DeviceTyped, TabsTyped
<1>6. ASSUME NEW c \in Chunks, Discard(t, c)
      PROVE  /\ UNCHANGED <<take, disk, pend, takeLock, page, scan, pump, onServer, captured, wiped,
                            told>>
             /\ Released
             /\ \A u \in Tabs \ {t} : fin'[u] = fin[u] /\ trash'[u] = trash[u]
             /\ fin'[t] \subseteq fin[t] /\ fin[t] \ fin'[t] \subseteq discarded'
             /\ finRecord' \subseteq finRecord \cup fin[t]
             /\ discarded \subseteq discarded' /\ trash'[t] \subseteq trash[t] \cup discarded'
  <2>1. /\ queue' = [queue EXCEPT ![t][c] = "out"] /\ lockAsks' = [lockAsks EXCEPT ![t] = @ \ {c}]
        /\ Unlocked(t, c)
    BY <1>6 DEF Discard
  <2>2. \A u \in Tabs : /\ Held(u)' \subseteq Held(u)
                        /\ u = t => c \notin Held(u)'
                        /\ lockAsks'[u] = IF u = t THEN lockAsks[u] \ {c} ELSE lockAsks[u]
    BY <2>1 DEF Held, Typed, TabsTyped
  <2>3. \A d \in Chunks : lock'[d] = lock[d] \/ (d = c /\ lock[c] = t /\ lock'[d] = NoTab)
    BY <2>1, UnlockedIs
  <2>4. Released
    BY <2>2, <2>3 DEF Released, Held
  <2>5. discarded' = discarded \cup {c} /\ trash' = [trash EXCEPT ![t] = @ \cup {c}]
        /\ fin' = [fin EXCEPT ![t] = @ \ {c}]
    BY <1>6 DEF Discard
  <2>6. /\ \A u \in Tabs \ {t} : fin'[u] = fin[u] /\ trash'[u] = trash[u]
        /\ fin'[t] = fin[t] \ {c} /\ trash'[t] = trash[t] \cup {c}
    BY <2>5 DEF Typed, TabsTyped
  <2>7. finRecord' \subseteq finRecord \cup fin[t]
    BY <1>6 DEF Discard
  <2> QED
    BY <1>6, <2>4, <2>5, <2>6, <2>7 DEF Discard
<1>7. CASE \E c \in Chunks : RemoveDiscarded(t, c)
  BY <1>5, <1>7
<1>8. CASE \E c \in Chunks : Discard(t, c)
  BY <1>6, <1>8
<1> QED
  BY <1>2, <1>3, <1>4, <1>7, <1>8

\* A page that dies gives up everything it had; if it is the recorder's, the take is over.
LEMMA CloseDoes ==
  ASSUME Typed, NEW t \in Tabs, CloseTab(t)
  PROVE  /\ UNCHANGED <<disk, pend, finRecord, onServer, told, captured, discarded, wiped>>
         /\ take' = IF t = Recorder THEN TakeGone ELSE take
         /\ takeLock' = IF takeLock = t THEN NoTab ELSE takeLock
         /\ Released /\ Held(t)' = {} /\ lockAsks'[t] = {} /\ page'[t] = "closed"
         /\ scan'[t] = NoScan /\ pump'[t] = NoAttempt /\ fin'[t] = {} /\ trash'[t] = {}
         /\ \A u \in Tabs \ {t} :
              /\ page'[u] = page[u] /\ scan'[u] = scan[u] /\ pump'[u] = pump[u]
              /\ fin'[u] = fin[u] /\ trash'[u] = trash[u]
<1>1. /\ queue' = [queue EXCEPT ![t] = AllOut] /\ lockAsks' = [lockAsks EXCEPT ![t] = {}]
      /\ lock' = [c \in Chunks |-> IF lock[c] = t THEN NoTab ELSE lock[c]]
  BY DEF CloseTab
<1>2. /\ Held(t)' = {} /\ lockAsks'[t] = {}
      /\ \A u \in Tabs \ {t} : Held(u)' = Held(u) /\ lockAsks'[u] = lockAsks[u]
  BY <1>1 DEF Held, AllOut, Typed, TabsTyped
<1>3. \A c \in Chunks : lock'[c] = IF lock[c] = t THEN NoTab ELSE lock[c]
  BY <1>1
<1>4. Released
  BY <1>2, <1>3 DEF Released, Held
<1> QED
  BY <1>2, <1>4 DEF CloseTab, Typed, TabsTyped

\* What only gives up chunks keeps every chunk's owner single,
LEMMA ReleasedOwners ==
  ASSUME Typed, OwnersInv, Released, UNCHANGED take
  PROVE  OwnersInv'
<1>1. /\ \A u \in Tabs : Held(u)' \subseteq Held(u) /\ lockAsks'[u] \subseteq lockAsks[u]
      /\ \A c \in Chunks : lock'[c] = lock[c] \/ lock'[c] = NoTab
      /\ \A u \in Tabs : \A c \in Held(u)' :
           (lock[c] = u => lock'[c] = u) /\ (c \in lockAsks[u] => c \in lockAsks'[u])
      /\ Early' = Early /\ InTake' = InTake
  BY DEF Released, Early, InTake
<1>2. Early' => /\ \A t \in Tabs \ {Recorder} : Held(t)' = {}
                /\ \A c \in Chunks :
                     lock'[c] = NoTab \/ (lock'[c] = Recorder /\ c \in take'.windows)
  BY <1>1 DEF OwnersInv
<1>3. \A t \in Tabs : \A c \in Held(t)' : lock'[c] = t \/ c \in lockAsks'[t]
  BY <1>1 DEF OwnersInv
<1>4. ASSUME NEW t \in Tabs, NEW c \in lockAsks'[t]
      PROVE  t = Recorder /\ InTake' /\ lock'[c] = NoTab /\ c \in take'.windows
  <2>1. t = Recorder /\ InTake /\ lock[c] = NoTab /\ c \in take.windows /\ c \in Chunks
    BY <1>1, <1>4 DEF OwnersInv, Typed, TabsTyped
  <2> QED
    BY <1>1, <2>1
<1> QED
  BY <1>2, <1>3, <1>4 DEF OwnersInv

\* and what is not a scan's step keeps the scans.
LEMMA ReleasedScans ==
  ASSUME ScansInv, Released, UNCHANGED <<take, takeLock, page, scan>>
  PROVE  ScansInv'
BY DEF ScansInv, Released, Early, InTake

-----------------------------------------------------------------------------
\* What holds of the take, the locks, the scans, the lists and the chunks in every state.
Safe == Typed /\ TakeInv /\ OwnersInv /\ ScansInv /\ FinInv /\ LossInv

\* It holds before the take.
LEMMA InitSafe == ChunkInit => Safe
<1> SUFFICES ASSUME ChunkInit PROVE Safe
  OBVIOUS
<1>1. Typed
  BY InitTyped
<1>2. TakeInv
  BY ChunkAssumption DEF ChunkInit, TakeInv, InTake, Early
<1>3. \A t \in Tabs : Held(t) = {} /\ lockAsks[t] = {} /\ scan[t] = NoScan /\ pump[t] = NoAttempt
                      /\ fin[t] = {} /\ trash[t] = {}
  BY DEF ChunkInit, Held, AllOut
<1>4. NoScan.left = {} /\ NoScan.probe = "no" /\ NoScan.found = {} /\ NoScan.windows = {}
      /\ NoScan.bytes = {} /\ NoAttempt.at = "idle"
  BY DEF NoScan, NoAttempt
<1>5. OwnersInv
  BY <1>3 DEF ChunkInit, OwnersInv, InTake, Early
<1>6. ScansInv
  BY <1>3, <1>4 DEF ChunkInit, ScansInv, InTake, Early
<1>7. FinInv
  BY <1>3, <1>4 DEF ChunkInit, FinInv, FinalizeExact, Early
<1>8. LossInv
  BY <1>3, <1>4 DEF ChunkInit, LossInv, NothingLost
<1> QED
  BY <1>1, <1>2, <1>5, <1>6, <1>7, <1>8 DEF Safe

\* An upload attempt keeps it: only a confirmed chunk leaves storage.
LEMMA PumpSafe ==
  ASSUME Safe, NEW t \in Tabs,
         \/ Attempt(t) \/ LookupAnswers(t) \/ LookupFails(t) \/ Send(t) \/ Vanished(t)
         \/ SendAnswered(t) \/ Refused(t) \/ NetworkFails(t) \/ Confirm(t)
  PROVE  Safe'
<1> USE DEF Safe
<1>1. /\ UNCHANGED <<take, pend, finRecord, takeLock, page, scan, lockAsks, fin, trash, told,
                     captured, discarded, wiped>>
      /\ Released
      /\ \A c \in Chunks : disk'[c] = disk[c] \/ disk'[c] = "none"
      /\ \A c \in Chunks :
           disk'[c] # disk[c] => pump[t].at = "confirm" /\ c = pump[t].chunk
      /\ onServer \subseteq onServer'
      /\ pump'[t].at = "confirm" => pump'[t].chunk \in onServer'
      /\ \A u \in Tabs \ {t} : pump'[u] = pump[u]
  BY PumpDoes
<1>2. Typed'
  BY PumpTyped
<1>3. TakeInv'
  BY <1>1 DEF TakeInv, InTake, Early
<1>4. OwnersInv' /\ ScansInv'
  BY <1>1, ReleasedOwners, ReleasedScans
<1>5. FinInv'
  BY <1>1 DEF FinInv, FinalizeExact, Early
<1>6. LossInv'
  <2>1. \A c \in Chunks : disk'[c] # disk[c] => c \in onServer
    BY <1>1 DEF LossInv
  <2>2. NothingLost'
    BY <1>1, <2>1 DEF LossInv, NothingLost, Typed, RestTyped
  <2> QED
    BY <1>1, <2>2 DEF LossInv
<1> QED
  BY <1>2, <1>3, <1>4, <1>5, <1>6

\* So do a user's step, a finalize call and the removal of a discarded chunk: a call is due only
\* with a list, and the recorder has one only once the take is over.
LEMMA QueueSafe ==
  ASSUME Safe, NEW t \in Tabs,
         \/ RetryAll(t) \/ SendFinalize(t) \/ FinalizeUnanswered(t)
         \/ \E c \in Chunks : Discard(t, c) \/ RemoveDiscarded(t, c)
  PROVE  Safe'
<1> USE DEF Safe
<1>1. /\ UNCHANGED <<take, pend, takeLock, page, scan, pump, onServer, captured, wiped>>
      /\ Released
      /\ \A c \in Chunks : disk'[c] = disk[c] \/ (disk'[c] = "none" /\ c \in trash[t])
      /\ \A u \in Tabs \ {t} : fin'[u] = fin[u] /\ trash'[u] = trash[u]
      /\ fin'[t] \subseteq fin[t] /\ (fin'[t] = {} \/ fin[t] \ fin'[t] \subseteq discarded')
      /\ finRecord' \subseteq finRecord \cup fin[t]
      /\ discarded \subseteq discarded' /\ trash'[t] \subseteq trash[t] \cup discarded'
      /\ told' = told \/ (FinalizeDue(t) /\ told' = told \cup {Call(t)} /\ discarded' = discarded)
  BY QueueDoes
<1>2. Typed'
  BY QueueTyped
<1>3. TakeInv'
  BY <1>1 DEF TakeInv, FinInv, InTake, Early
<1>4. OwnersInv' /\ ScansInv'
  BY <1>1, ReleasedOwners, ReleasedScans
<1>5. ASSUME FinalizeDue(t)
      PROVE  /\ Call(t).windows \subseteq captured
             /\ Call(t).own => ~Early /\ captured \ discarded \subseteq Call(t).windows
  <2>1. Call(t).windows = fin[t] /\ (Call(t).own <=> OwnPage(t))
    BY DEF Call
  <2>2. fin[t] # {} /\ fin[t] \subseteq captured /\ ~Early
    BY <1>5 DEF FinalizeDue, FinInv
  <2>3. ASSUME OwnPage(t) PROVE captured \ discarded \subseteq fin[t]
    <3>1. t = Recorder /\ take.phase \in {"saving", "over"}
      BY <2>2, <2>3 DEF OwnPage, Early, Typed, DeviceTyped, Takes, Phases
    <3> QED
      BY <2>2, <3>1 DEF FinInv
  <2> QED
    BY <2>1, <2>2, <2>3
<1>6. FinInv'
  <2>1. \A call \in told' : call \in told \/ (FinalizeDue(t) /\ call = Call(t))
    BY <1>1
  <2>2. FinalizeExact' /\ \A call \in told' : call.own => ~Early'
    BY <1>1, <1>5, <2>1 DEF FinInv, FinalizeExact, Early
  <2>3. finRecord' \subseteq captured'
    BY <1>1 DEF FinInv
  <2>4. \A u \in Tabs : /\ fin'[u] \subseteq fin[u]
                        /\ fin'[u] = {} \/ fin[u] \ fin'[u] \subseteq discarded'
    BY <1>1
  <2>5. take.phase \in {"saving", "over"} =>
          fin'[Recorder] = {} \/ captured' \ discarded' \subseteq fin'[Recorder]
    BY <1>1, <2>4, ChunkAssumption DEF FinInv
  <2> QED
    BY <1>1, <2>2, <2>3, <2>4, <2>5 DEF FinInv, Early
<1>7. LossInv'
  <2>1. \A c \in Chunks : disk'[c] # disk[c] => c \in discarded'
    BY <1>1 DEF LossInv
  <2>2. NothingLost'
    BY <1>1, <2>1 DEF LossInv, NothingLost, Typed, RestTyped
  <2> QED
    BY <1>1, <2>2 DEF LossInv
<1> QED
  BY <1>2, <1>3, <1>4, <1>6, <1>7

\* So does the death of a page: its locks and its lists go with it.
LEMMA CloseSafe ==
  ASSUME Safe, NEW t \in Tabs, CloseTab(t)
  PROVE  Safe'
<1> USE DEF Safe
<1>1. /\ UNCHANGED <<disk, pend, finRecord, onServer, told, captured, discarded, wiped>>
      /\ take' = IF t = Recorder THEN TakeGone ELSE take
      /\ takeLock' = IF takeLock = t THEN NoTab ELSE takeLock
      /\ Released /\ Held(t)' = {} /\ lockAsks'[t] = {} /\ page'[t] = "closed"
      /\ scan'[t] = NoScan /\ pump'[t] = NoAttempt /\ fin'[t] = {} /\ trash'[t] = {}
      /\ \A u \in Tabs \ {t} :
           /\ page'[u] = page[u] /\ scan'[u] = scan[u] /\ pump'[u] = pump[u]
           /\ fin'[u] = fin[u] /\ trash'[u] = trash[u]
  BY CloseDoes
<1>2. /\ TakeGone.phase = "gone" /\ TakeGone.cur = 0 /\ TakeGone.stopped = {} /\ TakeGone.windows = {}
      /\ NoScan.left = {} /\ NoScan.probe = "no" /\ NoScan.found = {} /\ NoScan.windows = {}
      /\ NoScan.bytes = {} /\ NoAttempt.at = "idle"
  BY DEF TakeGone, NoScan, NoAttempt
<1>3. Typed'
  BY ScanTyped
<1>4. TakeInv'
  BY <1>1, <1>2, ChunkAssumption DEF TakeInv, InTake, Early
<1>5. OwnersInv'
  <2>1. CASE t # Recorder
    BY <1>1, <2>1, ReleasedOwners
  <2>2. CASE t = Recorder
    <3>1. ~Early' /\ \A u \in Tabs : lockAsks'[u] = {}
      BY <1>1, <1>2, <2>2 DEF Released, OwnersInv, Early
    <3> QED
      BY <1>1, <3>1 DEF Released, OwnersInv
  <2> QED
    BY <2>1, <2>2
<1>6. ScansInv'
  <2>1. (take' = take /\ t # Recorder) \/ (~Early' /\ ~InTake')
    BY <1>1, <1>2 DEF Early, InTake
  <2>2. \A u \in Tabs : Held(u)' \subseteq Held(u) /\ (scan'[u] = scan[u] \/ scan'[u] = NoScan)
    BY <1>1 DEF Released
  <2> QED
    BY <1>1, <1>2, <2>1, <2>2 DEF ScansInv, Early, InTake
<1>7. FinInv'
  <2>1. take' = take \/ (~Early' /\ take'.phase = "gone")
    BY <1>1, <1>2 DEF Early
  <2>2. \A u \in Tabs : /\ fin'[u] = fin[u] \/ fin'[u] = {}
                        /\ scan'[u] = scan[u] \/ scan'[u] = NoScan
    BY <1>1
  <2> QED
    BY <1>1, <1>2, <2>1, <2>2, ChunkAssumption DEF FinInv, FinalizeExact, Early
<1>8. LossInv'
  BY <1>1, <1>2 DEF LossInv, NothingLost
<1> QED
  BY <1>3, <1>4, <1>5, <1>6, <1>7, <1>8

\* A recorder's step keeps it.  The first chunk starts in empty storage with no scan at work,
LEMMA StartSafe ==
  ASSUME Safe, StartTake
  PROVE  Safe'
<1> USE DEF Safe
<1>1. /\ take.phase = "before" /\ takeLock' = Recorder
      /\ disk' = [disk EXCEPT ![1] = "empty"] /\ pend' = [pend EXCEPT ![1] = take.windows \cup {1}]
      /\ UNCHANGED <<finRecord, lock, tabs, server, history>>
  BY DEF StartTake, Opened
<1>2. /\ take'.phase = "recording" /\ take'.cur = 1
      /\ take'.stopped = take.stopped /\ take'.windows = take.windows
  BY StartIs
<1>3. captured = {} /\ take.windows = {} /\ take.stopped = {} /\ 1 \in Chunks
  BY <1>1, ChunkAssumption DEF TakeInv, InTake, Chunks
<1>4. Typed'
  BY TakeTyped
<1>5. TakeInv'
  BY <1>1, <1>2, <1>3 DEF TakeInv, InTake, Early
<1>6. OwnersInv'
  BY <1>1, <1>2, <1>3 DEF OwnersInv, InTake, Early, Held
<1>7. ScansInv'
  BY <1>1, <1>2 DEF ScansInv, InTake, Early, Held
<1>8. FinInv'
  <2>1. \A c \in Chunks : /\ pend'[c] \ {c} \subseteq pend[c] \ {c} \/ pend'[c] \ {c} = {}
                          /\ disk'[c] = "bytes" => disk[c] = "bytes"
    BY <1>1, <1>3 DEF Typed, DeviceTyped
  <2> QED
    BY <1>1, <1>2, <2>1 DEF FinInv, FinalizeExact, Early
<1>9. LossInv'
  BY <1>1, <1>3 DEF LossInv, NothingLost
<1> QED
  BY <1>4, <1>5, <1>6, <1>7, <1>8, <1>9

\* the next one in a place no slice was written to,
LEMMA RolloverSafe ==
  ASSUME Safe, Rollover
  PROVE  Safe'
<1> USE DEF Safe
<1> DEFINE n == take.cur
<1>1. /\ take.phase = "recording" /\ UNCHANGED <<finRecord, locks, tabs, server, history>>
  BY DEF Rollover
<1>2. /\ n \in Chunks /\ n + 1 \in Chunks
      /\ take'.phase = "recording" /\ take'.cur = n + 1
      /\ take'.stopped = take.stopped \cup {n} /\ take'.windows = take.windows
      /\ disk' = [disk EXCEPT ![n + 1] = "empty"]
      /\ pend' = [pend EXCEPT ![n + 1] = take.windows \cup {n + 1}]
  BY RolloverIs
<1>3. \A c \in take.stopped \cup take.windows : c \in Chunks /\ c < n
  BY <1>1, TakeFields DEF TakeInv
<1>4. \A c \in captured : c \in Chunks /\ (c < n \/ c = n)
  BY <1>1, <1>3 DEF TakeInv, Early, Typed, RestTyped
<1>5. n + 1 \notin captured /\ n \notin take.windows
  BY <1>2, <1>3, <1>4, ChunkAssumption DEF Chunks
<1>6. Typed'
  BY TakeTyped
<1>7. TakeInv'
  <2>1. \A c \in take'.stopped \cup take'.windows : c < take'.cur
    BY <1>2, <1>3, ChunkAssumption DEF Chunks
  <2>2. take'.windows \cap take'.stopped = {}
    BY <1>1, <1>2, <1>5 DEF TakeInv
  <2>3. captured' \subseteq take'.windows \cup take'.stopped \cup {take'.cur}
    BY <1>1, <1>2 DEF TakeInv, Early
  <2> QED
    BY <1>1, <1>2, <2>1, <2>2, <2>3 DEF TakeInv, InTake, Early
<1>8. OwnersInv'
  BY <1>1, <1>2 DEF OwnersInv, InTake, Early, Held
<1>9. ScansInv'
  BY <1>1, <1>2 DEF ScansInv, InTake, Early, Held
<1>10. FinInv'
  <2>1. \A c \in Chunks : /\ \/ pend'[c] \ {c} \subseteq pend[c] \ {c}
                             \/ pend'[c] \ {c} \subseteq take.windows
                          /\ disk'[c] = "bytes" => disk[c] = "bytes"
    BY <1>2 DEF Typed, DeviceTyped
  <2>2. take.windows \subseteq captured
    BY DEF TakeInv
  <2> QED
    BY <1>1, <1>2, <2>1, <2>2 DEF FinInv, FinalizeExact, Early
<1>11. LossInv'
  <2>1. \A c \in captured : c \in Chunks /\ disk'[c] = disk[c]
    BY <1>2, <1>4, <1>5 DEF Typed, DeviceTyped
  <2> QED
    BY <1>1, <2>1 DEF LossInv, NothingLost
<1> QED
  BY <1>6, <1>7, <1>8, <1>9, <1>10, <1>11

\* the stop leaves the last chunk to settle,
LEMMA StopSafe ==
  ASSUME Safe, StopTake
  PROVE  Safe'
<1> USE DEF Safe
<1> DEFINE n == take.cur
<1>1. /\ take.phase = "recording" /\ UNCHANGED <<disk, pend, finRecord, locks, tabs, server, history>>
  BY DEF StopTake
<1>2. /\ n \in Chunks
      /\ take'.phase = "stopping" /\ take'.cur = 0
      /\ take'.stopped = take.stopped \cup {n} /\ take'.windows = take.windows
  BY StopIs
<1>3. n \notin take.windows
  <2>1. \A c \in take.windows : c < n
    BY <1>1 DEF TakeInv
  <2> QED
    BY <1>2, <2>1, ChunkAssumption DEF Chunks
<1>4. Typed'
  BY TakeTyped
<1>5. TakeInv'
  BY <1>1, <1>2, <1>3 DEF TakeInv, InTake, Early
<1>6. OwnersInv'
  BY <1>1, <1>2 DEF OwnersInv, InTake, Early, Held
<1>7. ScansInv'
  BY <1>1, <1>2 DEF ScansInv, InTake, Early, Held
<1>8. FinInv'
  BY <1>1, <1>2 DEF FinInv, FinalizeExact, Early
<1>9. LossInv'
  BY <1>1 DEF LossInv, NothingLost
<1> QED
  BY <1>4, <1>5, <1>6, <1>7, <1>8, <1>9

\* a slice makes its chunk captured, in storage,
LEMMA SliceSafe ==
  ASSUME Safe, NEW c \in Chunks, Slice(c)
  PROVE  Safe'
<1> USE DEF Safe
<1>1. /\ InTake /\ c \in take.stopped \cup {take.cur}
      /\ disk' = [disk EXCEPT ![c] = "bytes"] /\ captured' = captured \cup {c}
      /\ UNCHANGED <<take, pend, finRecord, locks, tabs, server, discarded, wiped>>
  BY DEF Slice, InTake
<1>2. disk'[c] = "bytes" /\ \A d \in Chunks \ {c} : disk'[d] = disk[d]
  BY <1>1 DEF Typed, DeviceTyped
<1>3. Typed'
  BY TakeTyped
<1>4. TakeInv'
  BY <1>1 DEF TakeInv, InTake, Early
<1>5. OwnersInv' /\ ScansInv'
  BY <1>1 DEF OwnersInv, ScansInv, InTake, Early, Held
<1>6. FinInv'
  <2>1. Early /\ take.phase \notin {"saving", "over"}
    BY <1>1 DEF InTake, Early
  <2>2. FinalizeExact'
    BY <1>1, <2>1 DEF FinInv, FinalizeExact
  <2> QED
    BY <1>1, <1>2, <2>1, <2>2 DEF FinInv, Early
<1>7. LossInv'
  BY <1>1, <1>2 DEF LossInv, NothingLost, Typed, RestTyped
<1> QED
  BY <1>3, <1>4, <1>5, <1>6, <1>7

\* a chunk that settles has had no owner, and is removed only when it has no audio,
LEMMA SettleSafe ==
  ASSUME Safe, NEW c \in Chunks, SettleChunk(c)
  PROVE  Safe'
<1> USE DEF Safe
<1>1. /\ InTake /\ c \in take.stopped
      /\ UNCHANGED <<pend, finRecord, locks, page, scan, unsure, erring, once, pump, fin, trash,
                     server, history>>
  BY DEF SettleChunk, InTake
<1>2. /\ take'.phase = take.phase /\ take'.cur = take.cur /\ take'.stopped = take.stopped \ {c}
      /\ take'.windows = IF c \in captured THEN take.windows \cup {c} ELSE take.windows
  BY SettleIs
<1>3. Early /\ Early' /\ InTake' /\ take.phase # "before"
  BY <1>1, <1>2 DEF InTake, Early
<1>4. c \notin take.windows /\ lock[c] = NoTab
  BY <1>1, <1>3 DEF TakeInv, OwnersInv
<1>5. page[Recorder] = "open" /\ scan[Recorder] = NoScan /\ NoScan.left = {} /\ Recorder \in Tabs
  BY <1>1, ChunkAssumption DEF TakeInv, ScansInv, InTake, NoScan
<1>6. Typed'
  BY TakeTyped
<1>7. TakeInv'
  <2>1. /\ take'.windows \subseteq captured
        /\ captured \subseteq take'.windows \cup take'.stopped \cup {take'.cur}
    BY <1>1, <1>2, <1>3 DEF TakeInv
  <2>2. take'.windows \cap take'.stopped = {}
    BY <1>2 DEF TakeInv
  <2>3. take'.stopped \cup take'.windows \subseteq take.stopped \cup take.windows
    BY <1>1, <1>2
  <2> QED
    BY <1>1, <1>2, <1>3, <2>1, <2>2, <2>3 DEF TakeInv, InTake
<1>8. CASE c \in captured
  <2>1. /\ queue' = [queue EXCEPT ![Recorder][c] = "queued"] /\ disk' = disk
        /\ lockAsks' = [lockAsks EXCEPT ![Recorder] = @ \cup {c}]
    BY <1>8 DEF SettleChunk
  <2>2. /\ \A t \in Tabs \ {Recorder} : Held(t)' = Held(t) /\ lockAsks'[t] = lockAsks[t]
        /\ Held(Recorder)' \subseteq Held(Recorder) \cup {c}
        /\ lockAsks'[Recorder] = lockAsks[Recorder] \cup {c}
    BY <1>5, <2>1 DEF Held, Typed, TabsTyped
  <2>3. take'.windows = take.windows \cup {c}
    BY <1>2, <1>8
  <2>4. OwnersInv'
    BY <1>1, <1>3, <1>4, <1>5, <2>2, <2>3 DEF OwnersInv
  <2>5. ScansInv'
    BY <1>1, <1>2, <1>3, <1>5, <2>2 DEF ScansInv
  <2>6. FinInv'
    BY <1>1, <1>2, <1>3, <2>1 DEF FinInv, FinalizeExact
  <2>7. LossInv'
    BY <1>1, <2>1 DEF LossInv, NothingLost
  <2> QED
    BY <1>6, <1>7, <2>4, <2>5, <2>6, <2>7
<1>9. CASE c \notin captured
  <2>1. queue' = queue /\ lockAsks' = lockAsks /\ disk' = [disk EXCEPT ![c] = "none"]
    BY <1>9 DEF SettleChunk
  <2>2. disk'[c] = "none" /\ \A d \in Chunks \ {c} : disk'[d] = disk[d]
    BY <2>1 DEF Typed, DeviceTyped
  <2>3. OwnersInv'
    BY <1>1, <1>2, <1>3, <1>9, <2>1 DEF OwnersInv, Held
  <2>4. ScansInv'
    BY <1>1, <1>2, <1>3, <2>1 DEF ScansInv, Held
  <2>5. FinInv'
    BY <1>1, <1>2, <1>3, <2>2 DEF FinInv, FinalizeExact
  <2>6. LossInv'
    BY <1>1, <1>9, <2>2 DEF LossInv, NothingLost, Typed, RestTyped
  <2> QED
    BY <1>6, <1>7, <2>3, <2>4, <2>5, <2>6
<1> QED
  BY <1>8, <1>9

\* the lock it asked for becomes the recorder's,
LEMMA OwnSafe ==
  ASSUME Safe, NEW c \in Chunks, Own(c)
  PROVE  Safe'
<1> USE DEF Safe
<1>1. /\ c \in lockAsks[Recorder] /\ lock' = [lock EXCEPT ![c] = Recorder]
      /\ lockAsks' = [lockAsks EXCEPT ![Recorder] = @ \ {c}]
      /\ UNCHANGED <<take, disk, pend, finRecord, takeLock, page, scan, queue, unsure, erring, once,
                     pump, fin, trash, server, history>>
  BY DEF Own
<1>2. InTake /\ Early /\ c \in take.windows /\ lock[c] = NoTab
  BY <1>1, ChunkAssumption DEF OwnersInv, InTake, Early
<1>3. /\ lock'[c] = Recorder /\ \A d \in Chunks \ {c} : lock'[d] = lock[d]
      /\ lockAsks'[Recorder] = lockAsks[Recorder] \ {c}
      /\ \A t \in Tabs \ {Recorder} : lockAsks'[t] = lockAsks[t]
  BY <1>1, ChunkAssumption DEF Typed, DeviceTyped, TabsTyped
<1>4. Typed'
  BY TakeTyped
<1>5. OwnersInv'
  <2>1. \A t \in Tabs : /\ Held(t)' = Held(t) /\ Held(t) \subseteq Chunks
                        /\ lockAsks[t] \subseteq Chunks
    BY <1>1 DEF Held, Typed, TabsTyped
  <2>2. \A t \in Tabs : \A d \in Held(t)' : lock'[d] = t \/ d \in lockAsks'[t]
    <3>1. \A t \in Tabs \ {Recorder} : Held(t) = {}
      BY <1>2 DEF OwnersInv
    <3>2. \A d \in Held(Recorder) : lock[d] = Recorder \/ d \in lockAsks[Recorder]
      BY ChunkAssumption DEF OwnersInv
    <3> QED
      BY <1>3, <2>1, <3>1, <3>2
  <2>3. \A t \in Tabs : \A d \in lockAsks'[t] :
          t = Recorder /\ InTake /\ lock'[d] = NoTab /\ d \in take.windows
    BY <1>3, <2>1 DEF OwnersInv
  <2>4. InTake' = InTake /\ Early' = Early
    BY <1>1 DEF InTake, Early
  <2>5. \A d \in Chunks : lock'[d] = NoTab \/ (lock'[d] = Recorder /\ d \in take.windows)
    BY <1>2, <1>3 DEF OwnersInv
  <2>6. \A t \in Tabs \ {Recorder} : Held(t)' = {}
    BY <1>2, <2>1 DEF OwnersInv
  <2> QED
    BY <1>1, <2>2, <2>3, <2>4, <2>5, <2>6 DEF OwnersInv
<1>6. TakeInv' /\ ScansInv'
  BY <1>1 DEF TakeInv, ScansInv, InTake, Early, Held
<1>7. FinInv' /\ LossInv'
  BY <1>1 DEF FinInv, FinalizeExact, LossInv, NothingLost, Early
<1> QED
  BY <1>4, <1>5, <1>6, <1>7

\* and the take ends with every chunk settled and owned: its list is what was captured.
LEMMA EndSafe ==
  ASSUME Safe, EndTake \/ SaveFinalize
  PROVE  Safe'
<1> USE DEF Safe
<1>1. /\ take'.phase \in {"saving", "over"} /\ take'.cur = take.cur
      /\ take'.stopped = take.stopped /\ take'.windows = take.windows
      /\ ~Early' /\ ~InTake'
  BY EndIs DEF Early, InTake
<1>2. /\ UNCHANGED <<disk, pend, lock, page, scan, work, pump, trash, server, history>>
      /\ take.phase \in {"stopping", "saving"}
  BY DEF EndTake, SaveFinalize
<1>3. /\ \A t \in Tabs : lockAsks[t] = {}
      /\ take.stopped = {}
  BY <1>2, ChunkAssumption DEF EndTake, SaveFinalize, Settled, OwnersInv, TakeInv, InTake
<1>4. Typed'
  BY TakeTyped
<1>5. TakeInv'
  BY <1>1, <1>2, <1>3 DEF TakeInv, InTake
<1>6. OwnersInv' /\ ScansInv'
  BY <1>1, <1>2, <1>3 DEF OwnersInv, ScansInv, Held
<1>7. FinInv'
  <2>1. CASE EndTake
    <3>1. /\ finRecord' = finRecord /\ fin'[Recorder] = take.windows
          /\ \A t \in Tabs \ {Recorder} : fin'[t] = fin[t]
      BY <2>1, ChunkAssumption DEF EndTake, Typed, TabsTyped
    <3>2. take.windows \subseteq captured /\ captured \subseteq take.windows
      BY <1>3, <2>1, ChunkAssumption DEF EndTake, TakeInv, Early, Typed, RestTyped, Chunks
    <3> QED
      BY <1>1, <1>2, <3>1, <3>2 DEF FinInv, FinalizeExact
  <2>2. CASE SaveFinalize
    <3>1. finRecord' = fin[Recorder] /\ fin' = fin /\ take.phase = "saving"
      BY <2>2 DEF SaveFinalize
    <3> QED
      BY <1>1, <1>2, <3>1, ChunkAssumption DEF FinInv, FinalizeExact
  <2> QED
    BY <2>1, <2>2
<1>8. LossInv'
  BY <1>2 DEF LossInv, NothingLost
<1> QED
  BY <1>4, <1>5, <1>6, <1>7, <1>8

\* A request that arrives late only adds a window to the server's.
LEMMA LateSafe ==
  ASSUME Safe, NEW c \in Chunks, LateArrives(c)
  PROVE  Safe'
<1> USE DEF Safe
<1>1. onServer' = onServer \cup {c} /\ UNCHANGED <<device, tabs, told, history>>
  BY DEF LateArrives
<1>2. Typed'
  BY TakeTyped
<1>3. TakeInv' /\ OwnersInv' /\ ScansInv'
  BY <1>1 DEF TakeInv, OwnersInv, ScansInv, InTake, Early, Held
<1>4. FinInv' /\ LossInv'
  BY <1>1 DEF FinInv, FinalizeExact, LossInv, NothingLost, Early
<1> QED
  BY <1>2, <1>3, <1>4

-----------------------------------------------------------------------------
\* A page's scan keeps it.  The load lists storage, and before the take storage is empty,
LEMMA LoadSafe ==
  ASSUME Safe, NEW t \in Tabs, Load(t)
  PROVE  Safe'
<1> USE DEF Safe
<1> DEFINE listed ==
      [left |-> {c \in Chunks : disk[c] # "none"} \cup {e \in {Record} : finRecord # {}},
       probe |-> "no", bytes |-> {c \in Chunks : disk[c] = "bytes"}, windows |-> finRecord,
       found |-> {}]
<1>1. /\ page[t] = "closed" /\ page' = [page EXCEPT ![t] = "scanning"]
      /\ scan' = [scan EXCEPT ![t] = listed]
      /\ UNCHANGED <<device, work, pump, fin, trash, server, fates>>
  BY DEF Load
<1>2. /\ page'[t] = "scanning" /\ scan'[t] = listed
      /\ \A u \in Tabs \ {t} : page'[u] = page[u] /\ scan'[u] = scan[u]
  BY <1>1 DEF Typed, TabsTyped
<1>3. /\ listed.probe = "no" /\ listed.found = {} /\ listed.windows = finRecord
      /\ listed.bytes = {c \in Chunks : disk[c] = "bytes"}
      /\ (finRecord = {} /\ \A c \in Chunks : disk[c] = "none") => listed.left = {}
  OBVIOUS
<1> HIDE DEF listed
<1>4. Typed'
  BY ScanTyped
<1>5. TakeInv'
  BY <1>1, <1>2 DEF TakeInv, InTake, Early
<1>6. OwnersInv'
  BY <1>1 DEF OwnersInv, InTake, Early, Held
<1>7. ScansInv'
  <2>1. \A u \in Tabs : Held(u)' = Held(u)
    BY <1>1 DEF Held
  <2>2. Held(t) = {}
    BY <1>1 DEF ScansInv
  <2>3. take.phase = "before" => listed.left = {}
    BY <1>3 DEF TakeInv
  <2> QED
    BY <1>1, <1>2, <1>3, <2>1, <2>2, <2>3 DEF ScansInv, InTake, Early
<1>8. FinInv'
  <2>1. listed.windows \subseteq captured /\ listed.bytes \subseteq captured
    BY <1>3 DEF FinInv
  <2> QED
    BY <1>1, <1>2, <2>1 DEF FinInv, FinalizeExact, Early
<1>9. LossInv'
  BY <1>1 DEF LossInv, NothingLost
<1> QED
  BY <1>4, <1>5, <1>6, <1>7, <1>8, <1>9

\* What a step of a scan does: another page's scan and what the scan listed stay, what is left of
\* it shrinks.
LEMMA ScanDoes ==
  ASSUME Typed, NEW t \in Tabs,
         ProbeTake(t) \/ ProbeChunk(t) \/ Probed(t) \/ HoldRecovered(t)
  PROVE  /\ page[t] = "scanning" /\ scan[t].left # {} /\ Entry(t) \in scan[t].left
         /\ UNCHANGED <<take, pend, finRecord, page, lockAsks, pump, fin, trash, server, captured,
                        discarded>>
         /\ \A u \in Tabs \ {t} : scan'[u] = scan[u]
         /\ scan'[t].left \subseteq scan[t].left /\ scan'[t].bytes = scan[t].bytes
         /\ scan'[t].windows = scan[t].windows
<1>1. page[t] = "scanning" /\ scan[t].left # {}
  BY DEF ProbeTake, ProbeChunk, Probed, HoldRecovered, Probing
<1>2. Entry(t) \in scan[t].left
  BY <1>1, EntryIn
<1>3. UNCHANGED <<take, pend, finRecord, page, lockAsks, pump, fin, trash, server, captured, discarded>>
  BY DEF ProbeTake, ProbeChunk, Probed, HoldRecovered
<1>4. \E s \in {Skipped(t), Found(t), [scan[t] EXCEPT !.probe = "take"],
                [scan[t] EXCEPT !.probe = "chunk"], [scan[t] EXCEPT !.probe = "own"]} : Scans(t, s)
  BY DEF ProbeTake, ProbeChunk, Probed, HoldRecovered
<1>5. \A p \in {"take", "chunk", "own"} :
        LET s == [scan[t] EXCEPT !.probe = p] IN
        s.left = scan[t].left /\ s.bytes = scan[t].bytes /\ s.windows = scan[t].windows
  <2>1. scan[t] \in [left : SUBSET Entries, probe : {"no", "take", "chunk", "own"},
                     bytes : SUBSET Chunks, windows : SUBSET Chunks, found : SUBSET Entries]
    BY DEF Typed, TabsTyped, Scannings
  <2> QED
    BY <2>1
<1>6. \A s : Scans(t, s) => scan'[t] = s /\ \A u \in Tabs \ {t} : scan'[u] = scan[u]
  BY DEF Scans, Typed, TabsTyped
<1>7. \A s \in {Skipped(t), Found(t)} :
        /\ s.left \subseteq scan[t].left /\ s.bytes = scan[t].bytes
        /\ s.windows = scan[t].windows
  BY <1>1, ScannedOn
<1> PICK s : /\ Scans(t, s) /\ s.left \subseteq scan[t].left /\ s.bytes = scan[t].bytes
             /\ s.windows = scan[t].windows
  BY <1>4, <1>5, <1>7
<1> QED
  BY <1>1, <1>2, <1>3, <1>6

\* so what those steps do to the locks and to storage is all there is to see.
LEMMA ScanKeeps ==
  ASSUME Safe, NEW t \in Tabs,
         ProbeTake(t) \/ ProbeChunk(t) \/ Probed(t) \/ HoldRecovered(t),
         disk' = disk \/ take.phase # "before",
         \A c \in Chunks : disk'[c] = disk[c]
                           \/ (disk'[c] = "none" /\ (disk[c] = "bytes" => c \in wiped')),
         wiped \subseteq wiped'
  PROVE  Typed' /\ TakeInv' /\ FinInv' /\ LossInv'
<1> USE DEF Safe
<1>1. /\ UNCHANGED <<take, pend, finRecord, page, pump, fin, trash, server, captured, discarded>>
      /\ \A u \in Tabs \ {t} : scan'[u] = scan[u]
      /\ scan'[t].bytes = scan[t].bytes /\ scan'[t].windows = scan[t].windows
  BY ScanDoes
<1>2. TakeInv'
  BY <1>1 DEF TakeInv, InTake, Early
<1>3. FinInv'
  <2>1. \A c \in Chunks : disk'[c] = "bytes" => disk[c] = "bytes"
    OBVIOUS
  <2> QED
    BY <1>1, <2>1 DEF FinInv, FinalizeExact, Early
<1>4. LossInv'
  BY <1>1 DEF LossInv, NothingLost, Typed, RestTyped
<1> QED
  BY <1>2, <1>3, <1>4, ScanTyped

\* A probe of the take lock finds it held while the take lasts,
LEMMA ProbeTakeSafe ==
  ASSUME Safe, NEW t \in Tabs, ProbeTake(t)
  PROVE  Safe'
<1> USE DEF Safe
<1>1. /\ page[t] = "scanning" /\ scan[t].left # {}
      /\ UNCHANGED <<take, page, lockAsks>>
      /\ \A u \in Tabs \ {t} : scan'[u] = scan[u]
      /\ scan'[t].left \subseteq scan[t].left
  BY ScanDoes
<1>2. UNCHANGED <<disk, lock, queue, wiped>>
  BY DEF ProbeTake
<1>3. Typed' /\ TakeInv' /\ FinInv' /\ LossInv'
  BY <1>2, ScanKeeps
<1>4. OwnersInv'
  BY <1>1, <1>2 DEF OwnersInv, InTake, Early, Held
<1>5. take.phase # "before"
  BY <1>1 DEF ScansInv
<1>6. Early => InTake /\ takeLock = Recorder /\ takeLock # NoTab
  BY <1>5, ChunkAssumption DEF ScansInv, Early, InTake
<1>7. InTake => Early
  BY DEF Early, InTake
<1>8. Early => takeLock' = takeLock /\ scan'[t] = Skipped(t)
  BY <1>6 DEF ProbeTake, Scans, Typed, TabsTyped
<1>9. ScansInv'
  <2>1. Early => scan'[t].probe = "no" /\ scan'[t].found = scan[t].found
    BY <1>1, <1>8, ScannedOn
  <2>2. \A u \in Tabs : Held(u)' = Held(u)
    BY <1>2 DEF Held
  <2>3. (InTake' <=> InTake) /\ (Early' <=> Early)
    BY <1>1 DEF InTake, Early
  <2> QED
    BY <1>1, <1>5, <1>6, <1>7, <1>8, <2>1, <2>2, <2>3 DEF ScansInv
<1> QED
  BY <1>3, <1>4, <1>9

\* so what comes after it is a take that is over, with no lock asked for.
LEMMA ScanAfter ==
  ASSUME Safe, NEW t \in Tabs,
         ProbeChunk(t) \/ Probed(t) \/ HoldRecovered(t)
  PROVE  /\ ~Early /\ ~InTake /\ UNCHANGED <<take, page, lockAsks>>
         /\ page[t] = "scanning" /\ \A u \in Tabs : lockAsks[u] = {}
         /\ \A u \in Tabs \ {t} : scan'[u] = scan[u]
         /\ scan'[t].left \subseteq scan[t].left
<1>1. scan[t].probe # "no"
  BY DEF ProbeChunk, Probed, HoldRecovered, Probing
<1>2. ~Early /\ ~InTake
  BY <1>1 DEF Safe, ScansInv, Early, InTake
<1>3. \A u \in Tabs : lockAsks[u] = {}
  BY <1>2 DEF Safe, OwnersInv
<1> QED
  BY <1>2, <1>3, ScanDoes DEF Safe

\* The chunk's own lock is probed,
LEMMA ProbeChunkSafe ==
  ASSUME Safe, NEW t \in Tabs, ProbeChunk(t)
  PROVE  Safe'
<1> USE DEF Safe
<1>1. /\ ~Early /\ ~InTake /\ UNCHANGED <<take, page, lockAsks>>
      /\ page[t] = "scanning" /\ \A u \in Tabs : lockAsks[u] = {}
      /\ \A u \in Tabs \ {t} : scan'[u] = scan[u]
      /\ scan'[t].left \subseteq scan[t].left
  BY ScanAfter
<1>2. UNCHANGED <<disk, queue, wiped>>
  BY DEF ProbeChunk
<1>3. Typed' /\ TakeInv' /\ FinInv' /\ LossInv'
  BY <1>2, ScanKeeps
<1>4. ~Early' /\ ~InTake' /\ \A u \in Tabs : Held(u)' = Held(u)
  BY <1>1, <1>2 DEF Early, InTake, Held
<1>5. \A c \in Chunks : lock[c] # NoTab => lock'[c] = lock[c]
  BY DEF ProbeChunk, Typed, DeviceTyped
<1>6. OwnersInv'
  <2>1. \A u \in Tabs : \A c \in Held(u) : c \in Chunks /\ lock[c] = u /\ u # NoTab
    BY <1>1, ChunkAssumption DEF OwnersInv, Held
  <2> QED
    BY <1>1, <1>4, <1>5, <2>1 DEF OwnersInv
<1>7. ScansInv'
  BY <1>1, <1>4 DEF ScansInv, Early, InTake
<1> QED
  BY <1>3, <1>6, <1>7

\* and given back: what was listed without bytes is removed, and wiped if it has bytes by now.
LEMMA ProbedSafe ==
  ASSUME Safe, NEW t \in Tabs, Probed(t)
  PROVE  Safe'
<1> USE DEF Safe
<1> DEFINE c == Entry(t)
<1>1. /\ ~Early /\ ~InTake /\ UNCHANGED <<take, page, lockAsks>>
      /\ page[t] = "scanning" /\ \A u \in Tabs : lockAsks[u] = {}
      /\ \A u \in Tabs \ {t} : scan'[u] = scan[u]
      /\ scan'[t].left \subseteq scan[t].left
  BY ScanAfter
<1>2. c \in scan[t].left /\ c \in Chunks
  BY EntryIn DEF Probed, Probing, Typed, TabsTyped, Scannings
<1>3. /\ \A d \in Chunks : disk'[d] = disk[d]
                           \/ (disk'[d] = "none" /\ (disk[d] = "bytes" => d \in wiped'))
      /\ wiped \subseteq wiped' /\ queue' = queue
  BY <1>2 DEF Probed, Typed, DeviceTyped
<1>4. take.phase # "before"
  BY <1>1 DEF Early
<1>5. Typed' /\ TakeInv' /\ FinInv' /\ LossInv'
  BY <1>3, <1>4, ScanKeeps
<1>6. \A u \in Tabs : Held(u)' = Held(u)
  BY <1>3 DEF Held
<1>7. OwnersInv'
  <2>1. \A d \in Chunks : lock'[d] = lock[d] \/ (d = c /\ lock[c] = t /\ lock'[d] = NoTab)
    BY <1>2, UnlockedIs DEF Probed
  <2>2. c \notin Held(t)
    BY <1>2 DEF ScansInv
  <2>3. \A u \in Tabs : \A d \in Held(u) : lock'[d] = lock[d] \/ lock[d] # u
    BY <2>1, <2>2 DEF Held
  <2> QED
    BY <1>1, <1>6, <2>3, ReleasedOwners, <2>1 DEF Released
<1>8. ScansInv'
  BY <1>1, <1>6 DEF ScansInv, Early, InTake
<1> QED
  BY <1>5, <1>7, <1>8

\* A chunk is queued for recovery only if its lock was free, so nobody else has it.
LEMMA HoldSafe ==
  ASSUME Safe, NEW t \in Tabs, HoldRecovered(t)
  PROVE  Safe'
<1> USE DEF Safe
<1> DEFINE c == Entry(t)
<1>1. /\ ~Early /\ ~InTake /\ UNCHANGED <<take, page, lockAsks>>
      /\ page[t] = "scanning" /\ \A u \in Tabs : lockAsks[u] = {}
      /\ \A u \in Tabs \ {t} : scan'[u] = scan[u]
      /\ scan'[t].left \subseteq scan[t].left
  BY ScanAfter
<1>2. c \in Chunks /\ scan'[t] = Found(t) /\ scan'[t].left = scan[t].left \ {c}
  <2>1. scan'[t] = Found(t)
    BY DEF HoldRecovered, Scans, Typed, TabsTyped
  <2> QED
    BY <2>1, EntryIn, ScannedOn DEF HoldRecovered, Probing, Typed, TabsTyped, Scannings
<1>3. Typed' /\ TakeInv' /\ FinInv' /\ LossInv'
  <2>1. UNCHANGED <<disk, wiped>>
    BY DEF HoldRecovered
  <2> QED
    BY <2>1, ScanKeeps
<1>4. ~Early' /\ ~InTake' /\ t # NoTab
  BY <1>1, ChunkAssumption DEF Early, InTake
<1>5. CASE lock[c] = NoTab
  <2>1. lock' = [lock EXCEPT ![c] = t] /\ queue' = [queue EXCEPT ![t][c] = "queued"]
    BY <1>5 DEF HoldRecovered
  <2>2. /\ lock'[c] = t /\ \A d \in Chunks \ {c} : lock'[d] = lock[d]
        /\ \A u \in Tabs \ {t} : Held(u)' = Held(u)
        /\ Held(t)' \subseteq Held(t) \cup {c}
    BY <1>2, <2>1 DEF Held, Typed, DeviceTyped, TabsTyped
  <2>3. \A u \in Tabs : \A d \in Held(u) : d \in Chunks /\ lock[d] = u /\ d # c
    BY <1>1, <1>5, ChunkAssumption DEF OwnersInv, Held
  <2>4. OwnersInv'
    BY <1>1, <1>4, <2>2, <2>3 DEF OwnersInv
  <2>5. ScansInv'
    BY <1>1, <1>2, <1>4, <2>2 DEF ScansInv, Early, InTake
  <2> QED
    BY <1>3, <2>4, <2>5
<1>6. CASE lock[c] # NoTab
  <2>1. lock' = lock /\ queue' = queue
    BY <1>6 DEF HoldRecovered
  <2>2. OwnersInv'
    BY <1>1, <1>4, <2>1 DEF OwnersInv, Held
  <2>3. ScansInv'
    BY <1>1, <1>4, <2>1 DEF ScansInv, Held, Early, InTake
  <2> QED
    BY <1>3, <2>2, <2>3
<1> QED
  BY <1>5, <1>6

\* A scan that ends lists only captured chunks to finalize, and none before the take is over.
LEMMA FinishSafe ==
  ASSUME Safe, NEW t \in Tabs, FinishScan(t)
  PROVE  Safe'
<1> USE DEF Safe
<1>1. /\ page[t] = "scanning" /\ page' = [page EXCEPT ![t] = "open"]
      /\ Scans(t, NoScan) /\ fin' = [fin EXCEPT ![t] = Recovered(t)]
      /\ UNCHANGED <<take, disk, pend, locks, work, pump, trash, server, history>>
  BY DEF FinishScan
<1>2. /\ page'[t] = "open" /\ scan'[t] = NoScan /\ fin'[t] = Recovered(t)
      /\ \A u \in Tabs \ {t} : page'[u] = page[u] /\ scan'[u] = scan[u] /\ fin'[u] = fin[u]
  BY <1>1 DEF Scans, Typed, TabsTyped
<1>3. /\ NoScan.left = {} /\ NoScan.probe = "no" /\ NoScan.found = {} /\ NoScan.windows = {}
      /\ NoScan.bytes = {}
  BY DEF NoScan
<1>4. Recovered(t) \subseteq captured
  BY RecoveredIn DEF FinInv
<1>5. Early => Recovered(t) = {} /\ finRecord' = finRecord
  BY RecoveredIn DEF ScansInv, FinishScan
<1>6. finRecord' = finRecord \/ finRecord' = Recovered(t)
  BY DEF FinishScan
<1>7. take.phase # "gone" => t # Recorder
  BY <1>1 DEF TakeInv
<1>8. Typed'
  BY ScanTyped
<1>9. TakeInv'
  BY <1>1, <1>2, <1>5 DEF TakeInv, InTake, Early
<1>10. OwnersInv'
  BY <1>1 DEF OwnersInv, InTake, Early, Held
<1>11. ScansInv'
  <2>1. \A u \in Tabs : Held(u)' = Held(u)
    BY <1>1 DEF Held
  <2> QED
    BY <1>1, <1>2, <1>3, <2>1 DEF ScansInv, InTake, Early
<1>12. FinInv'
  <2>1. \A u \in Tabs : fin'[u] \subseteq captured /\ (Early => fin'[u] = {})
    BY <1>2, <1>4, <1>5 DEF FinInv
  <2>2. \A u \in Tabs : scan'[u].windows \subseteq captured /\ scan'[u].bytes \subseteq captured
    BY <1>2, <1>3 DEF FinInv
  <2>3. take.phase \in {"saving", "over"} => fin'[Recorder] = fin[Recorder]
    BY <1>2, <1>7, ChunkAssumption
  <2>4. finRecord' \subseteq captured
    BY <1>4, <1>6 DEF FinInv
  <2> QED
    BY <1>1, <2>1, <2>2, <2>3, <2>4 DEF FinInv, FinalizeExact, Early
<1>13. LossInv'
  BY <1>1 DEF LossInv, NothingLost
<1> QED
  BY <1>8, <1>9, <1>10, <1>11, <1>12, <1>13

-----------------------------------------------------------------------------
\* It is invariant.
LEMMA AlwaysSafe == ChunkSpec => []Safe
<1>1. Safe /\ [ChunkNext]_chunkVars => Safe'
  <2> SUFFICES ASSUME Safe, [ChunkNext]_chunkVars PROVE Safe'
    OBVIOUS
  <2>1. CASE UNCHANGED chunkVars
    <3>1. Typed'
      BY <2>1 DEF Safe, chunkVars, Typed, DeviceTyped, TabsTyped, RestTyped
    <3>2. TakeInv' /\ OwnersInv' /\ ScansInv'
      BY <2>1 DEF Safe, chunkVars, TakeInv, OwnersInv, ScansInv, InTake, Early, Held
    <3>3. FinInv' /\ LossInv'
      BY <2>1 DEF Safe, chunkVars, FinInv, FinalizeExact, LossInv, NothingLost, Early
    <3> QED
      BY <3>1, <3>2, <3>3 DEF Safe
  <2>2. CASE \/ StartTake \/ Rollover \/ StopTake \/ EndTake \/ SaveFinalize
             \/ \E c \in Chunks : Slice(c) \/ SettleChunk(c) \/ Own(c) \/ LateArrives(c)
    BY <2>2, StartSafe, RolloverSafe, StopSafe, EndSafe, SliceSafe, SettleSafe, OwnSafe, LateSafe
  <2>3. CASE \E t \in Tabs :
               \/ Load(t) \/ ProbeTake(t) \/ ProbeChunk(t) \/ Probed(t) \/ HoldRecovered(t)
               \/ FinishScan(t) \/ CloseTab(t)
    BY <2>3, LoadSafe, ProbeTakeSafe, ProbeChunkSafe, ProbedSafe, HoldSafe, FinishSafe, CloseSafe
  <2> QED
    BY <2>1, <2>2, <2>3, StepIs, PumpSafe, QueueSafe
<1> QED
  BY InitSafe, <1>1, PTL DEF ChunkSpec

\* Captured audio stays in storage until the server has it, the user discards it or a scan that
\* listed storage before the first slice removes it as empty, whatever pages crash and answers
\* are lost.
THEOREM CapturedStays == ChunkSpec => []NothingLost
<1>1. Safe => NothingLost
  BY DEF Safe, LossInv
<1> QED
  BY AlwaysSafe, <1>1, PTL

\* A chunk is in one tab's queue, and the lock the recorder asks for on enqueue is free: while
\* the take lasts no scan gets past the take lock, and after it the chunk's lock decides.
THEOREM SoleOwner == ChunkSpec => []OneOwner
<1>1. Safe => OneOwner
  <2> SUFFICES ASSUME Safe PROVE OneOwner
    OBVIOUS
  <2>1. ASSUME NEW t \in Tabs, NEW u \in Tabs, t # u, NEW c \in Held(t), c \in Held(u)
        PROVE  FALSE
    <3>1. lock[c] = t \/ c \in lockAsks[t]
      BY DEF Safe, OwnersInv
    <3>2. lock[c] = u \/ c \in lockAsks[u]
      BY <2>1 DEF Safe, OwnersInv
    <3>3. (c \in lockAsks[t] \/ c \in lockAsks[u]) => Early
      BY DEF Safe, OwnersInv, Early, InTake
    <3>4. ~Early
      BY <2>1 DEF Safe, OwnersInv
    <3> QED
      BY <2>1, <3>1, <3>2, <3>3, <3>4
  <2>2. \A t \in Tabs : \A c \in lockAsks[t] : lock[c] = NoTab
    BY DEF Safe, OwnersInv
  <2> QED
    BY <2>1, <2>2 DEF OneOwner
<1> QED
  BY AlwaysSafe, <1>1, PTL

\* No finalize call (chunkUploadQueue.ts processFinalizes) lists a chunk that never had audio, and the
\* recorder's own lists every window it captured and the user kept, after lost answers, recoveries
\* and discards too.  That a discarded window is never listed does not hold (DiscardDropsWindow).
THEOREM ListsCaptured == ChunkSpec => []FinalizeExact
<1>1. Safe => FinalizeExact
  BY DEF Safe, FinInv
<1> QED
  BY AlwaysSafe, <1>1, PTL

=============================================================================
