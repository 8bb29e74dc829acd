------------------------ MODULE RecordingAudioProofs ------------------------
(***************************************************************************)
(* Proofs about the audio of a recording, for any windows, uploads, merges *)
(* and bounds: no window is heard twice, no finalize is forgotten and no   *)
(* file that a row, an answer or a run relies on is lost, whatever         *)
(* crashes, lost answers, sync-from-disk calls and sweeps occur.           *)
(***************************************************************************)
EXTENDS RecordingAudio, FiniteSetTheorems, TLAPS

\* What the queue's unique index leaves of an enqueue: nothing, or one fresh job and no live one.
LEMMA EnqueuedOne ==
  ASSUME NEW js
  PROVE  \/ Enqueued(js) = js
         \/ \E m \in Merges :
              /\ js[m] = "absent"
              /\ \A n \in Merges : js[n] \notin {"queued", "running", "done"}
              /\ Enqueued(js) = [js EXCEPT ![m] = "queued"]
<1> DEFINE fresh == {m \in Merges : js[m] = "absent"}
<1>1. CASE fresh = {} \/ \E m \in Merges : js[m] \in {"queued", "running", "done"}
  BY <1>1 DEF Enqueued
<1>2. CASE ~(fresh = {} \/ \E m \in Merges : js[m] \in {"queued", "running", "done"})
  <2>1. (CHOOSE m \in fresh : TRUE) \in fresh
    BY <1>2
  <2>2. Enqueued(js) = [js EXCEPT ![CHOOSE m \in fresh : TRUE] = "queued"]
    BY <1>2 DEF Enqueued
  <2> QED
    BY <1>2, <2>1, <2>2
<1> QED
  BY <1>1, <1>2

-----------------------------------------------------------------------------
\* The apply pass between its steps.
Passes == [pc : {"idle", "adopt", "commit", "trash"}, id : Ids \cup {NoId},
           copied : BOOLEAN, trash : SUBSET Keys]

\* What TypeOK leaves out: the shape of the state between a handler's steps.
Shape ==
  /\ seam \in [Windows -> Ids \cup {NoId}]
  /\ ap \in Passes
  /\ listing = NotListing \/ listing \subseteq Keys
  /\ orphans \in [phase : {"off", "listed", "named"}, keys : SUBSET Keys]
  /\ held \in BOOLEAN /\ reading \subseteq Keys

\* The unique index, without counting.
LiveStates == {"queued", "running", "done"}
JobsTyped(js) ==
  /\ js \in [Merges -> MergeStates]
  /\ \A m, n \in Merges : js[m] \in LiveStates /\ js[n] \in LiveStates => m = n

Typed ==
  /\ blobs \subseteq Keys /\ dirs \subseteq Ids
  /\ segment \in [Ids -> [key : Keys, rec : BOOLEAN] \cup {NoSegment}]
  /\ \A w \in Windows : seam[w] # NoId => seam[w] \in RecRows
  /\ waiting \subseteq Windows /\ blocked \subseteq Ids /\ acked \subseteq Windows
  /\ JobsTyped(job)
  /\ inputs \in [Merges -> SUBSET Ids] /\ holds \in [Merges -> SUBSET Windows]
  /\ ingest \in [Wav -> IngestStates]
  /\ up \in [Uploads -> UploadStates]
  /\ reading # {} => held
  /\ Shape

\* An enqueue leaves the jobs typed and at most one of them live.
LEMMA EnqueuedTyped ==
  ASSUME NEW js, JobsTyped(js)
  PROVE  JobsTyped(Enqueued(js))
BY EnqueuedOne DEF JobsTyped, LiveStates, MergeStates

\* A stored row names a key under audio/.
LEMMA RowTyped ==
  ASSUME Typed, NEW i \in Rows
  PROVE  segment[i].key \in Keys /\ segment[i].rec \in BOOLEAN
<1>1. segment[i] \in [key : Keys, rec : BOOLEAN]
  BY DEF Typed, Rows
<1> QED
  BY <1>1

\* The keys of the segments' files.
LEMMA KeyTyped ==
  /\ \A i \in Ids : Orig(i) \in Keys
  /\ \A u \in Wav : Flac(u) \in Keys /\ u \in Ids
BY RecordingAssumption DEF Ids, Keys, Orig, Flac

\* The apply pass's assignments to itself.
LEMMA PassTyped ==
  /\ Resting \in Passes
  /\ \A i \in Ids : /\ [Resting EXCEPT !.pc = "adopt", !.id = i] \in Passes
                    /\ [Resting EXCEPT !.pc = "commit", !.id = i] \in Passes
  /\ \A a \in Passes : [a EXCEPT !.pc = "commit", !.copied = TRUE] \in Passes
  /\ \A a \in Passes : \A t \in SUBSET Keys : /\ [a EXCEPT !.pc = "trash", !.trash = t] \in Passes
                                              /\ [a EXCEPT !.trash = t] \in Passes
<1>1. Resting \in Passes
  BY DEF Resting, Passes
<1> QED
  BY <1>1 DEF Passes

\* Trashing one key of a pass, or ending it, leaves a well typed pass (mediaApply's trash loop).
LEMMA TrashPass ==
  ASSUME ap \in Passes, Trash
  PROVE  ap' \in Passes
<1>1. CASE ap' = Resting
  BY <1>1, PassTyped
<1>2. ASSUME NEW k, ap' = [ap EXCEPT !.trash = ap.trash \ {k}]
      PROVE  ap' \in Passes
  <2>1. ap.trash \ {k} \in SUBSET Keys
    BY DEF Passes
  <2>2. [ap EXCEPT !.trash = ap.trash \ {k}] \in Passes
    BY <2>1, PassTyped
  <2> QED
    BY <1>2, <2>2
<1>3. ap' = Resting \/ \E k : ap' = [ap EXCEPT !.trash = ap.trash \ {k}]
  BY DEF Trash
<1> QED
  BY <1>1, <1>2, <1>3

\* Every upload step is typed (storeLiveSegment and its transaction).
LEMMA UploadTyped ==
  ASSUME Typed, NEW u \in Uploads, Upload(u)
  PROVE  Typed'
<1> USE RecordingAssumption, NoIdAssumption
       DEF Typed, Shape, Ids, Keys, Orig, RecRows, Rows, NoSegment, content, counts
<1>1. CASE UploadStart(u)
  <2>1. CASE seam[WindowOf[u]] # NoId
    BY <1>1, <2>1 DEF UploadStart, UploadStates
  <2>2. CASE seam[WindowOf[u]] = NoId
    <3>1. up' \in [Uploads -> UploadStates]
      BY <1>1, <2>2 DEF UploadStart, UploadStates
    <3>2. UNCHANGED <<content, ap, listing, orphans, held, reading, acked>>
      BY <1>1, <2>2 DEF UploadStart
    <3> QED
      BY <3>1, <3>2
  <2> QED
    BY <2>1, <2>2
<1>2. CASE UploadPut(u)
  BY <1>2 DEF UploadPut, UploadStates
<1>3. ASSUME AddSegment(u)
      PROVE  /\ segment' \in [Ids -> [key : Keys, rec : BOOLEAN] \cup {NoSegment}]
             /\ \A w \in Windows : seam'[w] # NoId => seam'[w] \in RecRows'
             /\ seam' \in [Windows -> Ids \cup {NoId}]
             /\ waiting' \subseteq Windows
             /\ JobsTyped(job')
             /\ ingest' \in [Wav -> IngestStates]
  <2> USE <1>3
  <2>1. segment' \in [Ids -> [key : Keys, rec : BOOLEAN] \cup {NoSegment}]
    BY DEF AddSegment
  <2>2. u \in RecRows' /\ RecRows \subseteq RecRows' /\ WindowOf[u] \in Windows
    BY DEF AddSegment
  <2>3. /\ \A w \in Windows : seam'[w] # NoId => seam'[w] \in RecRows'
        /\ seam' \in [Windows -> Ids \cup {NoId}]
    BY <2>2 DEF AddSegment
  <2>4. waiting' \subseteq Windows
    BY DEF AddSegment
  <2>5. JobsTyped(job')
    BY EnqueuedTyped DEF AddSegment
  <2>6. ingest' \in [Wav -> IngestStates]
    BY DEF AddSegment, IngestStates
  <2> QED
    BY <2>1, <2>3, <2>4, <2>5, <2>6
<1>4. CASE UploadAdd(u)
  BY <1>3, <1>4 DEF UploadAdd, UploadStates
<1>5. CASE UploadAddLost(u)
  BY <1>3, <1>5 DEF UploadAddLost, UploadStates
<1>6. CASE UploadNotAdded(u)
  BY <1>6 DEF UploadNotAdded, UploadStates
<1>7. CASE UploadDelete(u)
  BY <1>7 DEF UploadDelete, UploadStates
<1> QED
  BY <1>1, <1>2, <1>4, <1>5, <1>6, <1>7 DEF Upload

\* Every step of a merge is typed: the worker's, and the apply pass's (mediaApply.ts).
LEMMA MergeTyped ==
  ASSUME Typed, NEW m \in Merges, Merge(m)
  PROVE  Typed'
<1> USE RecordingAssumption, NoIdAssumption
       DEF Typed, Shape, Ids, RecRows, Rows, content, counts
<1>0. ap \in Passes
  OBVIOUS
<1>1. CASE MergeReads(m)
  <2>1. \A i \in RecRows : Holds(i) \subseteq Windows
    BY DEF Holds
  <2>2. UNION {Holds(i) : i \in RecRows} \subseteq Windows
    BY <2>1
  <2>3. inputs' \in [Merges -> SUBSET Ids] /\ holds' \in [Merges -> SUBSET Windows]
    BY <1>1, <2>2 DEF MergeReads
  <2>4. JobsTyped(job')
    BY <1>1 DEF MergeReads, JobsTyped, LiveStates, MergeStates
  <2> QED
    BY <1>1, <2>3, <2>4 DEF MergeReads
<1>2. CASE MergeEnds(m)
  <2>1. JobsTyped(job')
    BY <1>2 DEF MergeEnds, JobsTyped, LiveStates, MergeStates
  <2> QED
    BY <1>2, <2>1 DEF MergeEnds
<1>3. CASE ApplyMerge(m)
  <2>1. ap' \in Passes
    BY <1>3 DEF ApplyMerge, Resting, Passes
  <2> QED
    BY <1>3, <2>1 DEF ApplyMerge
<1>4. CASE AdoptMerged(m)
  <2>1. JobsTyped(job')
    BY <1>4 DEF AdoptMerged, JobsTyped, LiveStates, MergeStates
  <2>2. ap' \in Passes
    <3>1. ap' = Resting \/ ap' = [ap EXCEPT !.pc = "commit", !.copied = TRUE]
      BY <1>4 DEF AdoptMerged
    <3> HIDE DEF Typed, Shape
    <3> QED
      BY <3>1, <1>0, PassTyped
  <2>3. blobs' \subseteq Keys /\ dirs' \subseteq Ids
    BY <1>4, KeyTyped DEF AdoptMerged, Adopt
  <2> QED
    BY <1>4, <2>1, <2>2, <2>3 DEF AdoptMerged
<1>5. CASE CommitMerged(m)
  <2>1. CASE SwapMerged(m) /\ dirs' = dirs \ {m}
    <3>1. JobsTyped(job')
      BY <2>1 DEF SwapMerged, JobsTyped, LiveStates, MergeStates
    <3>2. /\ segment' \in [Ids -> [key : Keys, rec : BOOLEAN] \cup {NoSegment}]
          /\ m \in RecRows'
      BY <2>1, KeyTyped DEF SwapMerged, NoSegment
    <3>3. /\ \A w \in Windows : seam'[w] # NoId => seam'[w] \in RecRows'
          /\ seam' \in [Windows -> Ids \cup {NoId}]
      BY <2>1, <3>2 DEF SwapMerged
    <3>4. {segment[i].key : i \in inputs[m]} \subseteq Keys
      BY <2>1, RowTyped DEF SwapMerged
    <3>5. ap' \in Passes
      BY <2>1, <3>4 DEF SwapMerged, Passes
    <3> QED
      BY <1>5, <2>1, <3>1, <3>2, <3>3, <3>5 DEF CommitMerged, SwapMerged
  <2>2. CASE ~held /\ inputs[m] # RecRows /\ UNCHANGED <<segment, seam>>
    <3> DEFINE js == [job EXCEPT ![m] = "cancelled"]
    <3>1. JobsTyped(js)
      BY DEF JobsTyped, LiveStates, MergeStates
    <3>2. JobsTyped(job')
      BY <1>5, <2>2, <3>1, EnqueuedTyped DEF CommitMerged, SwapMerged
    <3>3. ap' \in Passes
      <4>1. {Orig(m)} \in SUBSET Keys
        BY KeyTyped
      <4>2. ap' = Resting \/ \E t \in SUBSET Keys :
                               ap' = [ap EXCEPT !.pc = "trash", !.trash = t]
        BY <1>5, <2>2, <4>1 DEF CommitMerged, SwapMerged
      <4> HIDE DEF Typed, Shape
      <4> QED
        <5>1. \A t \in SUBSET Keys : [ap EXCEPT !.pc = "trash", !.trash = t] \in Passes
          BY <1>0, PassTyped
        <5> QED
          BY <4>2, <5>1, PassTyped
    <3>4. dirs' = dirs \ {m}
      BY <1>5, <2>2 DEF CommitMerged, SwapMerged
    <3> QED
      BY <1>5, <2>2, <3>2, <3>3, <3>4 DEF CommitMerged
  <2>3. CASE (held \/ (inputs[m] = RecRows /\ segment[m] # NoSegment)) /\ ap' = Resting
             /\ UNCHANGED <<dirs, segment, seam, job>>
    <3>1. ap' \in Passes
      BY <2>3 DEF Resting, Passes
    <3> QED
      BY <1>5, <2>3, <3>1 DEF CommitMerged
  <2> QED
    BY <1>5, <2>1, <2>2, <2>3 DEF CommitMerged
<1>6. CASE ReflectRefused(m)
  <2>1. JobsTyped(job')
    BY <1>6 DEF ReflectRefused, JobsTyped, LiveStates, MergeStates
  <2> QED
    BY <1>6, <2>1 DEF ReflectRefused
<1> QED
  BY <1>1, <1>2, <1>3, <1>4, <1>5, <1>6 DEF Merge

\* Every step of an ingest is typed (applyIngest).
LEMMA IngestTyped ==
  ASSUME Typed, NEW u \in Wav, Ingest(u)
  PROVE  Typed'
<1> USE RecordingAssumption, NoIdAssumption
       DEF Typed, Shape, Ids, RecRows, Rows, content, counts, IngestStates
<1>0. ap \in Passes
  OBVIOUS
<1>1. CASE IngestEnds(u)
  BY <1>1 DEF IngestEnds
<1>2. CASE ApplyIngest(u)
  <2>1. ap' \in Passes
    <3>1. \/ ap' = ap \/ ap' = [Resting EXCEPT !.pc = "commit", !.id = u]
         \/ ap' = [Resting EXCEPT !.pc = "adopt", !.id = u]
      BY <1>2 DEF ApplyIngest
    <3> HIDE DEF Typed, Shape
    <3> QED
      BY <3>1, <1>0, PassTyped, KeyTyped
  <2> QED
    BY <1>2, <2>1 DEF ApplyIngest
<1>3. CASE AdoptFlac(u)
  <2>1. ap' \in Passes
    <3>1. ap' = Resting \/ ap' = [ap EXCEPT !.pc = "commit", !.copied = TRUE]
      BY <1>3 DEF AdoptFlac
    <3> HIDE DEF Typed, Shape
    <3> QED
      BY <3>1, <1>0, PassTyped
  <2>2. blobs' \subseteq Keys /\ dirs' \subseteq Ids
    BY <1>3, KeyTyped DEF AdoptFlac, Adopt
  <2> QED
    BY <1>3, <2>1, <2>2 DEF AdoptFlac
<1>4. CASE CommitFlac(u)
  <2>1. /\ segment' \in [Ids -> [key : Keys, rec : BOOLEAN] \cup {NoSegment}]
        /\ RecRows' = RecRows
    <3>1. CASE segment[u] = NoSegment
      BY <1>4, <3>1 DEF CommitFlac
    <3>2. CASE segment[u] # NoSegment
      <4>1. u \in Rows /\ segment[u] \in [key : Keys, rec : BOOLEAN]
        BY <3>2, KeyTyped
      <4>2. segment' = [segment EXCEPT ![u] = [segment[u] EXCEPT !.key = Flac(u)]]
        BY <1>4, <3>2 DEF CommitFlac
      <4>3. /\ [segment[u] EXCEPT !.key = Flac(u)] \in [key : Keys, rec : BOOLEAN]
            /\ [segment[u] EXCEPT !.key = Flac(u)].rec = segment[u].rec
            /\ [segment[u] EXCEPT !.key = Flac(u)].key = Flac(u)
        <5> HIDE DEF Typed, Shape
        <5> QED
          BY <4>1, KeyTyped
      <4>4. [segment[u] EXCEPT !.key = Flac(u)] # NoSegment
        BY <4>3 DEF NoSegment, Flac
      <4> QED
        BY <4>1, <4>2, <4>3, <4>4
    <3> QED
      BY <3>1, <3>2
  <2>2. ap' \in Passes
    <3>1. (IF segment[u] = NoSegment THEN {Flac(u)} ELSE {segment[u].key} \ {Flac(u)}) \subseteq Keys
      BY KeyTyped, RowTyped
    <3> QED
      BY <1>4, <3>1, PassTyped DEF CommitFlac
  <2> QED
    BY <1>4, <2>1, <2>2 DEF CommitFlac
<1> QED
  BY <1>1, <1>2, <1>3, <1>4 DEF Ingest

\* The remaining steps are typed: finalize, the sweeps, sync-from-disk, generation runs, a crash.
LEMMA OtherTyped ==
  ASSUME Typed,
         \/ \E ws \in SUBSET Windows : Finalize(ws)
         \/ Reconcile \/ Trash \/ SyncList \/ SyncInsert
         \/ RunStart \/ RunList \/ RunEnd
         \/ ApiCrash \/ SweepNamed \/ \E k \in Keys : SweepTrash(k)
         \/ UNCHANGED audioVars
  PROVE  Typed'
<1> USE RecordingAssumption, NoIdAssumption
       DEF Typed, Shape, Ids, RecRows, Rows, content, counts
<1>0. ap \in Passes
  OBVIOUS
<1>1. ASSUME NEW ws \in SUBSET Windows, Finalize(ws)
      PROVE  Typed'
  <2>1. JobsTyped(job')
    BY <1>1, EnqueuedTyped DEF Finalize
  <2> QED
    BY <1>1, <2>1 DEF Finalize
<1>2. CASE Reconcile
  <2>1. JobsTyped(job')
    BY <1>2, EnqueuedTyped DEF Reconcile
  <2> QED
    BY <1>2, <2>1 DEF Reconcile
<1>3. CASE Trash
  <2>1. ap' \in Passes
    BY <1>0, <1>3, TrashPass
  <2> QED
    BY <1>3, <2>1 DEF Trash
<1>4. CASE SyncList
  BY <1>4 DEF SyncList
<1>5. CASE SyncInsert
  <2>1. listing \subseteq Keys
    BY <1>5 DEF SyncInsert
  <2>2. /\ segment' \in [Ids -> [key : Keys, rec : BOOLEAN] \cup {NoSegment}]
        /\ \A i \in Ids : segment'[i] = segment[i] \/ (segment[i] = NoSegment /\ ~segment'[i].rec)
    BY <1>5, <2>1 DEF SyncInsert
  <2>5. RecRows' = RecRows
    BY <2>2 DEF NoSegment
  <2>3. ingest' \in [Wav -> IngestStates]
    <3> DEFINE new == {k[1] : k \in listing} \ Rows
    <3>1. ingest' = [x \in Wav |-> IF x \in new /\ ingest[x] = "absent"
                                    THEN "queued" ELSE ingest[x]]
      BY <1>5 DEF SyncInsert
    <3> HIDE DEF new
    <3> QED
      BY <3>1 DEF IngestStates
  <2>4. listing' = NotListing
    BY <1>5 DEF SyncInsert
  <2> QED
    BY <1>5, <2>2, <2>5, <2>3, <2>4 DEF SyncInsert
<1>6. CASE RunStart
  BY <1>6 DEF RunStart
<1>7. CASE RunList
  <2>1. NamedKeys \subseteq Keys
    BY RowTyped DEF NamedKeys
  <2> QED
    BY <1>7, <2>1 DEF RunList
<1>8. CASE RunEnd
  BY <1>8 DEF RunEnd
<1>9. CASE ApiCrash
  <2>1. ap' \in Passes
    BY <1>9 DEF ApiCrash, Resting, Passes
  <2>2. Swept \subseteq Keys
    BY DEF Swept
  <2>3. orphans' \in [phase : {"off", "listed", "named"}, keys : SUBSET Keys]
    BY <1>9, <2>2 DEF ApiCrash
  <2>4. up' \in [Uploads -> UploadStates]
    BY <1>9 DEF ApiCrash, UploadStates
  <2>5. /\ listing' = NotListing /\ held' = FALSE /\ reading' = {}
        /\ UNCHANGED <<content, acked>>
    BY <1>9 DEF ApiCrash
  <2> QED
    BY <2>1, <2>3, <2>4, <2>5
<1>10. CASE SweepNamed
  BY <1>10 DEF SweepNamed
<1>11. ASSUME NEW k \in Keys, SweepTrash(k)
       PROVE  Typed'
  BY <1>11 DEF SweepTrash
<1>12. CASE UNCHANGED audioVars
  BY <1>12 DEF audioVars
<1> QED
  BY <1>1, <1>2, <1>3, <1>4, <1>5, <1>6, <1>7, <1>8, <1>9, <1>10, <1>11, <1>12

\* The empty recording is typed, and every step keeps it so.
LEMMA InitTyped == AudioInit => Typed
<1> SUFFICES ASSUME AudioInit
             PROVE  Typed
  OBVIOUS
<1> USE DEF AudioInit
<1>1. ap \in Passes
  BY DEF Resting, Passes
<1>2. JobsTyped(job)
  BY DEF JobsTyped, LiveStates, MergeStates
<1>3. Shape
  <2>1. seam \in [Windows -> Ids \cup {NoId}]
    OBVIOUS
  <2>2. listing = NotListing /\ held \in BOOLEAN /\ reading \subseteq Keys
    OBVIOUS
  <2>3. orphans \in [phase : {"off", "listed", "named"}, keys : SUBSET Keys]
    OBVIOUS
  <2> QED
    BY <1>1, <2>1, <2>2, <2>3 DEF Shape
<1> QED
  BY <1>2, <1>3 DEF Typed, IngestStates, UploadStates

\* No handler, worker or sweep step leaves the typed states.
LEMMA StepTyped == Typed /\ [AudioNext]_audioVars => Typed'
<1> SUFFICES ASSUME Typed, [AudioNext]_audioVars
             PROVE  Typed'
  OBVIOUS
<1> QED
  BY UploadTyped, MergeTyped, IngestTyped, OtherTyped DEF AudioNext

\* Every reachable state is typed.
LEMMA AlwaysTyped == AudioSpec => []Typed
  BY InitTyped, StepTyped, PTL DEF AudioSpec

\* Counting the live merges: at most one.
LEMMA LiveOne == ASSUME JobsTyped(job) PROVE Cardinality(LiveMerges) <= 1
<1>1. CASE LiveMerges = {}
  BY <1>1, FS_EmptySet
<1>2. CASE LiveMerges # {}
  <2>1. PICK m \in LiveMerges : TRUE
    BY <1>2
  <2>2. LiveMerges = {m}
    BY <2>1 DEF LiveMerges, JobsTyped, LiveStates
  <2> QED
    BY <2>2, FS_Singleton
<1> QED
  BY <1>1, <1>2

\* Every reachable state of a recording's audio is well typed, its seams refer to its rows and
\* one merge of it is live at a time (the queue's unique index and the swap).
THEOREM AudioTyped == AudioSpec => []AudioTypeOK
<1>1. ASSUME Typed
      PROVE  AudioTypeOK
  <2>1. Cardinality(LiveMerges) <= 1
    BY <1>1, LiveOne DEF Typed
  <2>2. ap.pc \in {"idle", "adopt", "commit", "trash"} /\ ap.trash \subseteq Keys
    <3>1. ap \in Passes
      BY <1>1 DEF Typed, Shape
    <3> QED
      BY <3>1 DEF Passes
  <2>3. orphans.keys \subseteq Keys
    BY <1>1 DEF Typed, Shape
  <2> QED
    BY <1>1, <2>1, <2>2, <2>3 DEF Typed, AudioTypeOK, JobsTyped
<1> QED
  BY AlwaysTyped, <1>1, PTL

-----------------------------------------------------------------------------
\* The steps but an upload's commit, a merge's read and its swap leave the recording's segments,
\* their windows and what merges read alone.
Quiet == RecRows' = RecRows /\ UNCHANGED <<seam, holds, inputs>>

\* They do not write the segments, the seams or what a merge read.
LEMMA QuietSteps ==
  ASSUME Typed,
         \/ \E u \in Uploads : \/ UploadStart(u) \/ UploadPut(u) \/ UploadNotAdded(u)
                               \/ UploadDelete(u)
         \/ \E m \in Merges : MergeEnds(m) \/ ApplyMerge(m) \/ AdoptMerged(m) \/ ReflectRefused(m)
         \/ \E u \in Wav : IngestEnds(u) \/ ApplyIngest(u) \/ AdoptFlac(u)
         \/ \E ws \in SUBSET Windows : Finalize(ws)
         \/ Reconcile \/ Trash \/ SyncList
         \/ RunStart \/ RunList \/ RunEnd
         \/ ApiCrash \/ SweepNamed \/ \E k \in Keys : SweepTrash(k)
         \/ UNCHANGED audioVars
  PROVE  Quiet
<1>1. UNCHANGED <<segment, seam, holds, inputs>>
  BY DEF UploadStart, UploadPut, UploadNotAdded, UploadDelete, MergeEnds, ApplyMerge, AdoptMerged,
         ReflectRefused, IngestEnds, ApplyIngest, AdoptFlac, Finalize, Reconcile, Trash, SyncList,
         RunStart, RunList, RunEnd, ApiCrash, SweepNamed, SweepTrash, audioVars, content
<1> QED
  BY <1>1 DEF Quiet, RecRows, Rows

\* The rows that sync-from-disk inserts belong to no recording, and a conversion renames a key.
LEMMA QuietRows ==
  ASSUME Typed, SyncInsert \/ \E u \in Wav : CommitFlac(u)
  PROVE  Quiet
<1>1. UNCHANGED <<seam, holds, inputs>>
  BY DEF SyncInsert, CommitFlac
<1>2. CASE SyncInsert
  <2>1. \A i \in Ids : segment'[i] = segment[i] \/ (i \notin Rows /\ ~segment'[i].rec)
    BY <1>2 DEF SyncInsert
  <2>2. RecRows' = RecRows
    BY <2>1 DEF RecRows, Rows, NoSegment
  <2> QED
    BY <1>1, <2>2 DEF Quiet
<1>3. ASSUME NEW u \in Wav, CommitFlac(u)
      PROVE  RecRows' = RecRows
  <2>1. CASE segment[u] = NoSegment
    BY <1>3, <2>1 DEF CommitFlac, RecRows, Rows
  <2>2. CASE segment[u] # NoSegment
    <3>1. segment' = [segment EXCEPT ![u] = [segment[u] EXCEPT !.key = Flac(u)]]
      BY <1>3, <2>2 DEF CommitFlac
    <3>2. segment \in [Ids -> [key : Keys, rec : BOOLEAN] \cup {NoSegment}] /\ u \in Ids
      BY KeyTyped DEF Typed
    <3>3. segment[u] \in [key : Keys, rec : BOOLEAN]
      BY <2>2, <3>2
    <3>4. /\ [segment[u] EXCEPT !.key = Flac(u)].rec = segment[u].rec
          /\ [segment[u] EXCEPT !.key = Flac(u)].key = Flac(u)
      BY <3>3
    <3>5. [segment[u] EXCEPT !.key = Flac(u)] # NoSegment
      BY <3>4 DEF NoSegment, Flac
    <3>6. segment'[u].rec = segment[u].rec /\ segment'[u] # NoSegment
      BY <3>1, <3>2, <3>4, <3>5
    <3>7. \A i \in Ids : i # u => segment'[i] = segment[i]
      BY <3>1, <3>2
    <3> QED
      BY <2>2, <3>6, <3>7 DEF RecRows, Rows
  <2> QED
    BY <2>1, <2>2
<1> QED
  BY <1>1, <1>2, <1>3 DEF Quiet

-----------------------------------------------------------------------------
\* A merge's row and the merges it read are applied, for good; what it read is what its inputs
\* hold; and the job that the apply pass is at stays done.
Chained ==
  /\ \A i \in RecRows \cap Merges : job[i] = "applied"
  /\ \A m \in Merges : job[m] \in {"running", "done"} =>
       /\ \A i \in inputs[m] \cap Merges : job[i] = "applied"
       /\ \A w \in holds[m] : \E i \in inputs[m] : w \in Holds(i)
  /\ ap.pc \in {"adopt", "commit"} /\ ap.id \in Merges => job[ap.id] = "done"

\* How a step that reads no audio may move the jobs and the apply pass.
Kept ==
  /\ \A m \in Merges : /\ job[m] = "applied" => job'[m] = "applied"
                       /\ job'[m] \in {"running", "done"} => job[m] \in {"running", "done"}
  /\ ap'.pc \in {"adopt", "commit"} /\ ap'.id \in Merges => job'[ap'.id] = "done"

\* Such steps keep the chain of merges.
LEMMA KeptChain ==
  ASSUME Typed, Chained, Kept, UNCHANGED <<holds, inputs>>, RecRows' \cap Merges \subseteq RecRows
  PROVE  Chained'
<1>1. \A i : Holds(i)' = Holds(i)
  BY DEF Holds
<1>2. \A i \in RecRows' \cap Merges : job'[i] = "applied"
  BY DEF Chained, Kept
<1>3. ASSUME NEW m \in Merges, job'[m] \in {"running", "done"}
      PROVE  /\ \A i \in inputs'[m] \cap Merges : job'[i] = "applied"
             /\ \A w \in holds'[m] : \E i \in inputs'[m] : w \in Holds(i)'
  BY <1>1, <1>3 DEF Chained, Kept
<1> QED
  BY <1>2, <1>3 DEF Chained, Kept

\* An enqueue touches a fresh job only.
LEMMA EnqueuedKept ==
  ASSUME NEW js, JobsTyped(js), NEW m \in Merges
  PROVE  /\ js[m] # "absent" => Enqueued(js)[m] = js[m]
         /\ js[m] = "absent" => Enqueued(js)[m] \in {"absent", "queued"}
BY EnqueuedOne DEF JobsTyped

\* An upload's commit keeps the chain: its segment is no merge.
LEMMA AddChain ==
  ASSUME Typed, Chained, NEW u \in Uploads, AddSegment(u), UNCHANGED <<holds, inputs, ap>>
  PROVE  Chained'
<1>1. JobsTyped(job) /\ (job' = job \/ job' = Enqueued(job))
  BY DEF Typed, AddSegment
<1>2. Kept
  BY <1>1, EnqueuedKept DEF Kept, Chained
<1>3. RecRows' \cap Merges \subseteq RecRows
  BY RecordingAssumption DEF AddSegment, RecRows, Rows, Typed, Ids
<1> QED
  BY <1>2, <1>3, KeptChain

\* What a commit that swaps nothing leaves: the pass is elsewhere, the job is cancelled or as it was.
NoSwap(m) ==
  /\ ap'.pc \notin {"adopt", "commit"}
  /\ UNCHANGED segment
  /\ \/ job' = job
     \/ job' = [job EXCEPT ![m] = "cancelled"]
     \/ job' = Enqueued([job EXCEPT ![m] = "cancelled"])

\* A commit of a merge swaps the rows or swaps nothing (commitMerge).
LEMMA CommitOutcome ==
  ASSUME NEW m \in Merges, ap \in Passes, CommitMerged(m)
  PROVE  SwapMerged(m) \/ NoSwap(m)
<1> DEFINE js == [job EXCEPT ![m] = "cancelled"]
           swept == [ap EXCEPT !.pc = "trash", !.trash = {Orig(m)}]
<1>1. Resting.pc \notin {"adopt", "commit"}
  BY DEF Resting
<1>2. swept.pc \notin {"adopt", "commit"}
  BY DEF Passes
<1> HIDE DEF js, swept
<1>3. CASE UNCHANGED <<segment, job>> /\ ap' = Resting
  BY <1>1, <1>3 DEF NoSwap
<1>4. CASE /\ job' = js \/ job' = Enqueued(js)
           /\ UNCHANGED segment
           /\ ap' = Resting \/ ap' = swept
  <2>1. ap'.pc \notin {"adopt", "commit"}
    BY <1>1, <1>2, <1>4
  <2> QED
    BY <1>4, <2>1 DEF NoSwap, js
<1>5. \/ SwapMerged(m)
      \/ UNCHANGED <<segment, job>> /\ ap' = Resting
      \/ /\ job' = IF Cardinality(RecRows) >= 2 THEN Enqueued(js) ELSE js
         /\ UNCHANGED segment
         /\ ap' = IF ap.copied THEN swept ELSE Resting
  BY DEF CommitMerged, js, swept
<1> QED
  BY <1>3, <1>4, <1>5

\* The worker's and the apply pass's steps keep the chain.
LEMMA MergeChain ==
  ASSUME Typed, Chained, NEW m \in Merges, Merge(m)
  PROVE  Chained'
<1> USE RecordingAssumption
<1>0. JobsTyped(job) /\ DOMAIN job = Merges /\ ap \in Passes
  BY DEF Typed, Shape, JobsTyped
<1>1. CASE MergeReads(m)
  <2>1. job[m] = "queued" /\ UNCHANGED <<segment, ap>>
    BY <1>1 DEF MergeReads
  <2>2. RecRows' = RecRows
    BY <2>1 DEF RecRows, Rows
  <2>3. CASE job' = [job EXCEPT ![m] = "failed"] /\ UNCHANGED <<inputs, holds>>
    <3>1. Kept
      BY <1>0, <2>1, <2>3 DEF Kept, Chained
    <3> QED
      BY <2>2, <2>3, <3>1, KeptChain
  <2>4. CASE /\ inputs' = [inputs EXCEPT ![m] = RecRows]
             /\ holds' = [holds EXCEPT ![m] = UNION {Holds(i) : i \in RecRows}]
             /\ job' = [job EXCEPT ![m] = "running"]
    <3> USE <2>1, <2>4 DEF Typed
    <3>1. \A i \in Ids : i # m => Holds(i)' = Holds(i)
      BY DEF Holds, Ids
    <3>2. \A i \in RecRows : i # m
      BY DEF Chained
    <3>3. \A i \in RecRows \cap Merges : job'[i] = "applied"
      BY <1>0, <3>2 DEF Chained
    <3>4. \A w \in holds'[m] : \E i \in inputs'[m] : w \in Holds(i)'
      <4>1. holds'[m] = UNION {Holds(i) : i \in RecRows} /\ inputs'[m] = RecRows
        OBVIOUS
      <4> QED
        BY <3>1, <3>2, <4>1 DEF RecRows, Rows
    <3>5. ASSUME NEW n \in Merges, n # m, job'[n] \in {"running", "done"}
          PROVE  /\ \A i \in inputs'[n] \cap Merges : job'[i] = "applied"
                 /\ \A w \in holds'[n] : \E i \in inputs'[n] : w \in Holds(i)'
      <4>1. job[n] \in {"running", "done"} /\ inputs'[n] = inputs[n] /\ holds'[n] = holds[n]
        BY <1>0, <3>5
      <4>2. \A i \in inputs[n] \cap Merges : job[i] = "applied" /\ i # m
        BY <4>1 DEF Chained
      <4>3. \A i \in inputs[n] : Holds(i)' = Holds(i)
        BY <3>1, <4>2 DEF Ids
      <4> QED
        BY <1>0, <4>1, <4>2, <4>3 DEF Chained
    <3>6. ap'.pc \in {"adopt", "commit"} /\ ap'.id \in Merges => job'[ap'.id] = "done"
      BY <1>0 DEF Chained
    <3>7. \A i \in inputs'[m] \cap Merges : job'[i] = "applied"
      BY <3>3
    <3> QED
      BY <2>2, <3>3, <3>4, <3>5, <3>6, <3>7 DEF Chained
  <2> QED
    BY <1>1, <2>3, <2>4 DEF MergeReads
<1>2. CASE CommitMerged(m)
  <2>1. job[m] = "done" /\ UNCHANGED <<inputs, holds>>
    BY <1>2 DEF CommitMerged, Chained
  <2>2. CASE SwapMerged(m)
    <3>1. job' = [job EXCEPT ![m] = "applied"] /\ ap'.pc = "trash"
      BY <1>0, <2>2 DEF SwapMerged, Passes
    <3>2. \A i \in Ids : i # m /\ i \in RecRows' => i \in RecRows
      BY <2>2 DEF SwapMerged, RecRows, Rows, NoSegment
    <3>3. \A i \in RecRows' \cap Merges : job'[i] = "applied"
      BY <1>0, <3>1, <3>2 DEF Chained, RecRows, Rows
    <3>4. \A i : Holds(i)' = Holds(i)
      BY <2>1 DEF Holds
    <3> QED
      BY <1>0, <2>1, <3>1, <3>3, <3>4 DEF Chained
  <2>3. CASE NoSwap(m)
    <3>1. RecRows' = RecRows
      BY <2>3 DEF NoSwap, RecRows, Rows
    <3>2. CASE job' = job
      <4>1. Kept
        BY <2>3, <3>2 DEF Kept, NoSwap
      <4> QED
        BY <2>1, <3>1, <4>1, KeptChain
    <3>3. CASE \/ job' = [job EXCEPT ![m] = "cancelled"]
               \/ job' = Enqueued([job EXCEPT ![m] = "cancelled"])
      <4>1. JobsTyped([job EXCEPT ![m] = "cancelled"])
        BY <1>0 DEF JobsTyped, LiveStates, MergeStates
      <4>2. ASSUME NEW n \in Merges
            PROVE  /\ job[n] = "applied" => job'[n] = "applied"
                   /\ job'[n] \in {"running", "done"} => job[n] \in {"running", "done"}
        <5> DEFINE js == [job EXCEPT ![m] = "cancelled"]
        <5>1. IF n = m THEN job[n] = "done" /\ js[n] = "cancelled" ELSE js[n] = job[n]
          BY <1>0, <2>1
        <5>2. Enqueued(js)[n] = js[n] \/ (js[n] = "absent" /\ Enqueued(js)[n] \in {"absent", "queued"})
          BY <4>1, EnqueuedKept
        <5>3. job'[n] = js[n] \/ job'[n] = Enqueued(js)[n]
          BY <3>3
        <5> HIDE DEF js
        <5> QED
          BY <5>1, <5>2, <5>3
      <4>3. Kept
        BY <2>3, <4>2 DEF Kept, NoSwap
      <4> QED
        BY <2>1, <3>1, <4>3, KeptChain
    <3> QED
      BY <2>3, <3>2, <3>3 DEF NoSwap
  <2> QED
    BY <1>0, <1>2, <2>2, <2>3, CommitOutcome
<1>3. CASE MergeEnds(m) \/ ApplyMerge(m) \/ AdoptMerged(m) \/ ReflectRefused(m)
  <2>1. Quiet
    BY <1>3, QuietSteps
  <2>2. CASE MergeEnds(m)
    BY <1>0, <2>1, <2>2, KeptChain DEF MergeEnds, Kept, Chained, Quiet
  <2>3. CASE ApplyMerge(m)
    BY <1>0, <2>1, <2>3, KeptChain DEF ApplyMerge, Kept, Chained, Quiet, Resting, content
  <2>4. CASE AdoptMerged(m)
    <3>1. job[m] = "done"
      BY <2>4 DEF AdoptMerged, Chained
    <3>2. \/ job' = job /\ ap'.id = m
          \/ job' = [job EXCEPT ![m] = "invalid"] /\ ap'.pc = "idle"
      <4>1. Resting.pc = "idle" /\ [ap EXCEPT !.pc = "commit", !.copied = TRUE].id = ap.id
        BY <1>0 DEF Resting, Passes
      <4> QED
        BY <2>4, <4>1 DEF AdoptMerged
    <3>3. Kept
      BY <1>0, <3>1, <3>2 DEF Kept
    <3> QED
      BY <2>1, <3>3, KeptChain DEF Quiet
  <2>5. CASE ReflectRefused(m)
    BY <1>0, <2>1, <2>5, KeptChain DEF ReflectRefused, Kept, Chained, Quiet
  <2> QED
    BY <1>3, <2>2, <2>3, <2>4, <2>5
<1> QED
  BY <1>1, <1>2, <1>3 DEF Merge

\* Every other step keeps the chain.
LEMMA OtherChain ==
  ASSUME Typed, Chained,
         \/ \E u \in Uploads : Upload(u)
         \/ \E u \in Wav : Ingest(u)
         \/ \E ws \in SUBSET Windows : Finalize(ws)
         \/ Reconcile \/ Trash \/ SyncList \/ SyncInsert
         \/ RunStart \/ RunList \/ RunEnd
         \/ ApiCrash \/ SweepNamed \/ \E k \in Keys : SweepTrash(k)
         \/ UNCHANGED audioVars
  PROVE  Chained'
<1>0. JobsTyped(job) /\ ap \in Passes
  BY DEF Typed, Shape
<1>1. ASSUME NEW u \in Uploads, AddSegment(u), UNCHANGED <<holds, inputs, ap>>
      PROVE  Chained'
  BY <1>1, AddChain
<1>2. ASSUME Quiet, UNCHANGED <<job, ap>>
      PROVE  Chained'
  <2>1. Kept
    BY <1>2 DEF Kept, Chained
  <2> QED
    BY <1>2, <2>1, KeptChain DEF Quiet
<1>3. ASSUME Quiet, UNCHANGED ap, job' = job \/ job' = Enqueued(job)
      PROVE  Chained'
  <2>1. Kept
    BY <1>0, <1>3, EnqueuedKept DEF Kept, Chained
  <2> QED
    BY <1>3, <2>1, KeptChain DEF Quiet
<1>4. ASSUME Quiet, UNCHANGED job, ap'.id \notin Merges \/ ap'.pc \notin {"adopt", "commit"}
      PROVE  Chained'
  <2>1. Kept
    BY <1>4 DEF Kept
  <2> QED
    BY <1>4, <2>1, KeptChain DEF Quiet
<1>5. Resting.pc \notin {"adopt", "commit"}
  BY DEF Resting
<1>6. ASSUME NEW u \in Uploads, Upload(u)
      PROVE  Chained'
  <2>1. CASE UploadAdd(u) \/ UploadAddLost(u)
    BY <1>1, <2>1 DEF UploadAdd, UploadAddLost
  <2>2. CASE UploadStart(u) \/ UploadPut(u) \/ UploadNotAdded(u) \/ UploadDelete(u)
    <3>1. Quiet
      BY <2>2, QuietSteps
    <3> QED
      BY <1>2, <2>2, <3>1 DEF UploadStart, UploadPut, UploadNotAdded, UploadDelete, content
  <2> QED
    BY <1>6, <2>1, <2>2 DEF Upload
<1>7. ASSUME NEW u \in Wav, Ingest(u)
      PROVE  Chained'
  <2>0. u \notin Merges
    BY RecordingAssumption
  <2>1. Quiet
    BY <1>7, QuietSteps, QuietRows DEF Ingest
  <2>2. UNCHANGED job
    BY <1>7 DEF Ingest, IngestEnds, ApplyIngest, AdoptFlac, CommitFlac
  <2>3. CASE IngestEnds(u)
    BY <1>2, <2>1, <2>3 DEF IngestEnds
  <2>4. CASE ApplyIngest(u)
    <3>1. ap' = ap \/ ap'.id = u
      BY <2>4 DEF ApplyIngest, Resting
    <3> QED
      BY <1>2, <1>4, <2>0, <2>1, <2>2, <3>1
  <2>5. CASE AdoptFlac(u)
    <3>1. ap' = Resting \/ ap'.id = u
      BY <1>0, <2>5 DEF AdoptFlac, Passes
    <3> QED
      BY <1>4, <1>5, <2>0, <2>1, <2>2, <3>1
  <2>6. CASE CommitFlac(u)
    <3>1. ap'.id = u
      BY <1>0, <2>6 DEF CommitFlac, Passes
    <3> QED
      BY <1>4, <2>0, <2>1, <2>2, <3>1
  <2> QED
    BY <1>7, <2>3, <2>4, <2>5, <2>6 DEF Ingest
<1>8. ASSUME NEW ws \in SUBSET Windows, Finalize(ws)
      PROVE  Chained'
  BY <1>3, <1>8, QuietSteps DEF Finalize
<1>9. CASE Reconcile
  BY <1>3, <1>9, QuietSteps DEF Reconcile
<1>10. CASE Trash
  <2>1. ap'.pc \notin {"adopt", "commit"} /\ UNCHANGED job
    BY <1>0, <1>5, <1>10 DEF Trash, Passes
  <2> QED
    BY <1>4, <1>10, <2>1, QuietSteps
<1>11. CASE SyncInsert
  BY <1>2, <1>11, QuietRows DEF SyncInsert
<1>12. CASE ApiCrash
  BY <1>4, <1>5, <1>12, QuietSteps DEF ApiCrash, content
<1>13. CASE \/ SyncList \/ RunStart \/ RunList \/ RunEnd \/ SweepNamed
            \/ (\E k \in Keys : SweepTrash(k)) \/ UNCHANGED audioVars
  <2>1. UNCHANGED <<job, ap>>
    BY <1>13 DEF SyncList, RunStart, RunList, RunEnd, SweepNamed, SweepTrash, audioVars, content
  <2> QED
    BY <1>2, <1>13, <2>1, QuietSteps
<1> QED
  BY <1>6, <1>7, <1>8, <1>9, <1>10, <1>11, <1>12, <1>13

\* Every step of the system keeps the chain of merges.
LEMMA ChainStep == Typed /\ Chained /\ [AudioNext]_audioVars => Chained'
  BY MergeChain, OtherChain DEF AudioNext

-----------------------------------------------------------------------------
\* Each window a segment of the recording holds is the segment's own seam.
Sole == \A i \in RecRows : \A w \in Holds(i) : seam[w] = i

\* An upload adds a window nobody holds; a swap moves the inputs' windows to the merge.
LEMMA SoleStep ==
  ASSUME Typed, Chained, Sole, [AudioNext]_audioVars
  PROVE  Sole'
<1> USE RecordingAssumption, NoIdAssumption
<1>1. ASSUME Quiet
      PROVE  Sole'
  <2>1. \A i : Holds(i)' = Holds(i)
    BY <1>1 DEF Quiet, Holds
  <2> QED
    BY <1>1, <2>1 DEF Quiet, Sole
<1>2. ASSUME NEW u \in Uploads, AddSegment(u), UNCHANGED holds
      PROVE  Sole'
  <2>1. \A i : Holds(i)' = Holds(i)
    BY <1>2 DEF Holds
  <2>2. seam \in [Windows -> Ids \cup {NoId}] /\ WindowOf[u] \in Windows /\ NoId \notin Ids
    BY DEF Typed, Shape, Ids
  <2>3. seam' = [seam EXCEPT ![WindowOf[u]] = u] /\ seam[WindowOf[u]] = NoId
    BY <1>2 DEF AddSegment
  <2>4. \A i \in RecRows' : i = u \/ i \in RecRows
    BY <1>2 DEF AddSegment, RecRows, Rows
  <2>5. Holds(u) = {WindowOf[u]}
    BY DEF Holds
  <2>6. \A w \in Holds(u) : seam'[w] = u
    BY <2>2, <2>3, <2>5
  <2>7. ASSUME NEW i \in RecRows, NEW w \in Holds(i)
        PROVE  seam'[w] = i
    <3>1. seam[w] = i /\ i # NoId
      BY <2>2 DEF Sole, RecRows, Rows
    <3> QED
      BY <2>2, <2>3, <3>1
  <2> QED
    BY <2>1, <2>4, <2>6, <2>7 DEF Sole
<1>3. ASSUME NEW m \in Merges, MergeReads(m)
      PROVE  Sole'
  <2>1. RecRows' = RecRows /\ UNCHANGED seam /\ job[m] = "queued"
    BY <1>3 DEF MergeReads, RecRows, Rows
  <2>2. m \notin RecRows
    BY <2>1 DEF Chained
  <2>3. \A i \in RecRows : Holds(i)' = Holds(i)
    <3>1. \A i \in Ids : i # m => Holds(i)' = Holds(i)
      BY <1>3 DEF MergeReads, Holds, Ids, Typed
    <3> QED
      BY <2>2, <3>1 DEF RecRows, Rows
  <2> QED
    BY <2>1, <2>3 DEF Sole
<1>4. ASSUME NEW m \in Merges, CommitMerged(m)
      PROVE  Sole'
  <2>0. \A i : Holds(i)' = Holds(i)
    BY <1>4 DEF CommitMerged, Holds
  <2>1. CASE SwapMerged(m)
    <3>1. inputs[m] = RecRows /\ job[m] = "done"
      BY <1>4, <2>1 DEF SwapMerged, CommitMerged, Chained
    <3>2. RecRows' \subseteq {m}
      BY <2>1, <3>1 DEF SwapMerged, RecRows, Rows, NoSegment
    <3>3. Holds(m) = holds[m] /\ holds[m] \subseteq Windows
      BY DEF Holds, Typed
    <3>4. ASSUME NEW w \in holds[m]
          PROVE  seam'[w] = m
      <4>1. PICK i \in RecRows : w \in Holds(i)
        BY <3>1 DEF Chained
      <4>2. seam[w] = i
        BY <4>1 DEF Sole
      <4> QED
        BY <2>1, <3>1, <3>3, <4>1, <4>2 DEF SwapMerged
    <3> QED
      BY <2>0, <3>2, <3>3, <3>4 DEF Sole
  <2>2. CASE UNCHANGED <<segment, seam>>
    <3>1. RecRows' = RecRows
      BY <2>2 DEF RecRows, Rows
    <3> QED
      BY <2>0, <2>2, <3>1 DEF Sole
  <2> QED
    BY <1>4, <2>1, <2>2 DEF CommitMerged
<1>5. ASSUME NEW u \in Uploads, UploadAdd(u) \/ UploadAddLost(u)
      PROVE  Sole'
  BY <1>2, <1>5 DEF UploadAdd, UploadAddLost
<1> QED
  BY <1>1, <1>3, <1>4, <1>5, QuietSteps, QuietRows DEF AudioNext, Upload, Merge, Ingest

\* No window is heard twice, however uploads of it are retried, merges repeated, jobs lost to a
\* crash and blobs picked up from the disk (audioStore.ts's seams and the swap of mediaApply.ts).
THEOREM HeardOnce == AudioSpec => []WindowOnce
<1>1. AudioInit => Chained /\ Sole
  BY DEF AudioInit, Chained, Sole, RecRows, Rows, Resting
<1>2. Typed /\ Chained /\ Sole /\ [AudioNext]_audioVars => (Chained /\ Sole)'
  BY ChainStep, SoleStep
<1>3. Typed /\ Sole => WindowOnce
  BY DEF Sole, WindowOnce
<1> QED
  BY AlwaysTyped, <1>1, <1>2, <1>3, PTL DEF AudioSpec

-----------------------------------------------------------------------------
\* A finalize never waits for windows that are all there: the finalize and the last straggler
\* cannot miss each other, in whatever order their transactions commit.
THEOREM FinalizeRemembered == AudioSpec => []NoForgottenFinalize
<1>1. AudioInit => NoForgottenFinalize
  BY DEF AudioInit, NoForgottenFinalize
<1>2. ASSUME Typed, NoForgottenFinalize, [AudioNext]_audioVars
      PROVE  NoForgottenFinalize'
  <2> USE <1>2, NoIdAssumption DEF NoForgottenFinalize
  <2>1. ASSUME NEW u \in Uploads, AddSegment(u)
        PROVE  NoForgottenFinalize'
    BY <2>1 DEF AddSegment
  <2>2. ASSUME NEW ws \in SUBSET Windows, Finalize(ws)
        PROVE  NoForgottenFinalize'
    BY <2>2 DEF Finalize
  <2>3. ASSUME NEW m \in Merges, CommitMerged(m)
        PROVE  NoForgottenFinalize'
    <3>1. waiting \subseteq Windows /\ NoId \notin Ids /\ inputs[m] \subseteq Ids
      BY DEF Typed, Ids
    <3>2. \A w \in waiting : seam[w] = NoId => seam'[w] = NoId
      BY <2>3, <3>1 DEF CommitMerged, SwapMerged
    <3> QED
      BY <2>3, <3>2 DEF CommitMerged
  <2>4. ASSUME UNCHANGED <<seam, waiting>>
        PROVE  NoForgottenFinalize'
    BY <2>4
  <2>5. ASSUME NEW u \in Uploads, Upload(u)
        PROVE  NoForgottenFinalize'
    BY <2>1, <2>4, <2>5 DEF Upload, UploadStart, UploadPut, UploadAdd, UploadAddLost,
       UploadNotAdded, UploadDelete, content
  <2>6. ASSUME NEW m \in Merges, Merge(m)
        PROVE  NoForgottenFinalize'
    BY <2>3, <2>4, <2>6 DEF Merge, MergeReads, MergeEnds, ApplyMerge, AdoptMerged, ReflectRefused,
       content
  <2>7. ASSUME NEW u \in Wav, Ingest(u)
        PROVE  UNCHANGED <<seam, waiting>>
    BY <2>7 DEF Ingest, IngestEnds, ApplyIngest, AdoptFlac, CommitFlac
  <2>8. CASE \/ Reconcile \/ Trash \/ SyncList \/ SyncInsert \/ RunStart \/ RunList \/ RunEnd
             \/ ApiCrash \/ SweepNamed \/ (\E k \in Keys : SweepTrash(k)) \/ UNCHANGED audioVars
    <3>1. UNCHANGED <<seam, waiting>>
      BY <2>8 DEF Reconcile, Trash, SyncList, SyncInsert, RunStart, RunList, RunEnd, ApiCrash,
         SweepNamed, SweepTrash, audioVars, content
    <3> QED
      BY <2>4, <3>1
  <2> QED
    BY <2>2, <2>4, <2>5, <2>6, <2>7, <2>8 DEF AudioNext
<1> QED
  BY AlwaysTyped, <1>1, <1>2, PTL DEF AudioSpec

-----------------------------------------------------------------------------
(* The files of a recording: what may delete a blob, and why no row, no    *)
(* answered upload and no generation run loses one.                        *)

\* The keys of two segments differ, and so do a segment's two keys.
LEMMA KeysApart ==
  /\ \A i : Orig(i)[1] = i /\ Flac(i)[1] = i
  /\ \A i, j : Orig(i) # Flac(j)
  /\ \A i, j : (Orig(i) = Orig(j) => i = j) /\ (Flac(i) = Flac(j) => i = j)
BY DEF Orig, Flac

\* A key a later step may delete: the apply pass trashes it, or the boot sweep does.
Doomed(k) == k \in ap.trash \/ (orphans.phase = "named" /\ k \in orphans.keys)

\* What most steps do to a key: no new blob of it, none gone but a doomed one, no new candidate,
\* and no key of a row doomed.
KeyKept(k) ==
  /\ k \in blobs' => k \in blobs
  /\ k \in blobs => k \in blobs' \/ Doomed(k)
  /\ k \in orphans'.keys => k \in orphans.keys
  /\ k \in ap'.trash => k \in ap.trash
  /\ Doomed(k)' => Doomed(k) \/ k \notin NamedKeys

\* The steps that touch a key otherwise: its upload's handler, the copy of its job's result, the
\* swaps that replace it, and the listing of the boot sweep.
Touched(k) ==
  \/ \E u \in Uploads : k = Orig(u) /\ (UploadPut(u) \/ UploadDelete(u))
  \/ \E m \in Merges : /\ CommitMerged(m)
                       /\ k = Orig(m) \/ (SwapMerged(m) /\ \E i \in inputs[m] : k = segment[i].key)
  \/ \E m \in Merges : k = Orig(m) /\ AdoptMerged(m)
  \/ \E u \in Wav : k = Flac(u) /\ AdoptFlac(u)
  \/ \E u \in Wav : CommitFlac(u) /\ (k = Flac(u) \/ (segment[u] # NoSegment /\ k = segment[u].key))
  \/ ApiCrash /\ k \in Swept

\* A step that writes no blob, trash or candidate keeps every key.
LEMMA StillKey ==
  ASSUME NEW k, UNCHANGED <<blobs, orphans>>, ap' = ap \/ ap'.trash = {}
  PROVE  KeyKept(k)
BY DEF KeyKept, Doomed

\* Who touches the files of a recording.
LEMMA KeySteps ==
  ASSUME Typed, [AudioNext]_audioVars, NEW k
  PROVE  KeyKept(k) \/ Touched(k)
<1>0. ap \in Passes /\ Resting.trash = {}
  BY DEF Typed, Shape, Resting
<1>1. ASSUME NEW u \in Uploads, Upload(u)
      PROVE  KeyKept(k) \/ Touched(k)
  <2>1. CASE UploadPut(u) \/ UploadDelete(u)
    <3>1. CASE k = Orig(u)
      BY <2>1, <3>1 DEF Touched
    <3>2. CASE k # Orig(u)
      BY <2>1, <3>2 DEF UploadPut, UploadDelete, KeyKept, Doomed
    <3> QED
      BY <3>1, <3>2
  <2>2. CASE UploadStart(u) \/ UploadAdd(u) \/ UploadAddLost(u) \/ UploadNotAdded(u)
    <3>1. UNCHANGED <<blobs, orphans, ap>>
      BY <2>2 DEF UploadStart, UploadAdd, UploadAddLost, UploadNotAdded, content
    <3> QED
      BY <3>1, StillKey
  <2> QED
    BY <1>1, <2>1, <2>2 DEF Upload
<1>2. ASSUME NEW m \in Merges, Merge(m)
      PROVE  KeyKept(k) \/ Touched(k)
  <2>1. CASE MergeReads(m) \/ MergeEnds(m) \/ ApplyMerge(m) \/ ReflectRefused(m)
    <3>1. UNCHANGED <<blobs, orphans>> /\ (ap' = ap \/ ap'.trash = {})
      BY <2>1 DEF MergeReads, MergeEnds, ApplyMerge, ReflectRefused, content, Resting
    <3> QED
      BY <3>1, StillKey
  <2>2. CASE AdoptMerged(m)
    <3>1. CASE k = Orig(m)
      BY <2>2, <3>1 DEF Touched
    <3>2. CASE k # Orig(m)
      <4>1. /\ orphans' = orphans /\ (k \in blobs' <=> k \in blobs)
            /\ ap'.trash = ap.trash \/ ap'.trash = {}
        BY <1>0, <2>2, <3>2 DEF AdoptMerged, Adopt, Passes
      <4> QED
        BY <4>1 DEF KeyKept, Doomed
    <3> QED
      BY <3>1, <3>2
  <2>3. CASE CommitMerged(m)
    <3>1. CASE k = Orig(m) \/ (SwapMerged(m) /\ \E i \in inputs[m] : k = segment[i].key)
      BY <2>3, <3>1 DEF Touched
    <3>2. CASE k # Orig(m) /\ ~(SwapMerged(m) /\ \E i \in inputs[m] : k = segment[i].key)
      <4>1. UNCHANGED <<blobs, orphans>>
        BY <2>3 DEF CommitMerged
      <4>2. CASE SwapMerged(m)
        <5>1. ap' = [ap EXCEPT !.pc = "trash", !.trash = {segment[i].key : i \in inputs[m]}]
          BY <4>2 DEF SwapMerged
        <5>2. k \notin {segment[i].key : i \in inputs[m]}
          BY <3>2, <4>2
        <5>3. k \notin ap'.trash
          BY <1>0, <5>1, <5>2 DEF Passes
        <5> QED
          BY <4>1, <5>3 DEF KeyKept, Doomed
      <4>3. CASE \/ ap' = [ap EXCEPT !.pc = "trash", !.trash = {Orig(m)}]
                 \/ ap' = Resting
        <5>1. ap'.trash = {Orig(m)} \/ ap'.trash = {}
          BY <1>0, <4>3 DEF Passes
        <5>2. k \notin ap'.trash
          BY <3>2, <5>1
        <5> QED
          BY <4>1, <5>2 DEF KeyKept, Doomed
      <4>4. \/ SwapMerged(m) \/ ap' = Resting
            \/ ap' = [ap EXCEPT !.pc = "trash", !.trash = {Orig(m)}]
        BY <2>3 DEF CommitMerged
      <4> QED
        BY <4>2, <4>3, <4>4
    <3> QED
      BY <3>1, <3>2
  <2> QED
    BY <1>2, <2>1, <2>2, <2>3 DEF Merge
<1>3. ASSUME NEW u \in Wav, Ingest(u)
      PROVE  KeyKept(k) \/ Touched(k)
  <2>1. CASE IngestEnds(u) \/ ApplyIngest(u)
    <3>1. UNCHANGED <<blobs, orphans>> /\ (ap' = ap \/ ap'.trash = {})
      BY <2>1 DEF IngestEnds, ApplyIngest, Resting
    <3> QED
      BY <3>1, StillKey
  <2>2. CASE AdoptFlac(u)
    <3>1. CASE k = Flac(u)
      BY <2>2, <3>1 DEF Touched
    <3>2. CASE k # Flac(u)
      <4>1. /\ orphans' = orphans /\ (k \in blobs' <=> k \in blobs)
            /\ ap'.trash = ap.trash \/ ap'.trash = {}
        BY <1>0, <2>2, <3>2 DEF AdoptFlac, Adopt, Passes
      <4> QED
        BY <4>1 DEF KeyKept, Doomed
    <3> QED
      BY <3>1, <3>2
  <2>3. CASE CommitFlac(u)
    <3>1. CASE k = Flac(u) \/ (segment[u] # NoSegment /\ k = segment[u].key)
      BY <2>3, <3>1 DEF Touched
    <3>2. CASE k # Flac(u) /\ ~(segment[u] # NoSegment /\ k = segment[u].key)
      <4>1. UNCHANGED <<blobs, orphans>> /\ k \notin ap'.trash
        BY <1>0, <2>3, <3>2 DEF CommitFlac, Passes
      <4> QED
        BY <4>1 DEF KeyKept, Doomed
    <3> QED
      BY <3>1, <3>2
  <2> QED
    BY <1>3, <2>1, <2>2, <2>3 DEF Ingest
<1>4. CASE Trash
  <2>1. orphans' = orphans
    BY <1>4 DEF Trash
  <2>2. ap'.trash \subseteq ap.trash /\ (blobs' = blobs \/ \E j \in ap.trash : blobs' = blobs \ {j})
    BY <1>0, <1>4 DEF Trash, Passes
  <2> QED
    BY <2>1, <2>2 DEF KeyKept, Doomed
<1>5. CASE ApiCrash
  <2>1. CASE k \in Swept
    BY <1>5, <2>1 DEF Touched
  <2>2. CASE k \notin Swept
    <3>1. blobs' = blobs /\ k \notin orphans'.keys /\ ap'.trash = {}
      BY <1>0, <1>5, <2>2 DEF ApiCrash, content
    <3> QED
      BY <3>1 DEF KeyKept, Doomed
  <2> QED
    BY <2>1, <2>2
<1>6. CASE SweepNamed
  BY <1>6 DEF SweepNamed, KeyKept, Doomed, content
<1>7. ASSUME NEW j \in Keys, SweepTrash(j)
      PROVE  KeyKept(k)
  <2>1. orphans \in [phase : {"off", "listed", "named"}, keys : SUBSET Keys]
    BY DEF Typed, Shape
  <2> QED
    BY <1>7, <2>1 DEF SweepTrash, KeyKept, Doomed
<1>8. CASE \/ \E ws \in SUBSET Windows : Finalize(ws)
           \/ Reconcile \/ SyncList \/ SyncInsert \/ RunStart \/ RunList \/ RunEnd
           \/ UNCHANGED audioVars
  <2>1. UNCHANGED <<blobs, orphans, ap>>
    BY <1>8 DEF Finalize, Reconcile, SyncList, SyncInsert, RunStart, RunList, RunEnd, audioVars, content
  <2> QED
    BY <2>1, StillKey
<1> QED
  BY <1>1, <1>2, <1>3, <1>4, <1>5, <1>6, <1>7, <1>8 DEF AudioNext
-----------------------------------------------------------------------------
\* A row's key carries its segment's id: an insert writes it so, a conversion and a swap keep it.
Keyed == \A i \in Ids : segment[i] # NoSegment => segment[i].key[1] = i

\* The boot sweep has candidates after a long outage only.
OrphansOff == LongOutages \/ orphans.keys = {}

\* Every step keeps the keys of the rows and the candidates of the sweep so.
LEMMA KeyedStep ==
  ASSUME Typed, Keyed, OrphansOff, [AudioNext]_audioVars
  PROVE  Keyed' /\ OrphansOff'
<1> USE KeysApart
<1>1. ASSUME UNCHANGED segment
      PROVE  Keyed'
  BY <1>1 DEF Keyed
<1>2. ASSUME NEW u \in Uploads, AddSegment(u)
      PROVE  Keyed'
  BY <1>2 DEF AddSegment, Keyed, Typed, Ids
<1>3. ASSUME NEW m \in Merges, SwapMerged(m)
      PROVE  Keyed'
  BY <1>3 DEF SwapMerged, Keyed
<1>4. ASSUME NEW u \in Wav, CommitFlac(u)
      PROVE  Keyed'
  <2>1. segment \in [Ids -> [key : Keys, rec : BOOLEAN] \cup {NoSegment}]
    BY DEF Typed
  <2>2. CASE segment[u] = NoSegment
    BY <1>1, <1>4, <2>2 DEF CommitFlac
  <2>3. CASE segment[u] # NoSegment
    <3>1. segment' = [segment EXCEPT ![u] = [segment[u] EXCEPT !.key = Flac(u)]]
      BY <1>4, <2>3 DEF CommitFlac
    <3>2. segment[u] \in [key : Keys, rec : BOOLEAN]
      BY <2>1, <2>3, KeyTyped
    <3>3. [segment[u] EXCEPT !.key = Flac(u)].key = Flac(u)
      BY <3>2
    <3>4. segment'[u].key[1] = u /\ \A i \in Ids : i # u => segment'[i] = segment[i]
      BY <2>1, <3>1, <3>3, KeyTyped
    <3> QED
      BY <3>4 DEF Keyed
  <2> QED
    BY <2>2, <2>3
<1>5. ASSUME SyncInsert
      PROVE  Keyed'
  <2> DEFINE new == {k[1] : k \in listing} \ Rows
  <2>1. PICK key \in [new -> listing] :
          /\ \A i \in new : key[i][1] = i
          /\ segment' = [i \in Ids |-> IF i \in new THEN [key |-> key[i], rec |-> FALSE] ELSE segment[i]]
    BY <1>5 DEF SyncInsert
  <2> HIDE DEF new
  <2> QED
    BY <2>1 DEF Keyed
<1>6. OrphansOff'
  <2>1. orphans' = orphans \/ ApiCrash \/ SweepNamed \/ \E k \in Keys : SweepTrash(k)
    BY DEF AudioNext, Upload, Merge, Ingest, UploadStart, UploadPut, UploadAdd, UploadAddLost,
           UploadNotAdded, UploadDelete, MergeReads, MergeEnds, ApplyMerge, AdoptMerged,
           CommitMerged, ReflectRefused, IngestEnds, ApplyIngest, AdoptFlac, CommitFlac,
           Finalize, Reconcile, Trash, SyncList, SyncInsert, RunStart, RunList, RunEnd, audioVars
  <2>2. orphans \in [phase : {"off", "listed", "named"}, keys : SUBSET Keys]
    BY DEF Typed, Shape
  <2> QED
    BY <2>1, <2>2 DEF OrphansOff, ApiCrash, SweepNamed, SweepTrash
<1>7. \/ UNCHANGED segment \/ SyncInsert
      \/ \E u \in Uploads : AddSegment(u)
      \/ \E m \in Merges : SwapMerged(m)
      \/ \E u \in Wav : CommitFlac(u)
  BY DEF AudioNext, Upload, Merge, Ingest, UploadStart, UploadPut, UploadAdd, UploadAddLost,
         UploadNotAdded, UploadDelete, MergeReads, MergeEnds, ApplyMerge, AdoptMerged,
         CommitMerged, ReflectRefused, IngestEnds, ApplyIngest, AdoptFlac,
         Finalize, Reconcile, Trash, SyncList, RunStart, RunList, RunEnd, ApiCrash, SweepNamed,
         SweepTrash, audioVars, content
<1> QED
  BY <1>1, <1>2, <1>3, <1>4, <1>5, <1>6, <1>7

-----------------------------------------------------------------------------
\* A merge's status after a step that is not its own: as it was, or enqueued.
JobStill(m) ==
  /\ job'[m] = job[m] \/ (job[m] = "absent" /\ job'[m] = "queued")
  /\ m \in dirs => m \in dirs'

\* The steps that write a merge's status or its result file.
OwnStep(m) ==
  MergeReads(m) \/ MergeEnds(m) \/ AdoptMerged(m) \/ CommitMerged(m) \/ ReflectRefused(m)

\* Only its own steps move a merge on, but for the enqueue.
LEMMA JobSteps ==
  ASSUME Typed, [AudioNext]_audioVars, NEW n \in Merges
  PROVE  JobStill(n) \/ OwnStep(n)
<1>0. JobsTyped(job) /\ job \in [Merges -> MergeStates]
  BY DEF Typed, JobsTyped
<1>1. ASSUME UNCHANGED dirs, job' = job \/ job' = Enqueued(job)
      PROVE  JobStill(n)
  BY <1>0, <1>1, EnqueuedKept DEF JobStill
<1>2. ASSUME NEW u \in Uploads, Upload(u)
      PROVE  JobStill(n)
  BY <1>1, <1>2 DEF Upload, UploadStart, UploadPut, UploadAdd, UploadAddLost, UploadNotAdded,
     UploadDelete, AddSegment, content
<1>3. ASSUME NEW m \in Merges, m # n, Merge(m)
      PROVE  JobStill(n)
  <2>1. CASE MergeReads(m) \/ MergeEnds(m) \/ AdoptMerged(m) \/ ReflectRefused(m)
    BY <1>0, <1>3, <2>1 DEF MergeReads, MergeEnds, AdoptMerged, Adopt, ReflectRefused, JobStill
  <2>2. CASE ApplyMerge(m)
    BY <1>1, <2>2 DEF ApplyMerge, content
  <2>3. CASE CommitMerged(m)
    <3> DEFINE js == [job EXCEPT ![m] = "cancelled"]
    <3>1. /\ n \in dirs => n \in dirs'
          /\ job' \in {job, js, Enqueued(js), [job EXCEPT ![m] = "applied"]}
      BY <1>3, <2>3 DEF CommitMerged, SwapMerged
    <3>2. JobsTyped(js) /\ js[n] = job[n] /\ [job EXCEPT ![m] = "applied"][n] = job[n]
      BY <1>0, <1>3 DEF JobsTyped, LiveStates, MergeStates
    <3>3. Enqueued(js)[n] = js[n] \/ (js[n] = "absent" /\ Enqueued(js)[n] \in {"absent", "queued"})
      BY <3>2, EnqueuedKept
    <3> HIDE DEF js
    <3>4. job'[n] = job[n] \/ (job[n] = "absent" /\ job'[n] = "queued")
      BY <3>1, <3>2, <3>3
    <3> QED
      BY <3>1, <3>4 DEF JobStill
  <2> QED
    BY <1>3, <2>1, <2>2, <2>3 DEF Merge
<1>4. ASSUME ApplyMerge(n)
      PROVE  JobStill(n)
  BY <1>1, <1>4 DEF ApplyMerge, content
<1>5. ASSUME NEW u \in Wav, Ingest(u)
      PROVE  JobStill(n)
  BY <1>5, RecordingAssumption DEF Ingest, IngestEnds, ApplyIngest, AdoptFlac, Adopt, CommitFlac,
     JobStill
<1>6. CASE \/ \E ws \in SUBSET Windows : Finalize(ws)
           \/ Reconcile \/ Trash \/ SyncList \/ SyncInsert
           \/ RunStart \/ RunList \/ RunEnd
           \/ ApiCrash \/ SweepNamed \/ (\E k \in Keys : SweepTrash(k))
           \/ UNCHANGED audioVars
  BY <1>1, <1>6 DEF Finalize, Reconcile, Trash, SyncList, SyncInsert, RunStart, RunList, RunEnd,
     ApiCrash, SweepNamed, SweepTrash, audioVars, content
<1> QED
  BY <1>2, <1>3, <1>4, <1>5, <1>6 DEF AudioNext, Merge, OwnStep
-----------------------------------------------------------------------------
\* The copy of a merge's result: none before the merge is done, then its directory or its key is
\* there, and nobody may delete the key before the swap.
MergeFile(m) ==
  /\ job[m] \in {"absent"} \cup LiveStates => Orig(m) \notin orphans.keys \cup ap.trash
  /\ job[m] \in {"absent", "queued", "running"} => Orig(m) \notin blobs
  /\ job[m] = "done" => m \in dirs \/ Orig(m) \in blobs
  /\ job[m] # "invalid"

\* Each step keeps what is known of a merge's result file.
LEMMA MergeFileStep ==
  ASSUME Typed, Chained, Keyed, [AudioNext]_audioVars, NEW n \in Merges, MergeFile(n)
  PROVE  MergeFile(n)'
<1> USE RecordingAssumption DEF LiveStates
<1>0. job \in [Merges -> MergeStates] /\ ap \in Passes
  BY DEF Typed, JobsTyped, Shape
<1>1. CASE JobStill(n) /\ ~OwnStep(n)
  <2>1. CASE KeyKept(Orig(n))
    BY <1>1, <2>1 DEF JobStill, KeyKept, Doomed, MergeFile
  <2>2. ASSUME NEW i \in Ids, segment[i] # NoSegment, Orig(n) = segment[i].key
        PROVE  i = n
    BY <2>2, KeysApart DEF Keyed
  <2>3. ASSUME NEW m \in Merges, SwapMerged(m), NEW i \in inputs[m], Orig(n) = segment[i].key
        PROVE  MergeFile(n)'
    <3>1. i \in RecRows
      BY <2>3 DEF SwapMerged
    <3>2. i = n
      BY <2>2, <2>3, <3>1 DEF RecRows, Rows
    <3>3. job[n] = "applied"
      BY <3>1, <3>2 DEF Chained
    <3> QED
      BY <1>1, <3>3 DEF JobStill, MergeFile
  <2>4. ASSUME ApiCrash, Orig(n) \in Swept
        PROVE  MergeFile(n)'
    <3>1. UNCHANGED <<job, blobs, dirs>> /\ ap' = Resting
      BY <2>4 DEF ApiCrash, content
    <3>2. job[n] \notin {"absent"} \cup LiveStates
      BY <2>4 DEF Swept, LiveMerges, MergeFile
    <3> QED
      BY <3>1, <3>2 DEF MergeFile
  <2>5. CASE Touched(Orig(n))
    <3>1. \A m \in Merges : Orig(n) = Orig(m) => ~CommitMerged(m) /\ ~AdoptMerged(m)
      BY <1>1, KeysApart DEF OwnStep
    <3>2. \A u \in Uploads : Orig(n) # Orig(u) /\ Orig(n) # Flac(u)
      BY KeysApart
    <3>3. ASSUME NEW u \in Wav, segment[u] # NoSegment, Orig(n) = segment[u].key
          PROVE  FALSE
      BY <2>2, <3>3 DEF Ids
    <3> QED
      BY <2>3, <2>4, <2>5, <3>1, <3>2, <3>3 DEF Touched
  <2> QED
    BY <2>1, <2>5, KeySteps
<1>2. CASE MergeReads(n)
  BY <1>0, <1>2 DEF MergeReads, MergeFile
<1>3. CASE MergeEnds(n)
  BY <1>0, <1>3 DEF MergeEnds, MergeFile
<1>4. CASE AdoptMerged(n)
  <2>1. job[n] = "done"
    BY <1>4 DEF AdoptMerged, Chained
  <2>2. Orig(n) \in blobs' /\ UNCHANGED <<orphans, job>> /\ ap'.trash = ap.trash
    BY <1>0, <1>4, <2>1 DEF AdoptMerged, Adopt, Passes, MergeFile
  <2> QED
    BY <2>1, <2>2 DEF MergeFile
<1>5. CASE CommitMerged(n)
  <2>1. job[n] = "done"
    BY <1>5 DEF CommitMerged, Chained
  <2>2. CASE job' = job /\ UNCHANGED <<dirs, blobs, orphans>> /\ ap' = Resting
    BY <2>1, <2>2 DEF MergeFile, Resting
  <2>3. CASE job'[n] \in {"applied", "cancelled"}
    BY <2>3 DEF MergeFile
  <2>4. CASE job' = Enqueued([job EXCEPT ![n] = "cancelled"])
    <3> DEFINE js == [job EXCEPT ![n] = "cancelled"]
    <3>1. JobsTyped(js) /\ js[n] = "cancelled"
      BY <1>0 DEF Typed, JobsTyped, LiveStates, MergeStates
    <3>2. Enqueued(js)[n] = "cancelled"
      BY <3>1, EnqueuedKept
    <3> QED
      BY <2>3, <2>4, <3>2
  <2> QED
    BY <1>0, <1>5, <2>2, <2>3, <2>4 DEF CommitMerged, SwapMerged
<1>6. CASE ReflectRefused(n)
  BY <1>0, <1>6 DEF ReflectRefused, MergeFile
<1> QED
  BY <1>1, <1>2, <1>3, <1>4, <1>5, <1>6, JobSteps DEF OwnStep
-----------------------------------------------------------------------------
\* The FLAC of a WAV upload: until it is applied its key is not in the trash, a finished one has
\* its directory or its key, a row names it once it is applied, and the apply pass works on
\* finished ones.
FlacFile(u) ==
  /\ ingest[u] \in {"absent", "queued", "done"} => Flac(u) \notin ap.trash
  /\ ingest[u] = "done" => u \in dirs \/ Flac(u) \in blobs
  /\ ingest[u] # "invalid"
  /\ u \in RecRows /\ segment[u].key = Flac(u) => ingest[u] = "applied"
  /\ ap.pc \in {"adopt", "commit"} /\ ap.id = u => ingest[u] = "done"

\* An ingest after a step that is not its own: as it was, or queued with its upload's row.
IngestStill(u) ==
  /\ ingest'[u] = ingest[u] \/ (ingest[u] = "absent" /\ ingest'[u] = "queued")
  /\ u \in dirs => u \in dirs'
  /\ u \in RecRows' /\ segment'[u].key = Flac(u) => u \in RecRows /\ segment[u].key = Flac(u)
  /\ ap'.pc \in {"adopt", "commit"} /\ ap'.id = u => ap.pc \in {"adopt", "commit"} /\ ap.id = u

\* Only its own steps move an ingest on, once it is queued.
LEMMA IngestSteps ==
  ASSUME Typed, [AudioNext]_audioVars, NEW u \in Wav
  PROVE  IngestStill(u) \/ Ingest(u)
<1> USE RecordingAssumption
<1>0. /\ ap \in Passes /\ ingest \in [Wav -> IngestStates]
      /\ u \in Ids /\ u \notin Merges /\ u # NoId /\ Resting.pc = "idle"
      /\ segment \in [Ids -> [key : Keys, rec : BOOLEAN] \cup {NoSegment}]
  BY NoIdAssumption DEF Typed, Shape, Ids, Resting
<1>1. ASSUME UNCHANGED <<segment, ingest>>, u \in dirs => u \in dirs',
             ap' = ap \/ ap'.id # u \/ ap'.pc \notin {"adopt", "commit"}
      PROVE  IngestStill(u)
  BY <1>1 DEF IngestStill, RecRows, Rows
<1>2. ASSUME NEW x \in Uploads, AddSegment(x), UNCHANGED <<dirs, ap>>
      PROVE  IngestStill(u)
  <2>1. segment'[u] = segment[u] \/ segment'[u].key = Orig(u)
    BY <1>0, <1>2 DEF AddSegment
  <2>2. ingest'[u] = ingest[u] \/ (ingest[u] = "absent" /\ ingest'[u] = "queued")
    BY <1>2 DEF AddSegment
  <2> QED
    BY <1>0, <1>2, <2>1, <2>2, KeysApart DEF IngestStill, RecRows, Rows
<1>3. ASSUME NEW x \in Uploads, Upload(x)
      PROVE  IngestStill(u)
  <2>1. CASE UploadAdd(x) \/ UploadAddLost(x)
    BY <1>2, <2>1 DEF UploadAdd, UploadAddLost
  <2>2. CASE UploadStart(x) \/ UploadPut(x) \/ UploadNotAdded(x) \/ UploadDelete(x)
    BY <1>1, <2>2 DEF UploadStart, UploadPut, UploadNotAdded, UploadDelete, content
  <2> QED
    BY <1>3, <2>1, <2>2 DEF Upload
<1>4. ASSUME NEW m \in Merges, Merge(m)
      PROVE  IngestStill(u)
  <2>1. CASE MergeReads(m) \/ MergeEnds(m) \/ ReflectRefused(m)
    BY <1>1, <2>1 DEF MergeReads, MergeEnds, ReflectRefused
  <2>2. CASE ApplyMerge(m)
    <3>1. ap'.id = m
      BY <2>2 DEF ApplyMerge, Resting
    <3> QED
      BY <1>0, <1>1, <2>2, <3>1 DEF ApplyMerge, content
  <2>3. CASE AdoptMerged(m)
    <3>1. ap'.id = m \/ ap' = Resting
      BY <1>0, <2>3 DEF AdoptMerged, Passes
    <3> QED
      BY <1>0, <1>1, <2>3, <3>1 DEF AdoptMerged, Adopt
  <2>4. CASE CommitMerged(m)
    <3>1. /\ ap'.pc \notin {"adopt", "commit"} /\ ingest' = ingest
          /\ u \in dirs => u \in dirs'
          /\ segment'[u] = segment[u] \/ segment'[u] = NoSegment
      <4>1. ap'.pc \notin {"adopt", "commit"}
        BY <1>0, <2>4, CommitOutcome DEF SwapMerged, NoSwap, Passes
      <4> QED
        BY <1>0, <2>4, <4>1 DEF CommitMerged, SwapMerged
    <3> QED
      BY <1>0, <3>1 DEF IngestStill, RecRows, Rows
  <2> QED
    BY <1>4, <2>1, <2>2, <2>3, <2>4 DEF Merge
<1>5. ASSUME NEW x \in Wav, x # u, Ingest(x)
      PROVE  IngestStill(u)
  <2>1. CASE IngestEnds(x) \/ ApplyIngest(x) \/ AdoptFlac(x)
    <3>1. segment' = segment /\ ingest'[u] = ingest[u] /\ (u \in dirs => u \in dirs')
      BY <1>0, <1>5, <2>1 DEF IngestEnds, ApplyIngest, AdoptFlac, Adopt
    <3>2. ap' = ap \/ ap'.id = x \/ ap' = Resting
      BY <1>0, <2>1 DEF IngestEnds, ApplyIngest, AdoptFlac, Passes, Resting
    <3> QED
      BY <1>0, <1>5, <3>1, <3>2 DEF IngestStill, RecRows, Rows
  <2>2. CASE CommitFlac(x)
    <3>1. segment'[u] = segment[u] /\ ingest'[u] = ingest[u] /\ (u \in dirs => u \in dirs')
      BY <1>0, <1>5, <2>2 DEF CommitFlac
    <3>2. ap'.pc = "trash"
      BY <1>0, <2>2 DEF CommitFlac, Passes
    <3> QED
      BY <1>0, <3>1, <3>2 DEF IngestStill, RecRows, Rows
  <2> QED
    BY <1>5, <2>1, <2>2 DEF Ingest
<1>6. CASE SyncInsert
  <2> DEFINE new == {k[1] : k \in listing} \ Rows
  <2>1. PICK key \in [new -> listing] :
          /\ segment' = [i \in Ids |-> IF i \in new THEN [key |-> key[i], rec |-> FALSE] ELSE segment[i]]
          /\ ingest' = [x \in Wav |-> IF x \in new /\ ingest[x] = "absent" THEN "queued" ELSE ingest[x]]
    BY <1>6 DEF SyncInsert
  <2> HIDE DEF new
  <2>2. segment'[u] = segment[u] \/ ~segment'[u].rec
    BY <1>0, <2>1
  <2>3. ingest'[u] = ingest[u] \/ (ingest[u] = "absent" /\ ingest'[u] = "queued")
    BY <2>1
  <2>4. UNCHANGED <<dirs, ap>>
    BY <1>6 DEF SyncInsert
  <2> QED
    BY <1>0, <2>2, <2>3, <2>4 DEF IngestStill, RecRows, Rows
<1>7. CASE Trash
  <2>1. ap'.pc \notin {"adopt", "commit"}
    BY <1>0, <1>7 DEF Trash, Passes
  <2> QED
    BY <1>1, <1>7, <2>1 DEF Trash
<1>8. CASE ApiCrash
  BY <1>0, <1>1, <1>8 DEF ApiCrash, content
<1>9. CASE \/ \E ws \in SUBSET Windows : Finalize(ws)
           \/ Reconcile \/ SyncList \/ RunStart \/ RunList \/ RunEnd
           \/ SweepNamed \/ (\E k \in Keys : SweepTrash(k)) \/ UNCHANGED audioVars
  BY <1>1, <1>9 DEF Finalize, Reconcile, SyncList, RunStart, RunList, RunEnd,
     SweepNamed, SweepTrash, audioVars, content
<1> QED
  BY <1>3, <1>4, <1>5, <1>6, <1>7, <1>8, <1>9 DEF AudioNext

\* Each step keeps what is known of an ingest's result file, as the boot sweep takes none.
LEMMA FlacFileStep ==
  ASSUME ~LongOutages, OrphansOff, Typed, Keyed, [AudioNext]_audioVars,
         \A x \in Wav : FlacFile(x), NEW u \in Wav
  PROVE  FlacFile(u)'
<1> USE RecordingAssumption
<1>0. /\ ap \in Passes /\ ingest \in [Wav -> IngestStates]
      /\ u \in Ids /\ u \notin Merges /\ u # NoId
      /\ segment \in [Ids -> [key : Keys, rec : BOOLEAN] \cup {NoSegment}]
      /\ FlacFile(u) /\ orphans.keys = {}
  BY NoIdAssumption DEF Typed, Shape, Ids, OrphansOff
<1>1. CASE IngestStill(u) /\ ~Ingest(u)
  <2>1. CASE KeyKept(Flac(u))
    BY <1>0, <1>1, <2>1 DEF IngestStill, KeyKept, Doomed, FlacFile
  <2>2. ASSUME NEW i \in Ids, segment[i] # NoSegment, Flac(u) = segment[i].key
        PROVE  i = u
    BY <2>2, KeysApart DEF Keyed
  <2>3. ASSUME NEW m \in Merges, CommitMerged(m), SwapMerged(m),
               NEW i \in inputs[m], Flac(u) = segment[i].key
        PROVE  FlacFile(u)'
    <3>1. i \in RecRows
      BY <2>3 DEF SwapMerged
    <3>2. u \in RecRows /\ segment[u].key = Flac(u)
      BY <2>2, <2>3, <3>1 DEF RecRows, Rows
    <3>3. ingest[u] = "applied"
      BY <1>0, <3>2 DEF FlacFile
    <3> QED
      BY <1>0, <1>1, <3>3 DEF IngestStill, FlacFile
  <2>4. ASSUME ApiCrash
        PROVE  FlacFile(u)'
    <3>1. UNCHANGED <<segment, ingest, blobs, dirs>> /\ ap' = Resting
      BY <2>4 DEF ApiCrash, content
    <3> QED
      BY <1>0, <3>1 DEF FlacFile, Resting, RecRows, Rows
  <2>5. CASE Touched(Flac(u))
    <3>1. \A x \in Wav : Flac(u) = Flac(x) => ~Ingest(x)
      BY <1>1, KeysApart
    <3>2. \A i : Flac(u) # Orig(i)
      BY KeysApart
    <3>3. ASSUME NEW x \in Wav, segment[x] # NoSegment, Flac(u) = segment[x].key, CommitFlac(x)
          PROVE  FALSE
      BY <1>1, <2>2, <3>3 DEF Ids, Ingest
    <3> QED
      BY <2>3, <2>4, <2>5, <3>1, <3>2, <3>3 DEF Touched, Ingest
  <2> QED
    BY <2>1, <2>5, KeySteps
<1>2. CASE IngestEnds(u)
  BY <1>0, <1>2 DEF IngestEnds, FlacFile, RecRows, Rows
<1>3. CASE ApplyIngest(u)
  <2>1. CASE segment[u] = NoSegment
    BY <1>0, <1>3, <2>1 DEF ApplyIngest, FlacFile, RecRows, Rows, Resting
  <2>2. CASE segment[u] # NoSegment
    <3>1. UNCHANGED <<segment, ingest, blobs, dirs>> /\ ap'.trash = {} /\ ingest[u] = "done"
      BY <1>0, <1>3, <2>2 DEF ApplyIngest, Resting
    <3> QED
      BY <1>0, <3>1 DEF FlacFile, RecRows, Rows
  <2> QED
    BY <2>1, <2>2
<1>4. CASE AdoptFlac(u)
  <2>1. /\ Flac(u) \in blobs' /\ UNCHANGED <<segment, ingest>> /\ ap'.trash = ap.trash
        /\ ingest[u] = "done"
    BY <1>0, <1>4 DEF AdoptFlac, Adopt, Passes, FlacFile
  <2> QED
    BY <1>0, <2>1 DEF FlacFile, RecRows, Rows
<1>5. CASE CommitFlac(u)
  <2>1. ap'.pc = "trash" /\ ingest'[u] \in {"cancelled", "applied"}
    BY <1>0, <1>5 DEF CommitFlac, Passes
  <2>2. u \in RecRows' => ingest'[u] = "applied"
    <3>1. segment[u] = NoSegment => segment'[u] = NoSegment
      BY <1>5 DEF CommitFlac
    <3> QED
      BY <1>0, <1>5, <3>1 DEF CommitFlac, RecRows, Rows
  <2> QED
    BY <2>1, <2>2 DEF FlacFile
<1> QED
  BY <1>1, <1>2, <1>3, <1>4, <1>5, IngestSteps DEF Ingest
-----------------------------------------------------------------------------
\* The boot sweep spares the copy of a pending merge but not the FLAC of a pending ingest, so the
\* results of both stay only without outages long enough for it.
SweepSparesFlacs == Wav = {} \/ ~LongOutages

\* The results of the worker's jobs are in its directory or at their keys.
Results ==
  /\ Keyed /\ OrphansOff
  /\ \A m \in Merges : MergeFile(m)
  /\ \A u \in Wav : FlacFile(u)

\* The results are there in every reachable state.
LEMMA AlwaysResults ==
  ASSUME SweepSparesFlacs
  PROVE  AudioSpec => [](Typed /\ Chained /\ Results)
<1>1. AudioInit => Chained /\ Results
  BY DEF AudioInit, Chained, Results, Keyed, OrphansOff, MergeFile, FlacFile, RecRows, Rows, Resting,
     LiveStates
<1>2. ASSUME Typed, Chained, Results, [AudioNext]_audioVars
      PROVE  Chained' /\ Results'
  <2>1. \A m \in Merges : MergeFile(m)'
    BY <1>2, MergeFileStep DEF Results
  <2>2. \A u \in Wav : FlacFile(u)'
    BY <1>2, FlacFileStep DEF Results, SweepSparesFlacs
  <2> QED
    BY <1>2, <2>1, <2>2, ChainStep, KeyedStep DEF Results
<1> QED
  BY <1>1, <1>2, AlwaysTyped, PTL DEF AudioSpec

\* A retry after a crash finds the key in place: wherever a crash, a lost answer, a sync-from-disk
\* or the sweep falls, no result the worker left well is refused as invalid (applyMerge and
\* applyIngest of mediaApply.ts).
THEOREM ResultsStay ==
  ASSUME SweepSparesFlacs
  PROVE  AudioSpec => []ResultsAdopted
<1>1. Results => ResultsAdopted
  BY DEF Results, MergeFile, FlacFile, ResultsAdopted
<1> QED
  BY <1>1, AlwaysResults, PTL
-----------------------------------------------------------------------------
\* A row after a step: as it was, gone, or written by an insert, a swap or a conversion.
RowMoved(i) ==
  \/ segment'[i] = segment[i] \/ segment'[i] = NoSegment
  \/ i \in Uploads /\ (UploadAdd(i) \/ UploadAddLost(i))
  \/ i \in Merges /\ CommitMerged(i) /\ SwapMerged(i)
  \/ i \in Wav /\ CommitFlac(i) /\ segment[i] # NoSegment
  \/ SyncInsert

\* Who writes the rows of a recording.
LEMMA RowSteps ==
  ASSUME Typed, [AudioNext]_audioVars, NEW i \in Ids
  PROVE  RowMoved(i)
<1>0. segment \in [Ids -> [key : Keys, rec : BOOLEAN] \cup {NoSegment}]
  BY DEF Typed
<1>1. ASSUME NEW u \in Uploads, UploadAdd(u) \/ UploadAddLost(u)
      PROVE  RowMoved(i)
  BY <1>0, <1>1 DEF UploadAdd, UploadAddLost, AddSegment, RowMoved
<1>2. ASSUME NEW m \in Merges, CommitMerged(m)
      PROVE  RowMoved(i)
  <2>1. segment' = segment \/ SwapMerged(m)
    BY <1>2 DEF CommitMerged
  <2>2. SwapMerged(m) => segment'[i] = segment[i] \/ segment'[i] = NoSegment \/ i = m
    BY <1>0 DEF SwapMerged
  <2> QED
    BY <1>2, <2>1, <2>2 DEF RowMoved
<1>3. ASSUME NEW u \in Wav, CommitFlac(u)
      PROVE  RowMoved(i)
  BY <1>0, <1>3 DEF CommitFlac, RowMoved
<1>4. CASE UNCHANGED segment
  BY <1>4 DEF RowMoved
<1>5. CASE SyncInsert
  BY <1>5 DEF RowMoved
<1>6. \/ UNCHANGED segment \/ SyncInsert
      \/ \E u \in Uploads : UploadAdd(u) \/ UploadAddLost(u)
      \/ \E m \in Merges : CommitMerged(m)
      \/ \E u \in Wav : CommitFlac(u)
  BY DEF AudioNext, Upload, Merge, Ingest, UploadStart, UploadPut, UploadNotAdded, UploadDelete,
         MergeReads, MergeEnds, ApplyMerge, AdoptMerged, ReflectRefused, IngestEnds, ApplyIngest,
         AdoptFlac, Finalize, Reconcile, Trash, SyncList, RunStart, RunList, RunEnd, ApiCrash,
         SweepNamed, SweepTrash, audioVars, content
<1> QED
  BY <1>1, <1>2, <1>3, <1>4, <1>5, <1>6

-----------------------------------------------------------------------------
\* No commit's answer was lost and no sync-from-disk ran.
Sure == lost = 0 /\ syncs = 0
Counted == lost \in Nat /\ syncs \in Nat

\* The counts only grow, with a lost answer and with a sync-from-disk.
LEMMA SureSteps ==
  ASSUME Counted, [AudioNext]_audioVars
  PROVE  /\ Counted'
         /\ Sure' => Sure /\ ~SyncList /\ \A u \in Uploads : ~UploadAddLost(u)
<1>1. \/ UNCHANGED <<lost, syncs>>
      \/ SyncList /\ UNCHANGED lost
      \/ UNCHANGED syncs /\ \E u \in Uploads : UploadAddLost(u)
  BY DEF AudioNext, Upload, Merge, Ingest, UploadStart, UploadPut, UploadAdd, UploadAddLost,
         UploadNotAdded, UploadDelete, MergeReads, MergeEnds, ApplyMerge, AdoptMerged,
         CommitMerged, ReflectRefused, IngestEnds, ApplyIngest, AdoptFlac, CommitFlac, Finalize,
         Reconcile, Trash, SyncList, SyncInsert, RunStart, RunList, RunEnd, ApiCrash, SweepNamed,
         SweepTrash, audioVars, counts
<1>2. SyncList => syncs' = syncs + 1
  BY DEF SyncList
<1>3. \A u \in Uploads : UploadAddLost(u) => lost' = lost + 1
  BY DEF UploadAddLost
<1> QED
  BY <1>1, <1>2, <1>3 DEF Counted, Sure

\* A row's blob is there, and nobody is about to delete it.
RowFile(i) ==
  segment[i] # NoSegment => segment[i].rec /\ segment[i].key \in blobs /\ ~Doomed(segment[i].key)

\* An upload under way has no row, and its key no blob before its put and one after it.
Uploading(u) ==
  /\ up[u] \in {"new", "planned"} => Orig(u) \notin blobs \cup orphans.keys \cup ap.trash
  /\ up[u] = "put" => Orig(u) \in blobs \ (orphans.keys \cup ap.trash)
  /\ up[u] # "end" => segment[u] = NoSegment

\* At its commit the apply pass has the file that the row will name.
PassFile ==
  ap.pc = "commit" => /\ ap.id \in Merges /\ inputs[ap.id] = RecRows => Orig(ap.id) \in blobs
                      /\ ap.id \in Wav => Flac(ap.id) \in blobs

\* The files of a recording between the steps of its handlers.
Files ==
  /\ listing = NotListing
  /\ \A i \in Ids : RowFile(i)
  /\ \A u \in Uploads : Uploading(u)
  /\ PassFile

\* A segment that a merge has read stays until the merge is applied or given up.
InputsStay == \A m \in Merges : job[m] \in {"running", "done"} => inputs[m] \subseteq RecRows

\* What a step of a state with sure answers may rely on.
Settled == Typed /\ Chained /\ Results /\ InputsStay /\ Files

\* The row of a key that is touched by a step, and not rewritten, keeps its file: the key was
\* another segment's, or the step only lists it.
LEMMA TouchedRow ==
  ASSUME Settled, [AudioNext]_audioVars, NEW i \in Ids, segment[i] # NoSegment, segment'[i] = segment[i],
         NEW k, k = segment[i].key, Touched(k)
  PROVE  k \in blobs' /\ ~Doomed(k)'
<1> USE RecordingAssumption, KeysApart
<1>1. /\ k[1] = i /\ i \in RecRows /\ k \in blobs /\ ap \in Passes
      /\ i \in Merges => job[i] = "applied"
      /\ i \in Wav /\ k = Flac(i) => ingest[i] = "applied"
  BY DEF Settled, Typed, Shape, Chained, Results, Keyed, FlacFile, Files, RowFile, RecRows, Rows
<1>2. ASSUME NEW u \in Uploads, k = Orig(u)
      PROVE  ~UploadPut(u) /\ ~UploadDelete(u)
  BY <1>1, <1>2 DEF Settled, Files, Uploading, UploadPut, UploadDelete
<1>3. ASSUME NEW m \in Merges, k = Orig(m)
      PROVE  ~CommitMerged(m) /\ ~AdoptMerged(m)
  BY <1>1, <1>3 DEF Settled, Chained, CommitMerged, AdoptMerged
<1>4. ASSUME NEW m \in Merges, SwapMerged(m), NEW j \in inputs[m], k = segment[j].key
      PROVE  FALSE
  <2>1. j \in Ids /\ segment[j] # NoSegment /\ j # m
    BY <1>4 DEF SwapMerged, RecRows, Rows
  <2>2. j = i
    BY <1>1, <1>4, <2>1 DEF Settled, Results, Keyed
  <2> QED
    BY <1>4, <2>1, <2>2 DEF SwapMerged
<1>5. ASSUME NEW u \in Wav, k = Flac(u)
      PROVE  ~AdoptFlac(u) /\ ~CommitFlac(u)
  BY <1>1, <1>5 DEF Settled, Results, FlacFile, AdoptFlac, CommitFlac
<1>6. ASSUME NEW u \in Wav, segment[u] # NoSegment, k = segment[u].key, CommitFlac(u)
      PROVE  FALSE
  <2>1. segment \in [Ids -> [key : Keys, rec : BOOLEAN] \cup {NoSegment}] /\ u \in Ids
    BY KeyTyped DEF Settled, Typed
  <2>2. u = i
    BY <1>1, <1>6, <2>1 DEF Settled, Results, Keyed
  <2>3. segment'[u] = [segment[u] EXCEPT !.key = Flac(u)]
    BY <1>6, <2>1 DEF CommitFlac
  <2>4. segment[u] \in [key : Keys, rec : BOOLEAN]
    BY <1>6, <2>1
  <2>5. segment'[u].key = Flac(u)
    BY <2>3, <2>4
  <2> QED
    BY <1>5, <1>6, <2>2, <2>5
<1>7. CASE ApiCrash
  <2>1. blobs' = blobs /\ ap' = Resting /\ orphans'.phase # "named"
    BY <1>7 DEF ApiCrash, content
  <2> QED
    BY <1>1, <2>1 DEF Doomed, Resting
<1> QED
  BY <1>2, <1>3, <1>4, <1>5, <1>6, <1>7 DEF Touched

\* Each step keeps the blob of each row.
LEMMA RowFileStep ==
  ASSUME Settled, SweepSparesFlacs, [AudioNext]_audioVars, \A u \in Uploads : ~UploadAddLost(u),
         NEW i \in Ids
  PROVE  RowFile(i)'
<1> USE RecordingAssumption, KeysApart
<1>0. /\ ap \in Passes
      /\ segment \in [Ids -> [key : Keys, rec : BOOLEAN] \cup {NoSegment}]
  BY DEF Settled, Typed, Shape
<1>1. CASE segment'[i] = NoSegment
  BY <1>1 DEF RowFile
<1>2. CASE segment'[i] = segment[i] /\ segment[i] # NoSegment
  <2>1. PICK k : k = segment[i].key
    OBVIOUS
  <2>2. k \in blobs /\ ~Doomed(k) /\ k \in NamedKeys /\ segment[i].rec
    BY <1>2, <2>1 DEF Settled, Files, RowFile, NamedKeys, Rows
  <2>3. k \in blobs' /\ ~Doomed(k)'
    <3>1. CASE KeyKept(k)
      BY <2>2, <3>1 DEF KeyKept
    <3>2. CASE Touched(k)
      BY <1>2, <2>1, <3>2, TouchedRow
    <3> QED
      BY <3>1, <3>2, KeySteps DEF Settled
  <2> QED
    BY <1>2, <2>1, <2>2, <2>3 DEF RowFile, Doomed
<1>3. ASSUME i \in Uploads, UploadAdd(i)
      PROVE  RowFile(i)'
  <2>1. /\ segment'[i] = [key |-> Orig(i), rec |-> TRUE] /\ UNCHANGED <<blobs, orphans, ap>>
        /\ up[i] = "put"
    BY <1>0, <1>3 DEF UploadAdd, AddSegment
  <2>2. Orig(i) \in blobs /\ ~Doomed(Orig(i))
    BY <1>3, <2>1 DEF Settled, Files, Uploading, Doomed
  <2> QED
    BY <2>1, <2>2 DEF RowFile, Doomed
<1>4. ASSUME i \in Merges, CommitMerged(i), SwapMerged(i)
      PROVE  RowFile(i)'
  <2>1. /\ segment'[i] = [key |-> Orig(i), rec |-> TRUE] /\ UNCHANGED <<blobs, orphans>>
        /\ ap'.trash = {segment[j].key : j \in inputs[i]}
    BY <1>0, <1>4 DEF CommitMerged, SwapMerged, Passes
  <2>2. ap.pc = "commit" /\ ap.id = i /\ inputs[i] = RecRows /\ segment[i] = NoSegment
    BY <1>4 DEF CommitMerged, SwapMerged
  <2>3. Orig(i) \in blobs /\ Orig(i) \notin orphans.keys
    BY <1>4, <2>2 DEF Settled, Files, PassFile, Chained, Results, MergeFile, LiveStates
  <2>4. \A j \in RecRows : segment[j].key # Orig(i)
    BY <2>2 DEF Settled, Results, Keyed, RecRows, Rows
  <2> QED
    BY <2>1, <2>2, <2>3, <2>4 DEF RowFile, Doomed
<1>5. ASSUME i \in Wav, CommitFlac(i), segment[i] # NoSegment
      PROVE  RowFile(i)'
  <2>1. segment[i] \in [key : Keys, rec : BOOLEAN] /\ segment[i].rec
    BY <1>0, <1>5 DEF Settled, Files, RowFile
  <2>2. segment'[i] = [segment[i] EXCEPT !.key = Flac(i)]
    BY <1>0, <1>5 DEF CommitFlac
  <2>3. segment'[i].key = Flac(i) /\ segment'[i].rec
    BY <2>1, <2>2
  <2>4. UNCHANGED <<blobs, orphans>> /\ Flac(i) \notin ap'.trash /\ ap.pc = "commit" /\ ap.id = i
    BY <1>0, <1>5 DEF CommitFlac, Passes
  <2>5. Flac(i) \in blobs /\ orphans.keys = {}
    BY <1>5, <2>4 DEF Settled, Files, PassFile, Results, OrphansOff, SweepSparesFlacs
  <2> QED
    BY <2>3, <2>4, <2>5 DEF RowFile, Doomed
<1>6. ~SyncInsert
  BY DEF Settled, Files, SyncInsert
<1>7. RowMoved(i)
  BY RowSteps DEF Settled
<1> QED
  BY <1>1, <1>2, <1>3, <1>4, <1>5, <1>6, <1>7 DEF RowMoved
-----------------------------------------------------------------------------
\* Each step keeps what is known of an upload under way.
LEMMA UploadingStep ==
  ASSUME Settled, [AudioNext]_audioVars, NEW u \in Uploads, ~UploadAddLost(u)
  PROVE  Uploading(u)'
<1> USE RecordingAssumption, KeysApart
<1>0. /\ ap \in Passes /\ u \in Ids /\ u \notin Merges /\ Uploading(u)
      /\ up \in [Uploads -> UploadStates]
      /\ segment \in [Ids -> [key : Keys, rec : BOOLEAN] \cup {NoSegment}]
  BY DEF Settled, Typed, Shape, Files, Ids
<1>1. CASE Upload(u)
  <2>1. CASE UploadStart(u)
    BY <1>0, <2>1 DEF UploadStart, Uploading, content
  <2>2. CASE UploadPut(u)
    BY <1>0, <2>2 DEF UploadPut, Uploading
  <2>3. CASE UploadAdd(u)
    BY <1>0, <2>3 DEF UploadAdd, Uploading
  <2>4. CASE UploadNotAdded(u)
    BY <1>0, <2>4 DEF UploadNotAdded, Uploading, content
  <2>5. CASE UploadDelete(u)
    BY <1>0, <2>5 DEF UploadDelete, Uploading
  <2> QED
    BY <1>1, <2>1, <2>2, <2>3, <2>4, <2>5 DEF Upload
<1>2. CASE ~Upload(u)
  <2>1. up'[u] = up[u] \/ (ApiCrash /\ (up'[u] = "end" \/ (up[u] = "new" /\ up'[u] = "new")))
    <3>1. ASSUME NEW x \in Uploads, x # u, Upload(x)
          PROVE  up'[u] = up[u]
      BY <1>0, <3>1 DEF Upload, UploadStart, UploadPut, UploadAdd, UploadAddLost, UploadNotAdded,
         UploadDelete
    <3>2. ApiCrash => up'[u] = "end" \/ (up[u] = "new" /\ up'[u] = "new")
      BY <1>0 DEF ApiCrash
    <3>3. up' = up \/ ApiCrash \/ \E x \in Uploads : Upload(x)
      BY DEF AudioNext, Merge, Ingest, MergeReads, MergeEnds, ApplyMerge, AdoptMerged, CommitMerged,
         ReflectRefused, IngestEnds, ApplyIngest, AdoptFlac, CommitFlac, Finalize, Reconcile,
         Trash, SyncList, SyncInsert, RunStart, RunList, RunEnd, SweepNamed, SweepTrash, audioVars
    <3> QED
      BY <1>2, <3>1, <3>2, <3>3
  <2>2. CASE up'[u] = "end"
    BY <2>2 DEF Uploading
  <2>3. CASE up'[u] # "end"
    <3>1. up'[u] = up[u] /\ segment[u] = NoSegment
      BY <1>0, <2>1, <2>3 DEF Uploading
    <3>2. segment'[u] = NoSegment
      BY <1>0, <1>2, <3>1, RowSteps DEF RowMoved, Upload, Settled, Files, SyncInsert
    <3>3. CASE KeyKept(Orig(u))
      BY <1>0, <3>1, <3>2, <3>3 DEF KeyKept, Doomed, Uploading
    <3>4. CASE Touched(Orig(u))
      <4>1. \A x \in Uploads : Orig(u) = Orig(x) => ~UploadPut(x) /\ ~UploadDelete(x)
        BY <1>2 DEF Upload
      <4>2. ASSUME NEW m \in Merges, SwapMerged(m), NEW j \in inputs[m], Orig(u) = segment[j].key
            PROVE  FALSE
        <5>1. j \in Ids /\ segment[j] # NoSegment
          BY <4>2 DEF SwapMerged, RecRows, Rows
        <5>2. j = u
          BY <4>2, <5>1 DEF Settled, Results, Keyed
        <5> QED
          BY <3>1, <5>1, <5>2
      <4>3. ASSUME NEW x \in Wav, segment[x] # NoSegment, Orig(u) = segment[x].key
            PROVE  FALSE
        <5>1. x = u
          BY <4>3, KeyTyped DEF Settled, Results, Keyed
        <5> QED
          BY <3>1, <4>3, <5>1
      <4>4. ASSUME ApiCrash, Orig(u) \in Swept
            PROVE  Uploading(u)'
        <5>1. up'[u] = "new"
          BY <1>0, <2>3, <4>4 DEF ApiCrash
        <5>2. Orig(u) \notin blobs
          BY <1>0, <3>1, <5>1 DEF Uploading
        <5> QED
          BY <4>4, <5>2 DEF Swept
      <4>5. \A m \in Merges : Orig(u) # Orig(m)
        BY <1>0
      <4> QED
        BY <3>4, <4>1, <4>2, <4>3, <4>4, <4>5 DEF Touched
    <3> QED
      BY <3>3, <3>4, KeySteps DEF Settled
  <2> QED
    BY <2>2, <2>3
<1> QED
  BY <1>1, <1>2

\* The recording's segments only grow, but for a swap; and new ones are uploads.
LEMMA RecRowsSteps ==
  ASSUME Typed, [AudioNext]_audioVars
  PROVE  \/ RecRows' = RecRows
         \/ \E u \in Uploads : u \notin RecRows /\ RecRows' = RecRows \cup {u}
         \/ \E m \in Merges : CommitMerged(m) /\ SwapMerged(m)
<1>1. ASSUME NEW u \in Uploads, AddSegment(u)
      PROVE  u \notin RecRows /\ RecRows' = RecRows \cup {u}
  BY <1>1 DEF AddSegment, RecRows, Rows, Typed, Ids, NoSegment
<1>2. ASSUME UNCHANGED segment
      PROVE  RecRows' = RecRows
  BY <1>2 DEF RecRows, Rows
<1>3. Quiet => RecRows' = RecRows
  BY DEF Quiet
<1>4. \/ UNCHANGED segment \/ SyncInsert
      \/ \E u \in Uploads : AddSegment(u)
      \/ \E m \in Merges : CommitMerged(m) /\ SwapMerged(m)
      \/ \E u \in Wav : CommitFlac(u)
  BY DEF AudioNext, Upload, Merge, Ingest, UploadStart, UploadPut, UploadAdd, UploadAddLost,
         UploadNotAdded, UploadDelete, MergeReads, MergeEnds, ApplyMerge, AdoptMerged,
         CommitMerged, ReflectRefused, IngestEnds, ApplyIngest, AdoptFlac, Finalize, Reconcile,
         Trash, SyncList, RunStart, RunList, RunEnd, ApiCrash, SweepNamed, SweepTrash, audioVars, content
<1> QED
  BY <1>1, <1>2, <1>3, <1>4, QuietRows

\* What merges have read changes with their reads only.
LEMMA InputsSteps ==
  ASSUME Typed, [AudioNext]_audioVars, NEW n \in Merges
  PROVE  inputs'[n] = inputs[n] \/ MergeReads(n)
<1>1. UNCHANGED inputs \/ \E m \in Merges : MergeReads(m)
  BY DEF AudioNext, Upload, Merge, Ingest, UploadStart, UploadPut, UploadAdd, UploadAddLost,
         UploadNotAdded, UploadDelete, MergeEnds, ApplyMerge, AdoptMerged, CommitMerged,
         ReflectRefused, IngestEnds, ApplyIngest, AdoptFlac, CommitFlac, Finalize, Reconcile,
         Trash, SyncList, SyncInsert, RunStart, RunList, RunEnd, ApiCrash, SweepNamed, SweepTrash,
         audioVars, content
<1>2. ASSUME NEW m \in Merges, m # n, MergeReads(m)
      PROVE  inputs'[n] = inputs[n]
  BY <1>2 DEF MergeReads, Typed
<1> QED
  BY <1>1, <1>2

\* A merge is at work since its read.
LEMMA AtWork ==
  ASSUME Typed, Chained, [AudioNext]_audioVars, NEW n \in Merges,
         job'[n] \in {"running", "done"}, ~MergeReads(n)
  PROVE  job[n] \in {"running", "done"}
<1>1. CASE JobStill(n)
  BY <1>1 DEF JobStill
<1>2. CASE MergeEnds(n) \/ AdoptMerged(n) \/ CommitMerged(n)
  BY <1>2 DEF MergeEnds, AdoptMerged, CommitMerged, Chained
<1>3. ~ReflectRefused(n)
  BY DEF ReflectRefused, Typed, JobsTyped
<1> QED
  BY <1>1, <1>2, <1>3, JobSteps DEF OwnStep

\* Each step keeps the segments that a merge at work has read.
LEMMA InputsStayStep ==
  ASSUME Typed, Chained, InputsStay, [AudioNext]_audioVars
  PROVE  InputsStay'
<1> SUFFICES ASSUME NEW n \in Merges, job'[n] \in {"running", "done"}
             PROVE  inputs'[n] \subseteq RecRows'
  BY DEF InputsStay
<1>0. JobsTyped(job) /\ job \in [Merges -> MergeStates] /\ inputs \in [Merges -> SUBSET Ids]
  BY DEF Typed, JobsTyped
<1>1. CASE MergeReads(n)
  <2>1. job'[n] # "failed"
    OBVIOUS
  <2>2. inputs'[n] = RecRows /\ segment' = segment
    BY <1>0, <1>1, <2>1 DEF MergeReads
  <2> QED
    BY <2>2 DEF RecRows, Rows
<1>2. CASE ~MergeReads(n)
  <2>1. job[n] \in {"running", "done"}
    BY <1>2, AtWork
  <2>2. inputs'[n] = inputs[n] /\ inputs[n] \subseteq RecRows
    BY <1>2, <2>1, InputsSteps DEF InputsStay
  <2>3. ASSUME NEW m \in Merges, CommitMerged(m), SwapMerged(m)
        PROVE  FALSE
    <3>1. job[m] = "done" /\ job'[m] = "applied"
      BY <1>0, <2>3 DEF CommitMerged, SwapMerged, Chained
    <3> QED
      BY <1>0, <2>1, <3>1 DEF JobsTyped, LiveStates
  <2> QED
    BY <2>2, <2>3, RecRowsSteps
<1> QED
  BY <1>1, <1>2
\* Each step keeps the file of the apply pass's commit: nobody deletes it, and segments added
\* after the copy change the commit to a cancel.
LEMMA PassFileStep ==
  ASSUME Settled, SweepSparesFlacs, [AudioNext]_audioVars
  PROVE  PassFile'
<1> USE RecordingAssumption, KeysApart
<1>0. /\ ap \in Passes /\ Resting.pc = "idle" /\ NoId \notin Ids
      /\ \A m \in Merges : m \notin Wav
  BY NoIdAssumption DEF Settled, Typed, Shape, Ids, Resting
<1>1. CASE ap'.pc # "commit"
  BY <1>1 DEF PassFile
<1>2. ASSUME NEW m \in Merges, ApplyMerge(m)
      PROVE  PassFile'
  <2>1. UNCHANGED <<segment, inputs>> /\ ap'.id = m /\ (ap'.pc = "commit" => inputs[m] # RecRows)
    BY <1>2 DEF ApplyMerge, Resting, content
  <2> QED
    BY <1>0, <2>1 DEF PassFile, RecRows, Rows
<1>3. ASSUME NEW m \in Merges, AdoptMerged(m)
      PROVE  PassFile'
  <2>1. ap' = Resting \/ (ap'.id = m /\ Orig(m) \in blobs')
    BY <1>0, <1>3 DEF AdoptMerged, Adopt, Passes
  <2> QED
    BY <1>0, <2>1 DEF PassFile
<1>4. ASSUME NEW u \in Wav, ApplyIngest(u)
      PROVE  PassFile'
  <2>1. CASE ap' = Resting
    BY <1>0, <2>1 DEF PassFile
  <2>2. CASE ap' # Resting
    <3>1. /\ segment[u] # NoSegment /\ blobs' = blobs /\ ap'.id = u
          /\ ap'.pc = "commit" => segment[u].key = Flac(u)
      BY <1>4, <2>2 DEF ApplyIngest, Resting
    <3>2. segment[u].key \in blobs
      BY <3>1, KeyTyped DEF Settled, Files, RowFile
    <3> QED
      BY <1>0, <3>1, <3>2 DEF PassFile
  <2> QED
    BY <2>1, <2>2
<1>5. ASSUME NEW u \in Wav, AdoptFlac(u)
      PROVE  PassFile'
  <2>1. ap' = Resting \/ (ap'.id = u /\ Flac(u) \in blobs')
    BY <1>0, <1>5 DEF AdoptFlac, Adopt, Passes
  <2> QED
    BY <1>0, <2>1 DEF PassFile
<1>6. CASE ap' = ap /\ ap.pc = "commit"
  <2>1. \A m \in Merges : ~CommitMerged(m) /\ ~AdoptMerged(m)
    BY <1>0, <1>6, CommitOutcome DEF NoSwap, SwapMerged, AdoptMerged, Passes
  <2>2. \A u \in Wav : ~CommitFlac(u) /\ ~AdoptFlac(u)
    BY <1>0, <1>6 DEF CommitFlac, AdoptFlac, Passes
  <2>3. ~ApiCrash
    BY <1>0, <1>6 DEF ApiCrash
  <2>4. ASSUME ap.id \in Merges, inputs'[ap.id] = RecRows'
        PROVE  Orig(ap.id) \in blobs'
    <3>1. PICK m \in Merges : m = ap.id
      BY <2>4
    <3>2. job[m] = "done"
      BY <1>6, <3>1 DEF Settled, Chained
    <3>3. inputs'[m] = inputs[m] /\ inputs[m] \subseteq RecRows
      BY <3>2, InputsSteps DEF Settled, InputsStay, MergeReads
    <3>4. inputs[m] = RecRows
      BY <2>1, <2>4, <3>1, <3>3, RecRowsSteps DEF Settled
    <3>5. Orig(m) \in blobs /\ ~Doomed(Orig(m))
      BY <1>6, <3>1, <3>2, <3>4 DEF Settled, Files, PassFile, Results, MergeFile, LiveStates, Doomed
    <3>6. ~Touched(Orig(m))
      BY <2>1, <2>2, <2>3 DEF Touched
    <3>7. KeyKept(Orig(m))
      BY <3>6, KeySteps DEF Settled
    <3> QED
      BY <3>1, <3>5, <3>7 DEF KeyKept
  <2>5. ASSUME ap.id \in Wav
        PROVE  Flac(ap.id) \in blobs'
    <3>1. PICK u \in Wav : u = ap.id
      BY <2>5
    <3>2. Flac(u) \in blobs /\ ~Doomed(Flac(u))
      BY <1>6, <3>1 DEF Settled, Files, PassFile, Results, FlacFile, OrphansOff, SweepSparesFlacs,
         Doomed
    <3>3. ~Touched(Flac(u))
      BY <2>1, <2>2, <2>3 DEF Touched
    <3>4. KeyKept(Flac(u))
      BY <3>3, KeySteps DEF Settled
    <3> QED
      BY <3>1, <3>2, <3>4 DEF KeyKept
  <2> QED
    BY <1>6, <2>4, <2>5 DEF PassFile
<1>7. \/ ap' = ap \/ ap'.pc # "commit"
      \/ \E m \in Merges : ApplyMerge(m) \/ AdoptMerged(m)
      \/ \E u \in Wav : ApplyIngest(u) \/ AdoptFlac(u)
  <2>1. \A m \in Merges : CommitMerged(m) => ap'.pc # "commit"
    BY <1>0, CommitOutcome DEF NoSwap, SwapMerged, Passes
  <2>2. \A u \in Wav : CommitFlac(u) => ap'.pc # "commit"
    BY <1>0 DEF CommitFlac, Passes
  <2>3. Trash => ap'.pc # "commit"
    BY <1>0 DEF Trash, Passes
  <2>4. ApiCrash => ap'.pc # "commit"
    BY <1>0 DEF ApiCrash
  <2> QED
    BY <2>1, <2>2, <2>3, <2>4 DEF AudioNext, Upload, Merge, Ingest, UploadStart, UploadPut, UploadAdd,
       UploadAddLost, UploadNotAdded, UploadDelete, MergeReads, MergeEnds, ReflectRefused,
       IngestEnds, Finalize, Reconcile, SyncList, SyncInsert, RunStart, RunList, RunEnd,
       SweepNamed, SweepTrash, audioVars
<1> QED
  BY <1>1, <1>2, <1>3, <1>4, <1>5, <1>6, <1>7

\* With sure answers every step keeps the files.
LEMMA FilesStep ==
  ASSUME Settled, SweepSparesFlacs, [AudioNext]_audioVars, ~SyncList, \A u \in Uploads : ~UploadAddLost(u)
  PROVE  Files'
<1>1. \A i \in Ids : RowFile(i)'
  BY RowFileStep
<1>2. \A u \in Uploads : Uploading(u)'
  BY UploadingStep
<1>3. listing' = NotListing
  BY DEF Settled, Files, AudioNext, Upload, Merge, Ingest, UploadStart, UploadPut, UploadAdd,
     UploadAddLost, UploadNotAdded, UploadDelete, MergeReads, MergeEnds, ApplyMerge, AdoptMerged,
     CommitMerged, ReflectRefused, IngestEnds, ApplyIngest, AdoptFlac, CommitFlac, Finalize,
     Reconcile, Trash, SyncInsert, RunStart, RunList, RunEnd, ApiCrash, SweepNamed, SweepTrash, audioVars
<1> QED
  BY <1>1, <1>2, <1>3, PassFileStep DEF Files
-----------------------------------------------------------------------------
\* The files while every answer was sure.
FilesWhenSure == Sure => Files

\* What is known of a recording's files in every reachable state.
FilesInv == (Typed /\ Chained /\ Results) /\ Counted /\ InputsStay /\ FilesWhenSure

\* It is inductive.
LEMMA AlwaysFiles ==
  ASSUME SweepSparesFlacs
  PROVE  AudioSpec => []FilesInv
<1>1. AudioInit => Counted /\ InputsStay /\ FilesWhenSure
  <2> SUFFICES ASSUME AudioInit
               PROVE  Counted /\ InputsStay /\ FilesWhenSure
    OBVIOUS
  <2>1. PassFile
    BY DEF AudioInit, PassFile, Resting
  <2>2. \A i \in Ids : RowFile(i)
    BY DEF AudioInit, RowFile
  <2>3. \A u \in Uploads : Uploading(u)
    BY DEF AudioInit, Uploading, Ids, Resting
  <2> QED
    BY <2>1, <2>2, <2>3 DEF AudioInit, Counted, InputsStay, FilesWhenSure, Files
<1>2. ASSUME Typed, Chained, Results, Counted, InputsStay, FilesWhenSure, [AudioNext]_audioVars
      PROVE  Counted' /\ InputsStay' /\ FilesWhenSure'
  <2>1. Counted' /\ InputsStay'
    BY <1>2, SureSteps, InputsStayStep
  <2>2. ASSUME Sure'
        PROVE  Files'
    <3>1. Sure /\ ~SyncList /\ \A u \in Uploads : ~UploadAddLost(u)
      BY <1>2, <2>2, SureSteps
    <3>2. Settled
      BY <1>2, <3>1 DEF Settled, FilesWhenSure
    <3> QED
      BY <1>2, <3>1, <3>2, FilesStep
  <2> QED
    BY <2>1, <2>2 DEF FilesWhenSure
<1> QED
  BY <1>1, <1>2, AlwaysResults, PTL DEF AudioSpec, FilesInv

\* Each window's segment holds its audio, and a merge at work holds its inputs' audio.
Holding ==
  /\ \A w \in Windows : seam[w] # NoId => w \in Holds(seam[w])
  /\ \A m \in Merges : job[m] \in {"running", "done"} =>
       \A i \in inputs[m] : Holds(i) \subseteq holds[m]

\* A window that was answered for, or is about to be, has a segment.
Answered ==
  /\ \A w \in acked : seam[w] # NoId
  /\ \A u \in Uploads : up[u] = "drop" => seam[WindowOf[u]] # NoId

\* A window that has a segment keeps one: its own, or the merge that took it over.
LEMMA SeamSteps ==
  ASSUME Typed, [AudioNext]_audioVars, NEW w \in Windows
  PROVE  \/ seam'[w] = seam[w]
         \/ \E u \in Uploads : AddSegment(u) /\ w = WindowOf[u] /\ seam'[w] = u /\ UNCHANGED holds
         \/ \E m \in Merges : /\ CommitMerged(m) /\ SwapMerged(m)
                              /\ seam[w] \in inputs[m] /\ seam'[w] = m
<1>0. seam \in [Windows -> Ids \cup {NoId}]
  BY DEF Typed, Shape
<1>1. ASSUME NEW u \in Uploads, AddSegment(u), UNCHANGED holds
      PROVE  seam'[w] = seam[w] \/ (w = WindowOf[u] /\ seam'[w] = u)
  BY <1>0, <1>1 DEF AddSegment
<1>2. ASSUME NEW m \in Merges, SwapMerged(m)
      PROVE  seam'[w] = seam[w] \/ (seam[w] \in inputs[m] /\ seam'[w] = m)
  BY <1>0, <1>2 DEF SwapMerged
<1>3. \/ UNCHANGED seam
      \/ \E u \in Uploads : AddSegment(u) /\ UNCHANGED holds
      \/ \E m \in Merges : CommitMerged(m) /\ SwapMerged(m)
  BY DEF AudioNext, Upload, Merge, Ingest, UploadStart, UploadPut, UploadAdd, UploadAddLost,
         UploadNotAdded, UploadDelete, MergeReads, MergeEnds, ApplyMerge, AdoptMerged,
         CommitMerged, ReflectRefused, IngestEnds, ApplyIngest, AdoptFlac, CommitFlac, Finalize,
         Reconcile, Trash, SyncList, SyncInsert, RunStart, RunList, RunEnd, ApiCrash, SweepNamed,
         SweepTrash, audioVars, content
<1> QED
  BY <1>1, <1>2, <1>3

\* Each step keeps the answered windows' segments.
LEMMA AnsweredStep ==
  ASSUME Typed, Answered, [AudioNext]_audioVars
  PROVE  Answered'
<1> USE RecordingAssumption
<1>0. NoId \notin Ids /\ \A u \in Uploads : u \in Ids /\ WindowOf[u] \in Windows
  BY NoIdAssumption DEF Ids
<1>1. \A w \in Windows : seam[w] # NoId => seam'[w] # NoId
  BY <1>0, SeamSteps DEF Ids
<1>2. acked \subseteq Windows /\ up \in [Uploads -> UploadStates]
      /\ seam \in [Windows -> Ids \cup {NoId}]
  BY DEF Typed, Shape
<1>3. ASSUME UNCHANGED <<acked, up>>
      PROVE  Answered'
  BY <1>0, <1>1, <1>2, <1>3 DEF Answered
<1>4. ASSUME NEW u \in Uploads, Upload(u)
      PROVE  Answered'
  <2>1. /\ acked' \subseteq acked \cup {WindowOf[u]}
        /\ WindowOf[u] \in acked' \ acked => seam'[WindowOf[u]] # NoId
    <3>1. AddSegment(u) => seam'[WindowOf[u]] # NoId
      BY <1>0, <1>2 DEF AddSegment
    <3>2. CASE UploadStart(u)
      BY <1>2, <3>2 DEF UploadStart, content
    <3>3. CASE UploadAdd(u) \/ UploadAddLost(u)
      BY <3>1, <3>3 DEF UploadAdd, UploadAddLost
    <3>4. CASE UploadDelete(u)
      BY <1>0, <1>1, <3>4 DEF UploadDelete, Answered
    <3>5. CASE UploadPut(u) \/ UploadNotAdded(u)
      BY <3>5 DEF UploadPut, UploadNotAdded
    <3> QED
      BY <1>4, <3>2, <3>3, <3>4, <3>5 DEF Upload
  <2>2. ASSUME NEW x \in Uploads, up'[x] = "drop"
        PROVE  seam'[WindowOf[x]] # NoId
    <3>1. CASE up[x] = "drop"
      BY <1>0, <1>1, <3>1 DEF Answered
    <3>2. CASE up[x] # "drop"
      <4>1. x = u /\ UploadNotAdded(u)
        BY <1>2, <1>4, <2>2, <3>2 DEF Upload, UploadStart, UploadPut, UploadAdd, UploadAddLost,
           UploadNotAdded, UploadDelete
      <4>2. seam[WindowOf[u]] # NoId
        BY <1>2, <2>2, <3>2, <4>1 DEF UploadNotAdded
      <4> QED
        BY <1>0, <1>1, <4>1, <4>2
    <3> QED
      BY <3>1, <3>2
  <2> QED
    BY <1>0, <1>1, <1>2, <2>1, <2>2 DEF Answered
<1>5. CASE ApiCrash
  <2>1. \A x \in Uploads : up'[x] # "drop"
    BY <1>2, <1>5 DEF ApiCrash
  <2> QED
    BY <1>1, <1>2, <1>5, <2>1 DEF ApiCrash, Answered
<1> QED
  BY <1>3, <1>4, <1>5 DEF AudioNext, Merge, Ingest, MergeReads, MergeEnds, ApplyMerge, AdoptMerged,
     CommitMerged, ReflectRefused, IngestEnds, ApplyIngest, AdoptFlac, CommitFlac, Finalize,
     Reconcile, Trash, SyncList, SyncInsert, RunStart, RunList, RunEnd, SweepNamed, SweepTrash,
     audioVars, content

\* Each step keeps what the segments and the merges at work hold.
LEMMA HoldingStep ==
  ASSUME Typed, Chained, Holding, [AudioNext]_audioVars
  PROVE  Holding'
<1> USE RecordingAssumption, NoIdAssumption
<1>0. /\ JobsTyped(job) /\ job \in [Merges -> MergeStates]
      /\ inputs \in [Merges -> SUBSET Ids] /\ holds \in [Merges -> SUBSET Windows]
      /\ NoId \notin Ids /\ RecRows \subseteq Ids
  BY DEF Typed, JobsTyped, Ids, RecRows, Rows
<1>1. ASSUME NEW m \in Merges, MergeReads(m)
      PROVE  Holding'
  <2>1. job[m] = "queued" /\ UNCHANGED <<segment, seam>>
    BY <1>1 DEF MergeReads
  <2>2. \A i \in RecRows : i # m /\ Holds(i)' = Holds(i)
    <3>1. \A i \in RecRows : i # m
      BY <2>1 DEF Chained
    <3>2. \A i \in Ids : i # m => Holds(i)' = Holds(i)
      BY <1>0, <1>1 DEF MergeReads, Holds, Ids
    <3> QED
      BY <1>0, <3>1, <3>2
  <2>3. \A w \in Windows : seam'[w] # NoId => w \in Holds(seam[w])'
    BY <2>1, <2>2 DEF Holding, Typed
  <2>4. ASSUME NEW n \in Merges, job'[n] \in {"running", "done"}
        PROVE  \A i \in inputs'[n] : Holds(i)' \subseteq holds'[n]
    <3>1. n = m
      BY <1>0, <1>1, <2>1, <2>4 DEF MergeReads, JobsTyped, LiveStates
    <3>2. inputs'[m] = RecRows /\ holds'[m] = UNION {Holds(i) : i \in RecRows}
      BY <1>0, <1>1, <2>4, <3>1 DEF MergeReads
    <3> QED
      BY <2>2, <3>1, <3>2
  <2> QED
    BY <2>1, <2>3, <2>4 DEF Holding
<1>2. CASE \A m \in Merges : ~MergeReads(m)
  <2>1. UNCHANGED holds
    BY <1>2 DEF AudioNext, Upload, Merge, Ingest, UploadStart, UploadPut, UploadAdd, UploadAddLost,
       UploadNotAdded, UploadDelete, MergeEnds, ApplyMerge, AdoptMerged, CommitMerged,
       ReflectRefused, IngestEnds, ApplyIngest, AdoptFlac, CommitFlac, Finalize, Reconcile,
       Trash, SyncList, SyncInsert, RunStart, RunList, RunEnd, ApiCrash, SweepNamed, SweepTrash,
       audioVars, content
  <2>2. \A i : Holds(i)' = Holds(i)
    BY <2>1 DEF Holds
  <2>3. ASSUME NEW n \in Merges, job'[n] \in {"running", "done"}
        PROVE  \A i \in inputs'[n] : Holds(i)' \subseteq holds'[n]
    <3>1. job[n] \in {"running", "done"} /\ inputs'[n] = inputs[n]
      BY <1>2, <2>3, AtWork, InputsSteps
    <3> QED
      BY <2>1, <2>2, <3>1 DEF Holding
  <2>4. ASSUME NEW w \in Windows, seam'[w] # NoId
        PROVE  w \in Holds(seam'[w])
    <3>1. CASE seam'[w] = seam[w]
      BY <2>4, <3>1 DEF Holding
    <3>2. ASSUME NEW u \in Uploads, w = WindowOf[u], seam'[w] = u
          PROVE  w \in Holds(seam'[w])
      BY <3>2 DEF Holds
    <3>3. ASSUME NEW m \in Merges, CommitMerged(m), seam[w] \in inputs[m], seam'[w] = m
          PROVE  w \in Holds(seam'[w])
      <4>1. job[m] = "done"
        BY <3>3 DEF CommitMerged, Chained
      <4>2. seam[w] # NoId
        BY <1>0, <3>3
      <4>3. w \in Holds(seam[w]) /\ Holds(seam[w]) \subseteq holds[m]
        BY <3>3, <4>1, <4>2 DEF Holding
      <4>4. m \notin Uploads
        OBVIOUS
      <4> QED
        BY <3>3, <4>3, <4>4 DEF Holds
    <3> QED
      BY <3>1, <3>2, <3>3, SeamSteps
  <2>5. \A w \in Windows : seam'[w] # NoId => w \in Holds(seam[w])'
    BY <2>1, <2>4 DEF Holds
  <2> QED
    BY <2>3, <2>5 DEF Holding
<1> QED
  BY <1>1, <1>2

\* "The blob lands before the row, so a listed row always has its bytes": unless a commit's answer
\* was lost or sync-from-disk ran, whatever crashes, and whatever uploads, merges, conversions and
\* sweeps interleave (storeLiveSegment, mediaApply.ts and the boot sweep).
THEOREM RowsKeepBlobs ==
  ASSUME SweepSparesFlacs
  PROVE  AudioSpec => [](lost = 0 /\ syncs = 0 => RowHasBlob)
<1>1. FilesInv => (lost = 0 /\ syncs = 0 => RowHasBlob)
  BY DEF FilesInv, FilesWhenSure, Sure, Files, RowFile, RowHasBlob, NamedKeys, Rows
<1> QED
  BY <1>1, AlwaysFiles, PTL

\* Audio the server has answered for stays, under the same conditions: its window has a listed
\* segment whose file is there and holds the window's audio, through retries, merges, conversions,
\* crashes and sweeps.
THEOREM AnsweredAudioStays ==
  ASSUME SweepSparesFlacs
  PROVE  AudioSpec => [](lost = 0 /\ syncs = 0 => AckedKept)
<1>1. AudioInit => Holding /\ Answered
  BY DEF AudioInit, Holding, Answered
<1>2. Typed /\ Chained /\ Holding /\ Answered /\ [AudioNext]_audioVars => (Holding /\ Answered)'
  BY HoldingStep, AnsweredStep
<1>3. FilesInv /\ Holding /\ Answered => (lost = 0 /\ syncs = 0 => AckedKept)
  <2> SUFFICES ASSUME FilesInv, Holding, Answered, lost = 0 /\ syncs = 0, NEW w \in acked
               PROVE  seam[w] # NoId /\ segment[seam[w]].key \in blobs /\ w \in Holds(seam[w])
    BY DEF AckedKept
  <2>1. Files /\ Typed
    BY DEF FilesInv, FilesWhenSure, Sure
  <2>2. w \in Windows /\ seam[w] # NoId
    BY <2>1 DEF Answered, Typed
  <2>3. seam[w] \in Rows
    BY <2>1, <2>2 DEF Typed, RecRows
  <2>4. segment[seam[w]].key \in blobs
    BY <2>1, <2>3 DEF Files, RowFile, Rows
  <2> QED
    BY <2>2, <2>4 DEF Holding
<1>4. FilesInv => Typed /\ Chained
  BY DEF FilesInv
<1> QED
  BY <1>1, <1>2, <1>3, <1>4, AlwaysFiles, PTL DEF AudioSpec

\* A run's listing names rows that are still there: a swap waits for the run.
ReadNamed == Sure => reading \subseteq NamedKeys

\* "The generation run reads every blob it listed": while no WAV is converted, no commit's answer is
\* lost and no sync-from-disk runs, no blob a run has listed goes before its end (the run lease
\* and the merge swap's two looks at it).
THEOREM RunReads ==
  ASSUME Wav = {}
  PROVE  AudioSpec => [](lost = 0 /\ syncs = 0 => RunReadsAll)
<1>1. SweepSparesFlacs
  BY DEF SweepSparesFlacs
<1>2. AudioInit => ReadNamed
  BY DEF AudioInit, ReadNamed
<1>3. ASSUME FilesInv, ReadNamed, [AudioNext]_audioVars
      PROVE  ReadNamed'
  <2> SUFFICES ASSUME Sure'
               PROVE  reading' \subseteq NamedKeys'
    BY DEF ReadNamed
  <2>1. /\ Sure /\ ~SyncInsert /\ Typed
        /\ segment \in [Ids -> [key : Keys, rec : BOOLEAN] \cup {NoSegment}]
    BY <1>3, SureSteps DEF FilesInv, FilesWhenSure, Files, SyncInsert, Typed
  <2>2. reading \subseteq NamedKeys
    BY <1>3, <2>1 DEF ReadNamed
  <2>3. CASE reading' = {}
    BY <2>3
  <2>4. CASE RunList
    BY <2>4 DEF RunList, NamedKeys, Rows, content
  <2>5. ASSUME NEW m \in Merges, CommitMerged(m), SwapMerged(m)
        PROVE  reading' = {}
    BY <2>1, <2>5 DEF CommitMerged, SwapMerged, Typed
  <2>6. ASSUME reading' = reading, NEW u \in Uploads, AddSegment(u)
        PROVE  reading' \subseteq NamedKeys'
    <3>1. \A i \in Rows : segment'[i] = segment[i]
      BY <2>1, <2>6 DEF AddSegment, Rows
    <3> QED
      BY <2>2, <2>6, <3>1 DEF NamedKeys, Rows
  <2>7. CASE UNCHANGED <<segment, reading>>
    BY <2>2, <2>7 DEF NamedKeys, Rows
  <2>8. \/ reading' = {} \/ RunList \/ UNCHANGED <<segment, reading>>
        \/ reading' = reading /\ \E u \in Uploads : AddSegment(u)
        \/ \E m \in Merges : CommitMerged(m) /\ SwapMerged(m)
    BY <1>3, <2>1 DEF AudioNext, Upload, Merge, Ingest, UploadStart, UploadPut, UploadAdd,
       UploadAddLost, UploadNotAdded, UploadDelete, MergeReads, MergeEnds, ApplyMerge, AdoptMerged,
       CommitMerged, ReflectRefused, Finalize, Reconcile, Trash, SyncList, RunStart, RunEnd,
       ApiCrash, SweepNamed, SweepTrash, audioVars, content
  <2> QED
    BY <2>3, <2>4, <2>5, <2>6, <2>7, <2>8
<1>4. FilesInv /\ ReadNamed => (lost = 0 /\ syncs = 0 => RunReadsAll)
  BY DEF FilesInv, FilesWhenSure, Sure, ReadNamed, Files, RowFile, RunReadsAll, NamedKeys, Rows
<1> QED
  BY <1>1, <1>2, <1>3, <1>4, AlwaysFiles, PTL DEF AudioSpec
=============================================================================
