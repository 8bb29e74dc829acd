-------------------------- MODULE BrowserTabProofs --------------------------
(***************************************************************************)
(* The two sides of a browser tab that its run checks together, for any    *)
(* number of commits, sessions, uploads, parts and mishaps: its feed of    *)
(* events, and the batch import.                                           *)
(*                                                                         *)
(* Feed.  What the tab shows is never ahead of the server, and when it is  *)
(* behind something is under way that will wake it.  StaleHasWake needs    *)
(* three more facts: the next frame due is at most the one after the last  *)
(* commit, so that a commit always leaves a frame to come; a tab that sees *)
(* its socket open is attached; and the answer in flight is no older than  *)
(* what is shown.                                                          *)
(*                                                                         *)
(* Import.  Two invariants over the types.  TakeInv, for TakeWhole: a new  *)
(* upload is named by nobody else until its staging file is open, so that  *)
(* nothing is truncated under a completion; what a completion hashed stays *)
(* whole; and an upload's blob has one completion that owns it, from the   *)
(* rename to the answer.  OnceInv, for ImportedOnce: as long as the tab    *)
(* heard of every completion and deletion it waits for the one in progress,*)
(* so that a deletion never overtakes a completion and the one take is     *)
(* either that completion's or a finished import's, whose tab has forgotten*)
(* the group and finds the session taken.                                  *)
(***************************************************************************)
EXTENDS LiveFeed, BatchImport, FiniteSetTheorems, TLAPS

\* The inductive invariant.
FeedInv ==
  /\ TypeOK /\ StaleHasWake
  /\ next[Tab] <= rev + 1
  /\ conn = "open" => Tab \in open
  /\ fetch.phase = "answered" => data <= fetch.snap

\* The tab's socket is the only one, and the bounds are numbers.
LEMMA OneSocket == Sockets = {Tab} /\ Tab \in Sockets /\ MaxRev \in Nat
BY FeedAssumption DEF FeedAssumption

\* The invariant holds when the page mounts.
LEMMA FeedInvInit == Init => FeedInv
<1> SUFFICES ASSUME Init PROVE FeedInv
  OBVIOUS
<1>1. TypeOK
  <2>1. joined \in BOOLEAN /\ failed \in BOOLEAN /\ window \in BOOLEAN /\ trailing \in BOOLEAN /\ ~trailing
    BY DEF Init
  <2>2. data \in Nat \cup {NoData} /\ data <= rev /\ fetch.snap <= rev /\ rev \in 0 .. MaxRev
    BY OneSocket DEF Init, StreamInit, Sent, NoData
  <2> QED BY <2>1, <2>2 DEF Init, StreamInit, TypeOK
<1> QED BY <1>1, OneSocket DEF Init, StreamInit, FeedInv, StaleHasWake, Waking, Sent

\* What a fresh request leaves.
LEMMA RefetchIs ==
  Refetch => /\ fetch' = Sent /\ fetch' \in {Idle, Sent} \cup [phase : {"answered"}, snap : Nat]
             /\ fetch'.phase # "answered" /\ fetch'.snap = -1
             /\ joined' \in BOOLEAN /\ failed' \in BOOLEAN
<1>1. Refetch => joined' \in BOOLEAN /\ failed' \in BOOLEAN
  BY DEF Refetch
<1>2. Refetch => fetch' = Sent /\ fetch'.phase # "answered" /\ fetch'.snap = -1
  BY DEF Refetch, Sent, NoData
<1> QED BY <1>1, <1>2

\* Every step of the tab, its socket and its requests keeps the invariant.
LEMMA FeedInvKept == FeedInv /\ [Next]_vars => FeedInv'
<1> SUFFICES ASSUME FeedInv, [Next]_vars PROVE FeedInv'
  OBVIOUS
<1> USE OneSocket DEF FeedInv
<1>1. CASE ServerCommits
  <2>1. TypeOK'
    <3>1. rev' \in 0 .. MaxRev /\ data' <= rev' /\ fetch'.snap <= rev'
      <4>1. rev \in Nat /\ data \in Int /\ fetch.snap \in Int
        BY DEF TypeOK, Idle, Sent, NoData
      <4> QED BY <1>1, <4>1 DEF ServerCommits, Commit, client, TypeOK
    <3>2. UNCHANGED <<open, broken, next, missed, client>>
      BY <1>1 DEF ServerCommits, Commit
    <3> QED BY <3>1, <3>2 DEF client, TypeOK
  <2>2. StaleHasWake'
    BY <1>1 DEF ServerCommits, Commit, client, TypeOK, StaleHasWake, Waking
  <2> QED BY <1>1, <2>1, <2>2 DEF ServerCommits, Commit, client, TypeOK
<1>2. CASE ServerAttaches
  <2>1. TypeOK'
    BY <1>2 DEF ServerAttaches, Attach, TypeOK
  <2>2. next'[Tab] <= rev' + 1 /\ conn' = "connecting"
    BY <1>2 DEF ServerAttaches, Attach, TypeOK
  <2>3. StaleHasWake'
    BY <2>2 DEF StaleHasWake, Waking
  <2> QED BY <1>2, <2>1, <2>2, <2>3 DEF ServerAttaches, Attach
<1>3. CASE FrameSent
  <2>1. TypeOK'
    BY <1>3 DEF FrameSent, Deliver, Advanced, Due, TypeOK
  <2>2. next'[Tab] <= rev' + 1 /\ inbox' > 0
    BY <1>3 DEF FrameSent, Deliver, Advanced, Due, TypeOK
  <2>3. StaleHasWake'
    BY <2>2 DEF StaleHasWake, Waking
  <2> QED BY <1>3, <2>1, <2>2, <2>3 DEF FrameSent, Deliver
<1>4. CASE ChannelLost
  <2>1. TypeOK'
    BY <1>4 DEF ChannelLost, Break, Undue, TypeOK
  <2>2. next'[Tab] <= rev' + 1 /\ Tab \in broken'
    BY <1>4 DEF ChannelLost, Break, Undue, TypeOK
  <2>3. StaleHasWake'
    BY <2>2 DEF StaleHasWake, Waking
  <2> QED BY <1>4, <2>1, <2>2, <2>3 DEF ChannelLost, Break
<1>5. CASE Opens
  <2>1. TypeOK'
    BY <1>5, RefetchIs DEF Opens, stream, TypeOK
  <2>2. StaleHasWake'
    BY <1>5, RefetchIs DEF Opens, StaleHasWake
  <2> QED BY <1>5, <2>1, <2>2, RefetchIs DEF Opens, stream
<1>6. CASE Disconnects
  <2>1. TypeOK'
    BY <1>6 DEF Disconnects, Close, Undue, TypeOK
  <2>2. next'[Tab] <= rev' + 1 /\ conn' = "down"
    BY <1>6 DEF Disconnects, Close, Undue, TypeOK
  <2>3. StaleHasWake'
    BY <2>2 DEF StaleHasWake, Waking
  <2> QED BY <1>6, <2>1, <2>2, <2>3 DEF Disconnects
<1>7. CASE Reconnects
  BY <1>7 DEF Reconnects, stream, TypeOK, StaleHasWake, Waking
<1>8. CASE FrameHandled
  <2>1. inbox' \in Nat /\ conn' = conn /\ data' = data /\ UNCHANGED stream
    BY <1>8 DEF FrameHandled, TypeOK
  <2>2. window' \in BOOLEAN /\ trailing' \in BOOLEAN /\ (trailing' => window')
    BY <1>8 DEF FrameHandled, TypeOK
  <2>3. CASE Refetch
    <3>1. TypeOK'
      BY <2>1, <2>2, <2>3, RefetchIs DEF stream, TypeOK
    <3>2. StaleHasWake'
      BY <2>3, RefetchIs DEF StaleHasWake
    <3> QED BY <2>1, <2>3, <3>1, <3>2, RefetchIs DEF stream
  <2>4. CASE fetch' = fetch /\ joined' = TRUE /\ failed' = failed
    <3>1. joined' \in BOOLEAN /\ failed' \in BOOLEAN
      BY <2>4 DEF TypeOK
    <3>2. TypeOK'
      BY <2>1, <2>2, <2>4, <3>1 DEF stream, TypeOK
    <3>3. StaleHasWake'
      BY <2>4 DEF StaleHasWake
    <3> QED BY <2>1, <2>4, <3>2, <3>3 DEF stream
  <2>5. CASE trailing' = TRUE /\ UNCHANGED <<fetch, joined, failed>>
    <3>1. TypeOK'
      BY <2>1, <2>2, <2>5 DEF stream, TypeOK
    <3>2. StaleHasWake'
      BY <2>5 DEF StaleHasWake, Waking
    <3> QED BY <2>1, <2>5, <3>1, <3>2 DEF stream
  <2> QED BY <1>8, <2>3, <2>4, <2>5 DEF FrameHandled, Invalidate
<1>9. CASE WindowEnds
  <2>1. inbox' = inbox /\ conn' = conn /\ data' = data /\ UNCHANGED stream
    BY <1>9 DEF WindowEnds
  <2>2. window' \in BOOLEAN /\ trailing' \in BOOLEAN /\ (trailing' => window')
    BY <1>9 DEF WindowEnds, TypeOK
  <2>3. CASE Refetch
    <3>1. TypeOK'
      BY <2>1, <2>2, <2>3, RefetchIs DEF stream, TypeOK
    <3>2. StaleHasWake'
      BY <2>3, RefetchIs DEF StaleHasWake
    <3> QED BY <2>1, <2>3, <3>1, <3>2, RefetchIs DEF stream
  <2>4. CASE fetch' = fetch /\ joined' = TRUE /\ failed' = failed
    <3>1. joined' \in BOOLEAN /\ failed' \in BOOLEAN
      BY <2>4 DEF TypeOK
    <3>2. TypeOK'
      BY <2>1, <2>2, <2>4, <3>1 DEF stream, TypeOK
    <3>3. StaleHasWake'
      BY <2>4 DEF StaleHasWake
    <3> QED BY <2>1, <2>4, <3>2, <3>3 DEF stream
  <2>5. CASE ~trailing /\ UNCHANGED <<fetch, joined, failed>>
    <3>1. TypeOK'
      BY <2>1, <2>2, <2>5 DEF stream, TypeOK
    <3>2. StaleHasWake'
      BY <2>1, <2>5 DEF stream, StaleHasWake, Waking
    <3> QED BY <2>1, <2>5, <3>1, <3>2 DEF stream
  <2> QED BY <1>9, <2>3, <2>4, <2>5 DEF WindowEnds, Invalidate
<1>10. CASE FetchAnswered
  <2>1. TypeOK'
    BY <1>10 DEF FetchAnswered, stream, TypeOK
  <2>2. StaleHasWake'
    BY <1>10 DEF FetchAnswered, stream, StaleHasWake
  <2> QED BY <1>10, <2>1, <2>2 DEF FetchAnswered, stream, TypeOK
<1>11. CASE Resolved
  <2>1. TypeOK'
    BY <1>11 DEF Resolved, stream, TypeOK, Idle, Sent, NoData
  <2>2. fetch # Sent /\ fetch.snap <= rev /\ data <= fetch.snap /\ data <= rev
        /\ fetch.snap \in Nat /\ rev \in Nat /\ data \in Int
    BY <1>11 DEF Resolved, TypeOK, Idle, Sent, NoData
  <2>3. StaleHasWake'
    BY <1>11, <2>2 DEF Resolved, stream, StaleHasWake, Waking
  <2> QED BY <1>11, <2>1, <2>3 DEF Resolved, stream, Idle
<1>12. CASE FetchFails
  <2>1. TypeOK'
    BY <1>12 DEF FetchFails, stream, TypeOK, Idle, NoData
  <2>2. StaleHasWake'
    BY <1>12 DEF FetchFails, StaleHasWake
  <2> QED BY <1>12, <2>1, <2>2 DEF FetchFails, stream, Idle
<1>13. CASE Refocused
  <2>1. TypeOK'
    BY <1>13, RefetchIs DEF Refocused, stream, TypeOK
  <2>2. StaleHasWake'
    BY <1>13, RefetchIs DEF Refocused, StaleHasWake
  <2> QED BY <1>13, <2>1, <2>2, RefetchIs DEF Refocused, stream
<1>14. CASE UNCHANGED vars
  BY <1>14 DEF vars, stream, client, TypeOK, StaleHasWake, Waking
<1> QED BY <1>1, <1>2, <1>3, <1>4, <1>5, <1>6, <1>7, <1>8, <1>9, <1>10, <1>11, <1>12, <1>13, <1>14
        DEF Next

-----------------------------------------------------------------------------
\* The feed is well typed and shows nothing the server has not committed.
THEOREM FeedTyped == Spec => []TypeOK
<1>1. FeedInv => TypeOK
  BY DEF FeedInv
<1> QED BY FeedInvInit, FeedInvKept, <1>1, PTL DEF Spec

\* useSessionSocket with the query library: a feed behind the server always has something under
\* way that wakes it, unless a request failed or an invalidation joined a first fetch.
THEOREM FeedAwake == Spec => []StaleHasWake
<1>1. FeedInv => StaleHasWake
  BY DEF FeedInv
<1> QED BY FeedInvInit, FeedInvKept, <1>1, PTL DEF Spec

-----------------------------------------------------------------------------
(* The import: types *)

Ops == {"create session", "hide session", "list audio", "create upload", "status", "put",
        "complete"}
Points == AnswerPoints \cup
  {"sent", "made", "loaded", "written", "hashed", "aborting", "checked", "adopted", "listed",
   "spent", "anchoring", "refusing", "undone"}

\* A request names its session, but for one that makes it, and its upload and part when it has them.
RequestTyped(h) ==
  /\ h \in [op : Ops, of : Sessions \cup {Unnamed}, upload : UploadIds \cup {Unnamed},
            part : Parts \cup {Unnamed}, at : Points, heard : BOOLEAN, got : SUBSET Parts]
  /\ h.op # "create session" \/ h.at = "ok" => h.of \in Sessions
  /\ h.op \in {"status", "put", "complete"} => h.upload \in UploadIds
  /\ h.op = "create upload" /\ h.at \in {"made", "ok"} => h.upload \in UploadIds
  /\ h.op = "put" => h.part \in Parts

\* The sessions, the rows and the files.
RowsTyped ==
  /\ session \in [Sessions -> {"unmade", "shown", "hidden"}]
  /\ upload \in [UploadIds -> [status : {"none", "open", "complete", "removed"},
                               of : Sessions \cup {Unnamed}, received : SUBSET Parts,
                               live : BOOLEAN]]
  /\ place \in [UploadIds -> {"none", "staged", "blob"}]
  /\ whole \in [UploadIds -> SUBSET Parts]
  /\ listed \subseteq UploadIds

\* What the tab waits for in a step.
OpOf == [creating |-> "create session", checking |-> "list audio", recalling |-> "status",
         starting |-> "create upload", putting |-> "put", asking |-> "status",
         completing |-> "complete", undoing |-> "hide session"]

\* The tab's run, and what the browser remembers of the group.
TabTyped ==
  /\ tab \in [at : {"rest", "found", "made", "sending"} \cup DOMAIN OpOf,
              of : Sessions \cup {Unnamed}, upload : UploadIds \cup {Unnamed},
              got : SUBSET Parts, tries : Nat]
  /\ tab.at \notin {"rest", "creating"} => tab.of \in Sessions
  /\ tab.at \in {"recalling", "sending", "putting", "asking", "completing"} => tab.upload \in UploadIds
  /\ memory = NoMemory \/ memory \in [upload : UploadIds, of : Sessions]
  /\ imported \in Sessions \cup {Unnamed}
  /\ unaware \in BOOLEAN

\* The tab waits for one request at a time, the one of its step and session.
OneAsked == \A h, g \in requests : h.heard /\ g.heard => h = g
Asked ==
  \A h \in requests : h.heard => /\ tab.at \in DOMAIN OpOf /\ h.op = OpOf[tab.at]
                                 /\ h.op # "create session" => h.of = tab.of

ImportTyped ==
  /\ RowsTyped /\ TabTyped /\ OneAsked /\ Asked
  /\ \A h \in requests : RequestTyped(h)

-----------------------------------------------------------------------------
\* A handler's step replaces its request or, unheard, ends it.
Replaced(h, r) == requests' = (requests \ {h}) \cup {r} \/ requests' = requests \ {h}

\* The request after the step: the same question, further on.
Moves(h, r) ==
  /\ h.at \notin AnswerPoints /\ RequestTyped(r)
  /\ r.op = h.op /\ r.heard = h.heard /\ r.part = h.part
  /\ r.of # h.of => h.op = "create session"
  /\ r.upload # h.upload => r.at = "made"
  /\ r.at = "made" => /\ h.op = "create upload" /\ h.at = "sent"
                      /\ r.upload \notin {tab.upload, memory.upload} \cup listed
                      /\ \A g \in requests : g.upload # r.upload

\* A handler that only goes on.
LEMMA GoesOn ==
  ASSUME NEW h, RequestTyped(h), h.at \notin AnswerPoints, NEW a \in Points \ {"made"},
         Says(h, a) \/ Goes(h, a),
         a = "ok" => h.op # "create session" /\ (h.op = "create upload" => h.upload \in UploadIds)
  PROVE  \E r : Replaced(h, r) /\ Moves(h, r)
<1> DEFINE r == [h EXCEPT !.at = a]
<1>1. /\ r.op = h.op /\ r.heard = h.heard /\ r.part = h.part /\ r.at = a
      /\ r.of = h.of /\ r.upload = h.upload
  BY DEF RequestTyped
<1>2. RequestTyped(r)
  BY DEF RequestTyped
<1>3. Replaced(h, r)
  BY DEF Says, Goes, Becomes, Reply, Replaced
<1> HIDE DEF r
<1>4. Moves(h, r)
  BY <1>1, <1>2 DEF Moves
<1> QED
  BY <1>3, <1>4

\* What a handler's step makes of its request.
LEMMA ServerMoves ==
  ASSUME RowsTyped, NEW h \in requests, RequestTyped(h), Server(h)
  PROVE  \E r : Replaced(h, r) /\ Moves(h, r)
<1>1. CASE HideSession(h)
  BY <1>1, GoesOn DEF HideSession, At, Points, AnswerPoints
<1>2. CASE ListAudio(h)
  BY <1>2, GoesOn DEF ListAudio, At, Points, AnswerPoints
<1>3. CASE CreateRefused(h)
  BY <1>3, GoesOn DEF CreateRefused, At, Points, AnswerPoints
<1>4. CASE OpenStaging(h)
  <2>1. h.upload \in UploadIds
    BY <1>4 DEF OpenStaging, At, RequestTyped
  <2> QED
    BY <1>4, <2>1, GoesOn DEF OpenStaging, At, Points, AnswerPoints
<1>5. ASSUME NEW g \in SUBSET Parts, NEW a \in {"ok", "loaded"}, h.op \in {"status", "put"},
             h.at = "sent", Reply(h, [h EXCEPT !.at = a, !.got = g]) \/ Becomes(h, [h EXCEPT !.at = a, !.got = g])
      PROVE  \E r : Replaced(h, r) /\ Moves(h, r)
  <2> DEFINE r == [h EXCEPT !.at = a, !.got = g]
  <2>1. /\ r.op = h.op /\ r.heard = h.heard /\ r.part = h.part /\ r.at = a
        /\ r.of = h.of /\ r.upload = h.upload
    BY DEF RequestTyped
  <2>2. RequestTyped(r)
    BY <1>5 DEF RequestTyped, Points, AnswerPoints
  <2>3. Replaced(h, r)
    BY <1>5 DEF Becomes, Reply, Replaced
  <2> HIDE DEF r
  <2>4. Moves(h, r)
    BY <1>5, <2>1, <2>2 DEF Moves, AnswerPoints
  <2> QED
    BY <2>3, <2>4
<1>6. h.op \in {"status", "put"} => upload[h.upload].received \in SUBSET Parts
  BY DEF RowsTyped, RequestTyped
<1>7. CASE Status(h)
  <2>1. h.op = "status" /\ h.at = "sent"
    BY <1>7 DEF Status, At
  <2>2. \/ Says(h, "unknown")
        \/ Reply(h, [h EXCEPT !.at = "ok", !.got = upload[h.upload].received])
    BY <1>7 DEF Status
  <2> QED
    BY <1>5, <1>6, <2>1, <2>2, GoesOn DEF Points, AnswerPoints
<1>8. CASE LoadForPart(h)
  <2>1. h.op = "put" /\ h.at = "sent"
    BY <1>8 DEF LoadForPart, At
  <2>2. \/ Says(h, "unknown")
        \/ Becomes(h, [h EXCEPT !.at = "loaded", !.got = upload[h.upload].received])
    BY <1>8 DEF LoadForPart
  <2> QED
    BY <1>5, <1>6, <2>1, <2>2, GoesOn DEF Points, AnswerPoints
<1>9. CASE WritePart(h) \/ RecordPart(h)
  BY <1>9, GoesOn DEF WritePart, RecordPart, At, Points, AnswerPoints
<1>10. CASE LoadForCompletion(h) \/ Rehash(h) \/ AbortStaging(h) \/ FirstCheck(h) \/ AdoptStaging(h)
  BY <1>10, GoesOn DEF LoadForCompletion, Rehash, AbortStaging, FirstCheck, AdoptStaging, At, Points,
     AnswerPoints
<1>11. CASE \/ AddTake(h) \/ MarkComplete(h) \/ SecondCheck(h) \/ AnchorTake(h)
            \/ UndoTake(h) \/ DeleteUndone(h) \/ CompletionFails(h)
  BY <1>11, GoesOn DEF AddTake, MarkComplete, SecondCheck, AnchorTake, UndoTake, DeleteUndone,
     CompletionFails, At, Points, AnswerPoints
<1>12. ASSUME NEW s \in Sessions, CreateSession(h, s)
       PROVE  \E r : Replaced(h, r) /\ Moves(h, r)
  <2> DEFINE r == [h EXCEPT !.at = "ok", !.of = s]
  <2>1. /\ r.op = h.op /\ r.heard = h.heard /\ r.part = h.part /\ r.at = "ok" /\ r.upload = h.upload
    BY DEF RequestTyped
  <2>2. RequestTyped(r)
    BY <1>12 DEF RequestTyped, Points, AnswerPoints, CreateSession, At
  <2>3. Replaced(h, r) /\ h.op = "create session" /\ h.at = "sent"
    BY <1>12 DEF CreateSession, Reply, Replaced, At
  <2> HIDE DEF r
  <2>4. Moves(h, r)
    BY <2>1, <2>2, <2>3 DEF Moves, AnswerPoints
  <2> QED
    BY <2>3, <2>4
<1>13. ASSUME NEW u \in NewUploads, CreateUpload(h, u)
       PROVE  \E r : Replaced(h, r) /\ Moves(h, r)
  <2> DEFINE r == [h EXCEPT !.at = "made", !.upload = u]
  <2>1. /\ r.op = h.op /\ r.heard = h.heard /\ r.part = h.part /\ r.at = "made" /\ r.of = h.of
        /\ r.upload = u
    BY DEF RequestTyped
  <2>2. RequestTyped(r)
    BY <1>13 DEF RequestTyped, Points, AnswerPoints, CreateUpload, At, NewUploads
  <2>3. Replaced(h, r) /\ h.op = "create upload" /\ h.at = "sent"
    BY <1>13 DEF CreateUpload, Becomes, Replaced, At
  <2>4. u \notin {tab.upload, memory.upload} \cup listed /\ \A g \in requests : g.upload # u
    BY <1>13 DEF NewUploads, NewUpload
  <2> HIDE DEF r
  <2>5. Moves(h, r)
    BY <2>1, <2>2, <2>3, <2>4 DEF Moves, AnswerPoints
  <2> QED
    BY <2>3, <2>5
<1>14. Serve(h) \/ (\E s \in Sessions : CreateSession(h, s)) \/ (\E u \in NewUploads : CreateUpload(h, u))
  BY DEF Server, Makes, NewSessions
<1> QED
  BY <1>1, <1>2, <1>3, <1>4, <1>7, <1>8, <1>9, <1>10, <1>11, <1>12, <1>13, <1>14 DEF Serve

\* Every step of a handler keeps the rows and files typed.
LEMMA ServerRows ==
  ASSUME RowsTyped, NEW h \in requests, RequestTyped(h), Server(h)
  PROVE  RowsTyped'
<1> USE DEF RowsTyped, takes, files
<1>1. CASE HideSession(h)
  BY <1>1 DEF HideSession
<1>2. CASE ListAudio(h) \/ CreateRefused(h) \/ Status(h) \/ LoadForPart(h) \/ LoadForCompletion(h)
           \/ FirstCheck(h)
  BY <1>2 DEF ListAudio, CreateRefused, Status, LoadForPart, LoadForCompletion, FirstCheck
<1>3. CASE OpenStaging(h) \/ AbortStaging(h) \/ AdoptStaging(h) \/ DeleteUndone(h)
  BY <1>3 DEF OpenStaging, AbortStaging, Unstaged, AdoptStaging, DeleteUndone, DropBlob
<1>4. CASE WritePart(h)
  BY <1>4 DEF WritePart, At, RequestTyped
<1>5. CASE RecordPart(h)
  <2>1. CASE upload' = upload
    BY <1>5, <2>1 DEF RecordPart
  <2>2. CASE upload' # upload
    <3>1. upload' = [upload EXCEPT ![h.upload].received = @ \cup {h.part}]
      BY <1>5, <2>2 DEF RecordPart
    <3>2. h.part \in Parts
      BY <1>5 DEF RecordPart, At, RequestTyped
    <3> QED
      BY <1>5, <3>1, <3>2 DEF RecordPart
  <2> QED
    BY <2>1, <2>2
<1>6. CASE Rehash(h)
  <2>1. h.upload \in UploadIds
    BY <1>6 DEF Rehash, At, RequestTyped
  <2> QED
    BY <1>6, <2>1 DEF Rehash
<1>7. CASE MarkComplete(h)
  <2>1. PICK st : st = IF Open(h.upload) THEN "complete" ELSE upload[h.upload].status
    OBVIOUS
  <2>2. h.upload \in UploadIds
    BY <1>7 DEF MarkComplete, At, RequestTyped
  <2>3. upload' = [upload EXCEPT ![h.upload].status = st]
    BY <1>7, <2>1 DEF MarkComplete
  <2>4. st \in {"none", "open", "complete", "removed"}
    <3>1. upload[h.upload].status \in {"none", "open", "complete", "removed"}
      BY <2>2
    <3> QED
      BY <2>1, <3>1
  <2> QED
    BY <1>7, <2>2, <2>3, <2>4 DEF MarkComplete
<1>8. CASE AddTake(h)
  BY <1>8 DEF AddTake, DropBlob, At, RequestTyped
<1>9. CASE SecondCheck(h) \/ AnchorTake(h) \/ UndoTake(h) \/ CompletionFails(h)
  BY <1>9 DEF SecondCheck, AnchorTake, UndoTake, CompletionFails
<1>10. ASSUME NEW s \in Sessions, CreateSession(h, s)
       PROVE  RowsTyped'
  BY <1>10 DEF CreateSession
<1>11. ASSUME NEW u \in NewUploads, CreateUpload(h, u)
       PROVE  RowsTyped'
  BY <1>11 DEF CreateUpload, At, RequestTyped, NewUploads
<1>12. Serve(h) \/ (\E s \in Sessions : CreateSession(h, s)) \/ (\E u \in NewUploads : CreateUpload(h, u))
  BY DEF Server, Makes, NewSessions
<1> QED
  BY <1>1, <1>2, <1>3, <1>4, <1>5, <1>6, <1>7, <1>8, <1>9, <1>10, <1>11, <1>12 DEF Serve

\* The tab's typing and its questions are kept by a handler's step.
LEMMA ServerTyped ==
  ASSUME ImportTyped, NEW h \in requests, Server(h)
  PROVE  ImportTyped'
<1>1. RowsTyped /\ RequestTyped(h)
  BY DEF ImportTyped
<1>2. RowsTyped'
  BY <1>1, ServerRows
<1>3. PICK r : Replaced(h, r) /\ Moves(h, r)
  BY <1>1, ServerMoves
<1>4. UNCHANGED <<tab, memory, imported, unaware>>
  BY DEF Server, Local, remembered
<1>5. TabTyped'
  BY <1>4 DEF ImportTyped, TabTyped
<1>6. \A g \in requests' : RequestTyped(g)
  BY <1>3 DEF ImportTyped, Replaced, Moves
<1>7. OneAsked'
  BY <1>3 DEF ImportTyped, OneAsked, Replaced, Moves
<1>8. Asked'
  BY <1>3, <1>4 DEF ImportTyped, Asked, Replaced, Moves
<1> QED
  BY <1>2, <1>5, <1>6, <1>7, <1>8 DEF ImportTyped, RequestTyped

-----------------------------------------------------------------------------
\* The sessions, rows and files are the server's.
Elsewhere == UNCHANGED <<session, upload, place, whole, listed>>

\* The tab goes on with nothing asked.
LEMMA TakeTyped ==
  ASSUME ImportTyped, Elsewhere, TabTyped', \A g \in requests' : g \in requests /\ ~g.heard
  PROVE  ImportTyped'
BY DEF ImportTyped, Elsewhere, RowsTyped, OneAsked, Asked, RequestTyped

\* The request of each step.
LEMMA StepOps ==
  /\ {"creating", "checking", "recalling", "starting", "putting", "asking", "completing", "undoing"}
       = DOMAIN OpOf
  /\ OpOf["creating"] = "create session" /\ OpOf["checking"] = "list audio"
  /\ OpOf["recalling"] = "status" /\ OpOf["starting"] = "create upload" /\ OpOf["putting"] = "put"
  /\ OpOf["asking"] = "status" /\ OpOf["completing"] = "complete" /\ OpOf["undoing"] = "hide session"
BY DEF OpOf

\* The tab goes on with one question.
LEMMA SendTyped ==
  ASSUME ImportTyped, Elsewhere, TabTyped', NEW h,
         \A g \in requests \ {h} : ~g.heard,
         NEW op, NEW s, NEW u, NEW n, Sends(h, op, s, u, n),
         s \in Sessions \cup {Unnamed}, u \in UploadIds \cup {Unnamed}, n \in Parts \cup {Unnamed},
         op \in {"status", "put", "complete"} => u \in UploadIds,
         op = "put" => n \in Parts,
         NEW step \in DOMAIN OpOf, tab'.at = step, op = OpOf[step],
         op # "create session" => s = tab'.of /\ s \in Sessions
  PROVE  ImportTyped'
<1>1. /\ Request(op, s, u, n).heard /\ Request(op, s, u, n).op = op /\ Request(op, s, u, n).of = s
      /\ RequestTyped(Request(op, s, u, n))
  <2>1. op \in Ops
    BY StepOps DEF Ops
  <2>2. op # "create session" => s \in Sessions
    OBVIOUS
  <2>3. RequestTyped(Request(op, s, u, n))
    BY <2>1, <2>2 DEF Request, RequestTyped, Points, AnswerPoints
  <2> QED
    BY <2>3 DEF Request
<1>2. PICK q : q = Request(op, s, u, n)
  OBVIOUS
<1>3. RowsTyped'
  BY DEF ImportTyped, Elsewhere, RowsTyped
<1>4. \A g \in requests' : RequestTyped(g)
  BY <1>1 DEF ImportTyped, Sends
<1>5. OneAsked' /\ Asked'
  <2>1. requests' = (requests \ {h}) \cup {q} /\ q.heard /\ q.op = op /\ q.of = s
    BY <1>1, <1>2 DEF Sends
  <2> QED
    BY <2>1 DEF OneAsked, Asked
<1> QED
  BY <1>3, <1>4, <1>5 DEF ImportTyped, RequestTyped

\* The answer the tab hears is the only request it waits for.
LEMMA HeardAlone ==
  ASSUME ImportTyped, NEW h, NEW step, Hears(h, step)
  PROVE  /\ h \in requests /\ h.heard /\ h.at \in AnswerPoints /\ RequestTyped(h)
         /\ tab.at = step /\ h.op = OpOf[step] /\ (h.op # "create session" => h.of = tab.of)
         /\ \A g \in requests \ {h} : ~g.heard
BY DEF ImportTyped, Hears, Pending, OneAsked, Asked

\* When the tab is ready, it waits for none.
LEMMA ReadyAlone ==
  ASSUME NEW step, Ready(step)
  PROVE  tab.at = step /\ \A g \in requests \ {NoAnswer} : ~g.heard
BY DEF Ready, Pending

\* What the tab sends keeps the typing.
LEMMA TabSendsTyped ==
  ASSUME ImportTyped, TabSends
  PROVE  ImportTyped'
<1> USE DEF Quiet, kept, files, Elsewhere
<1>1. TabTyped /\ \A g \in requests : RequestTyped(g)
  BY DEF ImportTyped
<1>2. \A g \in requests : g # NoAnswer
  <2>1. \A g \in requests : g.op \in Ops
    BY <1>1 DEF RequestTyped
  <2>2. NoAnswer.op \notin Ops
    BY DEF NoAnswer, Request, Ops
  <2> QED
    BY <2>1, <2>2
<1>3. CASE Begin
  <2>1. \A g \in requests \ {NoAnswer} : ~g.heard
    BY <1>3, ReadyAlone DEF Begin
  <2>2. CASE \A s \in Sessions : ~Shown(s)
    <3>1. /\ Sends(NoAnswer, "create session", Unnamed, Unnamed, Unnamed)
          /\ tab' = [NoRun EXCEPT !.at = "creating"] /\ UNCHANGED <<memory, imported, unaware>>
      BY <1>3, <2>2 DEF Begin, remembered
    <3>2. TabTyped' /\ tab'.at = "creating"
      BY <1>1, <3>1 DEF TabTyped, NoRun, OpOf
    <3> QED
      BY <1>3, <2>1, <3>1, <3>2, SendTyped, StepOps DEF Begin
  <2>3. ASSUME NEW s \in Sessions, memory.of = s, tab' = [NoRun EXCEPT !.at = "found", !.of = s],
               UNCHANGED requests
        PROVE  ImportTyped'
    <3>1. TabTyped'
      BY <1>1, <1>3, <2>3 DEF Begin, remembered, TabTyped, NoRun, OpOf
    <3> QED
      BY <1>2, <1>3, <2>1, <2>3, <3>1, TakeTyped DEF Begin
  <2>4. ASSUME NEW s \in Sessions, Sends(NoAnswer, "list audio", s, Unnamed, Unnamed),
               tab' = [NoRun EXCEPT !.at = "checking", !.of = s]
        PROVE  ImportTyped'
    <3>1. TabTyped'
      BY <1>1, <1>3, <2>4 DEF Begin, remembered, TabTyped, NoRun, OpOf
    <3>2. tab'.at = "checking" /\ tab'.of = s
      BY <2>4 DEF NoRun
    <3> QED
      BY <1>3, <2>1, <2>4, <3>1, <3>2, SendTyped, StepOps DEF Begin
  <2> QED
    BY <1>3, <2>2, <2>3, <2>4 DEF Begin
<1>4. CASE RefetchSessions
  <2>1. tab.at = "made" /\ \A g \in requests \ {NoAnswer} : ~g.heard
    BY <1>4, ReadyAlone DEF RefetchSessions
  <2>2. TabTyped'
    BY <1>1, <1>4, <2>1 DEF RefetchSessions, Undo, remembered, TabTyped, OpOf
  <2>3. CASE tab' = [tab EXCEPT !.at = "found"] /\ UNCHANGED <<requests, mishaps>>
    BY <1>2, <1>4, <2>1, <2>2, <2>3, TakeTyped DEF RefetchSessions
  <2>4. CASE Undo(NoAnswer)
    <3>1. tab'.at = "undoing" /\ tab'.of = tab.of /\ tab.of \in Sessions
      BY <1>1, <2>1, <2>4 DEF Undo, TabTyped
    <3> QED
      BY <1>4, <2>1, <2>2, <2>4, <3>1, SendTyped, StepOps DEF RefetchSessions, Undo
  <2> QED
    BY <1>4, <2>3, <2>4 DEF RefetchSessions
<1>5. CASE Recall
  <2>1. tab.at = "found" /\ tab.of \in Sessions /\ \A g \in requests \ {NoAnswer} : ~g.heard
    BY <1>1, <1>5, ReadyAlone DEF Recall, TabTyped
  <2>2. CASE memory.of = tab.of
    <3>1. memory.upload \in UploadIds
      BY <1>1, <2>1, <2>2, PartsAssumption DEF TabTyped, NoMemory
    <3>2. /\ Sends(NoAnswer, "status", tab.of, memory.upload, Unnamed)
          /\ tab' = [tab EXCEPT !.at = "recalling", !.upload = memory.upload]
          /\ UNCHANGED <<memory, imported, unaware>>
      BY <1>5, <2>2 DEF Recall
    <3>3. TabTyped' /\ tab'.at = "recalling" /\ tab'.of = tab.of
      BY <1>1, <2>1, <3>1, <3>2 DEF TabTyped, OpOf
    <3> QED
      BY <1>5, <2>1, <3>1, <3>2, <3>3, SendTyped, StepOps DEF Recall
  <2>3. CASE memory.of # tab.of
    <3>1. StartUpload(NoAnswer) /\ UNCHANGED <<imported, unaware>>
      BY <1>5, <2>3 DEF Recall
    <3>2. TabTyped' /\ tab'.at = "starting" /\ tab'.of = tab.of
      BY <1>1, <2>1, <3>1 DEF TabTyped, OpOf, StartUpload
    <3> QED
      BY <1>5, <2>1, <3>1, <3>2, SendTyped, StepOps DEF Recall, StartUpload
  <2> QED
    BY <2>2, <2>3
<1>6. ASSUME NEW n \in Parts, SendPart(n)
      PROVE  ImportTyped'
  <2>1. /\ tab.at = "sending" /\ tab.of \in Sessions /\ tab.upload \in UploadIds
        /\ \A g \in requests \ {NoAnswer} : ~g.heard
    BY <1>1, <1>6, ReadyAlone DEF SendPart, TabTyped
  <2>2. TabTyped' /\ tab'.at = "putting" /\ tab'.of = tab.of
    BY <1>1, <1>6, <2>1 DEF SendPart, TabTyped, OpOf, remembered
  <2> QED
    BY <1>6, <2>1, <2>2, SendTyped, StepOps DEF SendPart
<1>7. CASE Complete
  <2>1. /\ tab.at = "sending" /\ tab.of \in Sessions /\ tab.upload \in UploadIds
        /\ \A g \in requests \ {NoAnswer} : ~g.heard
    BY <1>1, <1>7, ReadyAlone DEF Complete, TabTyped
  <2>2. TabTyped' /\ tab'.at = "completing" /\ tab'.of = tab.of
    BY <1>1, <1>7, <2>1 DEF Complete, TabTyped, OpOf, remembered
  <2> QED
    BY <1>7, <2>1, <2>2, SendTyped, StepOps DEF Complete
<1> QED
  BY <1>3, <1>4, <1>5, <1>6, <1>7 DEF TabSends

\* Heard, an answer leaves nothing asked.
LEMMA TakesTyped ==
  ASSUME ImportTyped, Elsewhere, TabTyped', NEW h, \A g \in requests \ {h} : ~g.heard, Takes(h)
  PROVE  ImportTyped'
BY TakeTyped DEF Takes

\* What the tab hears keeps the typing.
LEMMA TabHearsTyped ==
  ASSUME ImportTyped, NEW h \in requests, TabHears(h)
  PROVE  ImportTyped'
<1> USE DEF Quiet, kept, files, Elsewhere
<1>1. TabTyped
  BY DEF ImportTyped
<1>2. ASSUME NEW step \in DOMAIN OpOf, Hears(h, step)
      PROVE  /\ h.heard /\ h.op = OpOf[step] /\ (h.op # "create session" => h.of = tab.of)
             /\ tab.at = step /\ tab \in [at : {"rest", "found", "made", "sending"} \cup DOMAIN OpOf,
                  of : Sessions \cup {Unnamed}, upload : UploadIds \cup {Unnamed},
                  got : SUBSET Parts, tries : Nat]
             /\ \A g \in requests \ {h} : ~g.heard
             /\ h.got \in SUBSET Parts /\ h.of \in Sessions \cup {Unnamed} /\ RequestTyped(h)
             /\ tab.at # "creating" => tab.of \in Sessions
             /\ h.at = "ok" => h.of \in Sessions
  <2>1. step # "rest" /\ RequestTyped(h) /\ tab.at = step
    BY <1>2, StepOps, HeardAlone
  <2> QED
    BY <1>1, <1>2, <2>1, HeardAlone DEF RequestTyped, TabTyped
<1>3. CASE Rest /\ Takes(h) /\ Elsewhere /\ UNCHANGED unaware
            /\ (memory' = memory \/ memory' = NoMemory) /\ (imported' = imported \/ imported' = Unnamed)
            /\ \A g \in requests \ {h} : ~g.heard
  <2>1. TabTyped'
    BY <1>1, <1>3 DEF Rest, NoRun, TabTyped
  <2> QED
    BY <1>3, <2>1, TakesTyped
<1>4. ASSUME Undo(h), Elsewhere, UNCHANGED <<unaware, imported>>, memory' \in {memory, NoMemory},
             tab.of \in Sessions, \A g \in requests \ {h} : ~g.heard
      PROVE  ImportTyped'
  <2>1. TabTyped' /\ tab'.at = "undoing" /\ tab'.of = tab.of
    BY <1>1, <1>4, StepOps DEF Undo, TabTyped
  <2> QED
    BY <1>4, <2>1, SendTyped, StepOps DEF Undo
<1>5. ASSUME NEW step \in DOMAIN OpOf, tab.at = step, tab.of \in Sessions,
             StartUpload(h), Elsewhere, UNCHANGED <<unaware, imported>>,
             \A g \in requests \ {h} : ~g.heard
      PROVE  ImportTyped'
  <2>1. TabTyped' /\ tab'.at = "starting" /\ tab'.of = tab.of
    BY <1>1, <1>5, StepOps DEF StartUpload, TabTyped
  <2> QED
    BY <1>5, <2>1, SendTyped, StepOps DEF StartUpload
<1>6. CASE Checked(h)
  <2>1. Hears(h, "checking") /\ Takes(h) /\ UNCHANGED <<memory, imported, unaware>>
    BY <1>6 DEF Checked, remembered
  <2>2. CASE h.at = "ok"
    <3>1. TabTyped'
      BY <1>1, <1>2, <1>6, <2>1, <2>2, StepOps DEF Checked, TabTyped
    <3> QED
      BY <1>2, <1>6, <2>1, <3>1, StepOps, TakesTyped DEF Checked
  <2>3. CASE h.at # "ok"
    BY <1>2, <1>3, <1>6, <2>1, <2>3, StepOps DEF Checked
  <2> QED
    BY <2>2, <2>3
<1>7. CASE Created(h)
  <2>1. Hears(h, "creating") /\ Takes(h) /\ UNCHANGED <<memory, unaware>>
    BY <1>7 DEF Created
  <2>2. CASE h.at = "ok"
    <3>1. TabTyped'
      BY <1>1, <1>2, <1>7, <2>1, <2>2, StepOps DEF Created, TabTyped
    <3> QED
      BY <1>2, <1>7, <2>1, <3>1, StepOps, TakesTyped DEF Created
  <2>3. CASE h.at # "ok"
    BY <1>2, <1>3, <1>7, <2>1, <2>3, StepOps DEF Created
  <2> QED
    BY <2>2, <2>3
<1>8. CASE Recalled(h)
  <2>1. Hears(h, "recalling") /\ UNCHANGED <<imported, unaware>>
    BY <1>8 DEF Recalled
  <2>2. CASE h.at = "ok"
    <3>1. tab' = [tab EXCEPT !.at = "sending", !.got = h.got] /\ Takes(h) /\ UNCHANGED memory
      BY <1>8, <2>2 DEF Recalled
    <3>2. TabTyped'
      BY <1>1, <1>2, <2>1, <3>1, StepOps DEF TabTyped
    <3> QED
      BY <1>2, <1>8, <2>1, <3>1, <3>2, StepOps, TakesTyped DEF Recalled
  <2>3. CASE h.at # "ok"
    BY <1>2, <1>5, <1>8, <2>1, <2>3, StepOps DEF Recalled
  <2> QED
    BY <2>2, <2>3
<1>9. CASE Started(h)
  <2>1. Hears(h, "starting") /\ UNCHANGED <<imported, unaware>>
    BY <1>9 DEF Started
  <2>2. CASE h.at = "ok"
    <3>1. /\ tab' = [tab EXCEPT !.at = "sending", !.upload = h.upload] /\ Takes(h)
          /\ memory' = [upload |-> h.upload, of |-> tab.of]
      BY <1>9, <2>2 DEF Started
    <3>2. h.upload \in UploadIds /\ tab.of \in Sessions
      BY <1>2, <2>1, <2>2, StepOps DEF RequestTyped
    <3>3. TabTyped'
      BY <1>1, <1>2, <2>1, <3>1, <3>2, StepOps DEF TabTyped
    <3> QED
      BY <1>2, <1>9, <2>1, <3>1, <3>3, StepOps, TakesTyped DEF Started
  <2>3. CASE h.at # "ok"
    BY <1>2, <1>4, <1>9, <2>1, <2>3, StepOps DEF Started
  <2> QED
    BY <2>2, <2>3
<1>10. CASE PartAnswered(h)
  <2>1. Hears(h, "putting") /\ UNCHANGED <<imported, unaware>> /\ Elsewhere
    BY <1>10 DEF PartAnswered
  <2>2. tab.of \in Sessions /\ h.part \in Parts
    BY <1>2, <2>1, StepOps DEF RequestTyped
  <2>3. CASE h.at = "ok"
    <3>1. tab' = [tab EXCEPT !.at = "sending", !.got = @ \cup {h.part}, !.tries = 0] /\ Takes(h)
          /\ UNCHANGED memory
      BY <1>10, <2>3 DEF PartAnswered
    <3>2. TabTyped'
      BY <1>1, <1>2, <2>1, <2>2, <3>1, StepOps DEF TabTyped
    <3> QED
      BY <1>2, <1>10, <2>1, <3>1, <3>2, StepOps, TakesTyped DEF PartAnswered
  <2>4. CASE memory' = NoMemory /\ Undo(h)
    BY <1>2, <1>4, <1>10, <2>1, <2>2, <2>4, StepOps DEF PartAnswered
  <2>5. CASE Rest /\ Takes(h) /\ UNCHANGED memory
    BY <1>2, <1>3, <1>10, <2>1, <2>5, StepOps DEF PartAnswered
  <2>6. CASE /\ tab' = [tab EXCEPT !.at = "asking", !.tries = @ + 1]
             /\ Sends(h, "status", tab.of, tab.upload, Unnamed) /\ UNCHANGED memory
    <3>2. tab.upload \in UploadIds
      BY <1>1, <1>2, <2>1, StepOps DEF TabTyped
    <3>3. PICK more : more = tab.tries + 1
      OBVIOUS
    <3>4. more \in Nat
      <4>1. tab.tries \in Nat
        BY <1>2, <2>1, StepOps
      <4> QED
        BY <3>3, <4>1
    <3>5. tab' = [tab EXCEPT !.at = "asking", !.tries = more]
      BY <2>6, <3>3
    <3>1. TabTyped' /\ tab'.at = "asking" /\ tab'.of = tab.of
      BY <1>1, <1>2, <2>1, <2>2, <2>6, <3>2, <3>4, <3>5, StepOps DEF TabTyped
    <3>6. \A g \in requests \ {h} : ~g.heard
      BY <1>2, <2>1, StepOps
    <3>7. Sends(h, "status", tab.of, tab.upload, Unnamed)
      BY <2>6
    <3> HIDE <2>6
    <3> QED
      BY <2>1, <2>2, <3>1, <3>2, <3>6, <3>7, SendTyped, StepOps
  <2> QED
    BY <1>10, <2>3, <2>4, <2>5, <2>6 DEF PartAnswered
<1>11. CASE Reread(h)
  <2>1. Hears(h, "asking") /\ Takes(h) /\ UNCHANGED <<memory, imported, unaware>>
    BY <1>11 DEF Reread, remembered
  <2>2. PICK more : more = IF NextPart \in h.got THEN 0 ELSE tab.tries
    OBVIOUS
  <2>3. \/ tab' = [tab EXCEPT !.at = "sending", !.got = h.got, !.tries = more]
        \/ tab' = [tab EXCEPT !.at = "sending"]
    BY <1>11, <2>2 DEF Reread
  <2>4. more \in Nat
    BY <1>2, <2>1, <2>2, StepOps
  <2>5. TabTyped'
    BY <1>1, <1>2, <2>1, <2>3, <2>4, StepOps DEF TabTyped
  <2> QED
    BY <1>2, <1>11, <2>1, <2>5, StepOps, TakesTyped DEF Reread
<1>12. CASE Completed(h)
  <2>1. Hears(h, "completing") /\ UNCHANGED unaware
    BY <1>12 DEF Completed
  <2>2. CASE Rest /\ Takes(h)
    BY <1>2, <1>3, <1>12, <2>1, <2>2, StepOps DEF Completed, remembered
  <2>3. CASE Undo(h) /\ UNCHANGED imported /\ memory' \in {memory, NoMemory}
    <3>1. tab.of \in Sessions /\ \A g \in requests \ {h} : ~g.heard
      BY <1>2, <2>1, StepOps
    <3> QED
      BY <1>4, <1>12, <2>1, <2>3, <3>1 DEF Completed
  <2> QED
    BY <1>12, <2>2, <2>3 DEF Completed, remembered
<1>13. CASE Undone(h)
  BY <1>2, <1>3, <1>13, StepOps DEF Undone
<1> QED
  BY <1>6, <1>7, <1>8, <1>9, <1>10, <1>11, <1>12, <1>13 DEF TabHears

\* A request whose caller leaves, and one whose answer is lost.
LEMMA LeftTyped ==
  ASSUME NEW h, RequestTyped(h)
  PROVE  /\ RequestTyped([h EXCEPT !.heard = FALSE]) /\ ~[h EXCEPT !.heard = FALSE].heard
         /\ RequestTyped([h EXCEPT !.at = "lost"]) /\ [h EXCEPT !.at = "lost"].op = h.op
         /\ [h EXCEPT !.at = "lost"].of = h.of
         /\ [h EXCEPT !.at = "lost"].heard = h.heard
BY DEF RequestTyped, Points, AnswerPoints

\* What the tab did not hear of is a truth value.
LEMMA MissesTyped ==
  ASSUME NEW R, Misses(R)
  PROVE  unaware' \in BOOLEAN
BY DEF Misses

\* An answer that is lost, a page that closes and a stopped run keep the typing.
LEMMA LeavesTyped ==
  ASSUME ImportTyped,
         \/ \E h \in requests : AnswerLost(h) \/ NeverArrives(h)
         \/ ClosePage \/ Abort \/ Forget
  PROVE  ImportTyped'
<1> USE DEF kept, files, remembered, Elsewhere
<1>1. TabTyped /\ RowsTyped /\ \A g \in requests : RequestTyped(g)
  BY DEF ImportTyped
<1>0. \A h \in requests : /\ RequestTyped([h EXCEPT !.heard = FALSE])
                          /\ ~[h EXCEPT !.heard = FALSE].heard
  BY <1>1, LeftTyped
<1>2. ASSUME NEW h \in requests, AnswerLost(h)
      PROVE  ImportTyped'
  <2>1. PICK gone : gone = [h EXCEPT !.heard = FALSE]
    OBVIOUS
  <2>2. PICK lost : lost = [h EXCEPT !.at = "lost"]
    OBVIOUS
  <2>3. requests' = (requests \ {h}) \cup {gone, lost}
    BY <1>2, <2>1, <2>2 DEF AnswerLost
  <2>4. /\ RequestTyped(gone) /\ ~gone.heard /\ RequestTyped(lost) /\ lost.op = h.op
        /\ lost.of = h.of
    BY <1>1, <2>1, <2>2, LeftTyped
  <2>5. h.heard
    BY <1>2 DEF AnswerLost, Pending
  <2>6. OneAsked' /\ Asked'
    BY <1>2, <2>3, <2>4, <2>5 DEF ImportTyped, OneAsked, Asked, AnswerLost
  <2>7. \A g \in requests' : RequestTyped(g)
    BY <1>1, <2>3, <2>4
  <2>8. TabTyped' /\ RowsTyped'
    BY <1>1, <1>2, MissesTyped DEF AnswerLost, TabTyped, RowsTyped
  <2> QED
    BY <2>6, <2>7, <2>8 DEF ImportTyped, RequestTyped
<1>3. ASSUME NEW h \in requests, NeverArrives(h)
      PROVE  ImportTyped'
  <2>1. OneAsked' /\ Asked'
    BY <1>3 DEF ImportTyped, OneAsked, Asked, NeverArrives, Takes
  <2>2. \A g \in requests' : RequestTyped(g)
    BY <1>1, <1>3 DEF NeverArrives, Takes
  <2>3. TabTyped' /\ RowsTyped'
    BY <1>1, <1>3 DEF NeverArrives, TabTyped, RowsTyped
  <2> QED
    BY <2>1, <2>2, <2>3 DEF ImportTyped, RequestTyped
<1>4. ASSUME Abandon, Rest, Misses(Pending), Elsewhere, UNCHANGED remembered
      PROVE  ImportTyped'
  <2>1. \A g \in requests' : RequestTyped(g) /\ ~g.heard
    BY <1>0, <1>1, <1>4 DEF Abandon, Pending
  <2>2. TabTyped' /\ RowsTyped'
    BY <1>1, <1>4, MissesTyped DEF Rest, NoRun, TabTyped, RowsTyped
  <2> QED
    BY <2>1, <2>2 DEF ImportTyped, RequestTyped, OneAsked, Asked
<1>5. CASE ClosePage
  BY <1>4, <1>5 DEF ClosePage
<1>6. CASE Abort
  <2>1. CASE Rest /\ Abandon
    BY <1>4, <1>6, <2>1 DEF Abort
  <2>2. CASE /\ tab' = [tab EXCEPT !.at = "undoing"] /\ tab.at \notin {"rest", "creating", "undoing"}
             /\ requests' = (requests \ Pending) \cup {[h EXCEPT !.heard = FALSE] : h \in Pending \ WithAnswer}
                               \cup {Request("hide session", tab.of, Unnamed, Unnamed)}
    <3>1. PICK q : q = Request("hide session", tab.of, Unnamed, Unnamed)
      OBVIOUS
    <3>2. tab.of \in Sessions
      BY <1>1, <2>2 DEF TabTyped
    <3>3. q.heard /\ q.op = "hide session" /\ q.of = tab.of /\ RequestTyped(q)
      BY <3>1, <3>2 DEF Request, RequestTyped, Ops, Points, AnswerPoints
    <3>4. \A g \in requests' : g = q \/ (RequestTyped(g) /\ ~g.heard)
      BY <1>0, <1>1, <2>2, <3>1 DEF Pending
    <3>5. TabTyped' /\ RowsTyped' /\ tab'.of = tab.of /\ tab'.at = "undoing"
      BY <1>1, <1>6, <2>2, StepOps, MissesTyped DEF Abort, TabTyped, RowsTyped
    <3>6. OneAsked' /\ Asked'
      BY <3>3, <3>4, <3>5, StepOps DEF OneAsked, Asked
    <3> QED
      BY <3>3, <3>4, <3>5, <3>6 DEF ImportTyped, RequestTyped
  <2> QED
    BY <1>6, <2>1, <2>2 DEF Abort
<1>7. CASE Forget
  <2>1. TabTyped' /\ RowsTyped' /\ OneAsked' /\ Asked'
    BY <1>1, <1>7 DEF ImportTyped, Forget, TabTyped, RowsTyped, OneAsked, Asked
  <2> QED
    BY <1>1, <1>7, <2>1 DEF Forget, ImportTyped, RequestTyped
<1> QED
  BY <1>2, <1>3, <1>5, <1>6, <1>7

\* A crash, a day, the sweeper and a recording keep the typing.
LEMMA ElseTyped ==
  ASSUME ImportTyped,
         \/ CrashServer \/ (SweepUploads /\ Local)
         \/ \E s \in Sessions : (Roll(s) \/ Unroll(s)) /\ Local
         \/ \E u \in UploadIds : DayPasses(u)
  PROVE  ImportTyped'
<1> USE DEF takes, files, remembered
<1>1. TabTyped /\ RowsTyped /\ \A g \in requests : RequestTyped(g)
  BY DEF ImportTyped
<1>2. ASSUME RowsTyped', UNCHANGED <<tab, memory, imported, unaware, requests>>
      PROVE  ImportTyped'
  BY <1>1, <1>2 DEF ImportTyped, TabTyped, OneAsked, Asked, RequestTyped
<1>3. CASE CrashServer
  <2>1. \A g \in requests' : RequestTyped(g)
    BY <1>1, <1>3, LeftTyped DEF CrashServer, ServerCrash
  <2>2. \A g \in requests' : \E h \in requests : h.heard /\ g.heard /\ g.op = h.op /\ g.of = h.of
                                  /\ (g = h \/ g = [h EXCEPT !.at = "lost"])
    BY <1>1, <1>3, LeftTyped DEF CrashServer, ServerCrash
  <2>3. Asked'
    BY <1>3, <2>2 DEF ImportTyped, CrashServer, Asked
  <2>4. OneAsked'
    BY <1>3, <2>2 DEF ImportTyped, CrashServer, ServerCrash, OneAsked
  <2>5. TabTyped'
    BY <1>1, <1>3, MissesTyped DEF CrashServer, TabTyped
  <2>6. RowsTyped'
    BY <1>1, <1>3 DEF CrashServer, ServerCrash, RowsTyped
  <2> QED
    BY <2>1, <2>3, <2>4, <2>5, <2>6 DEF ImportTyped, RequestTyped
<1>4. CASE SweepRows /\ Local
  BY <1>1, <1>2, <1>4 DEF SweepRows, Local, RowsTyped
<1>5. ASSUME NEW u \in UploadIds, SweepFile(u), Local
      PROVE  ImportTyped'
  BY <1>1, <1>2, <1>5 DEF SweepFile, Unstaged, Local, RowsTyped
<1>6. ASSUME NEW s \in Sessions, Roll(s) \/ Unroll(s), Local
      PROVE  ImportTyped'
  BY <1>1, <1>2, <1>6 DEF Roll, Unroll, Local, RowsTyped
<1>7. ASSUME NEW u \in UploadIds, DayPasses(u)
      PROVE  ImportTyped'
  <2>1. upload' = [upload EXCEPT ![u].live = FALSE] /\ UNCHANGED <<session, place, whole, listed>>
    BY <1>7 DEF DayPasses, ExpireUpload
  <2>2. RowsTyped'
    BY <1>1, <2>1 DEF RowsTyped
  <2> QED
    BY <1>2, <1>7, <2>2 DEF DayPasses, ExpireUpload
<1> QED
  BY <1>3, <1>4, <1>5, <1>6, <1>7 DEF SweepUploads

\* The types hold in the first state and are kept by every step.
LEMMA TypedInit == ImportInit => ImportTyped
<1> SUFFICES ASSUME ImportInit PROVE ImportTyped
  OBVIOUS
<1>1. RowsTyped
  BY DEF ImportInit, PartInit, RowsTyped, NoUpload
<1>2. TabTyped
  BY DEF ImportInit, TabTyped, NoRun
<1> QED
  BY <1>1, <1>2 DEF ImportInit, PartInit, ImportTyped, OneAsked, Asked

\* Every step of the import keeps the types.
LEMMA TypedNext == ImportTyped /\ [ImportNext]_importVars => ImportTyped'
<1> SUFFICES ASSUME ImportTyped, [ImportNext]_importVars
             PROVE  ImportTyped'
  OBVIOUS
<1>1. CASE UNCHANGED importVars
  BY <1>1 DEF importVars, partVars, ImportTyped, RowsTyped, TabTyped, OneAsked, Asked, RequestTyped
<1>2. CASE ImportNext
  BY <1>2, ServerTyped, TabSendsTyped, TabHearsTyped, LeavesTyped, ElseTyped DEF ImportNext
<1> QED
  BY <1>1, <1>2

-----------------------------------------------------------------------------
(* The import: takes are whole *)

\* While its staging file is not there yet, a new upload is named by no request but its own
\* and by answers that were lost, by no memory and by no take.
MadeAlone ==
  \A h \in requests : h.op = "create upload" /\ h.at = "made" =>
    /\ h.upload \notin {tab.upload, memory.upload} \cup listed
    /\ \A g \in requests : g # h /\ g.upload = h.upload => g.at = "lost"

\* A completion owns the blob from the rename until the take is anchored or deleted.
Owner(h) ==
  h.op = "complete" /\ h.at \in {"adopted", "listed", "spent", "anchoring", "refusing", "undone"}

\* What a completion hashed stays, an upload's blob has one owner, and a take has its blob.
Hashed ==
  \A h \in requests : Owner(h) \/ (h.op = "complete" /\ h.at \in {"hashed", "checked"})
                        => whole[h.upload] = Parts
Owners ==
  /\ \A h, g \in requests : Owner(h) /\ Owner(g) /\ h.upload = g.upload => h = g
  /\ \A h \in requests : Owner(h) =>
       place[h.upload] = "blob" /\ (h.at \in {"adopted", "undone"} => h.upload \notin listed)
Wholes == \A u \in listed : place[u] = "blob" /\ whole[u] = Parts

TakeInv == MadeAlone /\ Hashed /\ Owners /\ Wholes

\* What a handler's request becomes: the same, at one of the points A.
Turns(h, A) ==
  \E r : /\ r.op = h.op /\ r.upload = h.upload /\ r.of = h.of /\ r.heard = h.heard /\ r.at \in A
        /\ \A g \in requests' : g \in requests \ {h} \/ g = r

\* A handler that only goes on turns its request.
LEMMA TurnsTo ==
  ASSUME NEW h, RequestTyped(h), NEW A, NEW a \in A, Says(h, a) \/ Goes(h, a)
  PROVE  Turns(h, A)
<1> DEFINE r == [h EXCEPT !.at = a]
<1>1. /\ r.op = h.op /\ r.heard = h.heard /\ r.at = a /\ r.of = h.of /\ r.upload = h.upload
  BY DEF RequestTyped
<1>2. \A g \in requests' : g \in requests \ {h} \/ g = r
  BY DEF Says, Goes, Becomes, Reply
<1> HIDE DEF r
<1> QED
  BY <1>1, <1>2 DEF Turns

\* Takes are added and taken back by completions only.
LEMMA ServerLists ==
  ASSUME NEW h \in requests, Server(h)
  PROVE  listed' = listed \/ AddTake(h) \/ UndoTake(h)
BY DEF Server, Serve, Makes, takes, HideSession, ListAudio, CreateRefused, OpenStaging, Status,
   LoadForPart, WritePart, RecordPart, LoadForCompletion, Rehash, AbortStaging, FirstCheck, AdoptStaging,
   MarkComplete, SecondCheck, AnchorTake, DeleteUndone, CompletionFails, CreateSession, CreateUpload

\* A handler adds a take at most, its upload's.
LEMMA ServerListed ==
  ASSUME NEW h \in requests, Server(h)
  PROVE  /\ \A u \in listed' : u \in listed \/ (u = h.upload /\ At(h, "complete", "adopted"))
         /\ h.op # "complete" => listed' = listed
BY ServerLists DEF AddTake, UndoTake, At

\* A handler's step leaves a new upload alone.
LEMMA ServerMade ==
  ASSUME ImportTyped, MadeAlone, NEW h \in requests, Server(h)
  PROVE  MadeAlone'
<1>1. RowsTyped /\ RequestTyped(h)
  BY DEF ImportTyped
<1>2. PICK r : Replaced(h, r) /\ Moves(h, r)
  BY <1>1, ServerMoves
<1>3. UNCHANGED <<tab, memory>>
  BY DEF Server, Local, remembered
<1>4. \A u \in listed' : u \in listed \/ (u = h.upload /\ h.op = "complete")
  BY ServerListed DEF At
<1>5. SUFFICES ASSUME NEW g \in requests', g.op = "create upload", g.at = "made"
               PROVE  /\ g.upload \notin {tab.upload, memory.upload} \cup listed'
                      /\ \A f \in requests' : f # g /\ f.upload = g.upload => f.at = "lost"
  BY <1>3 DEF MadeAlone
<1>6. \A f \in requests' : f \in requests \ {h} \/ f = r
  BY <1>2 DEF Replaced
<1>7. CASE g = r
  <2>1. h.op = "create upload" /\ r.upload \notin {tab.upload, memory.upload} \cup listed
        /\ \A f \in requests : f.upload # r.upload
    BY <1>2, <1>5, <1>7 DEF Moves
  <2> QED
    BY <1>4, <1>6, <1>7, <2>1
<1>8. CASE g # r
  <2>1. g \in requests /\ g # h
    BY <1>5, <1>6, <1>8
  <2>2. h.upload # g.upload
    BY <1>2, <1>5, <2>1 DEF MadeAlone, Moves, AnswerPoints
  <2>3. r.upload # g.upload
    BY <1>2, <2>1, <2>2 DEF Moves
  <2> QED
    BY <1>4, <1>5, <1>6, <2>1, <2>2, <2>3 DEF MadeAlone
<1> QED
  BY <1>7, <1>8

\* What is true of completions and of the takes they made.
Takings == Hashed /\ Owners /\ Wholes

\* A step that leaves files and takes alone keeps both, if no completion moves.
LEMMA OthersTake ==
  ASSUME Takings, UNCHANGED <<place, whole, listed>>,
         \A g \in requests' : g \in requests \/ g.op # "complete"
  PROVE  Takings'
BY DEF Takings, Hashed, Owners, Wholes, Owner

\* A completion that goes on, short of the rename or a refusal, keeps both.
LEMMA GoesTake ==
  ASSUME Takings, NEW h \in requests, NEW A, Turns(h, A), UNCHANGED <<place, whole, listed>>,
         A \cap {"hashed", "checked"} # {} => whole[h.upload] = Parts,
         A \cap {"listed", "spent", "anchoring", "refusing"} # {} => Owner(h),
         "adopted" \notin A /\ "undone" \notin A
  PROVE  Takings'
<1>1. PICK r : /\ r.op = h.op /\ r.upload = h.upload /\ r.at \in A
               /\ \A g \in requests' : g \in requests \ {h} \/ g = r
  BY DEF Turns
<1>2. Owner(r) => Owner(h) /\ r.at \notin {"adopted", "undone"}
  BY <1>1 DEF Owner
<1>3. Hashed'
  BY <1>1, <1>2 DEF Takings, Hashed, Owner
<1>4. Owners'
  BY <1>1, <1>2 DEF Takings, Owners, Owner
<1> QED
  BY <1>3, <1>4 DEF Takings, Wholes

\* Opening a staging file, and writing into it.
LEMMA StagingTake ==
  ASSUME ImportTyped, MadeAlone, Takings, NEW h \in requests, OpenStaging(h) \/ WritePart(h)
  PROVE  Takings'
<1>1. RequestTyped(h) /\ RowsTyped
  BY DEF ImportTyped
<1>2. \A g \in requests' : g \in requests \/ g.op # "complete"
  <2>1. \E a \in Points : Says(h, a) \/ Goes(h, a)
    BY DEF OpenStaging, WritePart, Points, AnswerPoints
  <2>2. h.op # "complete"
    BY DEF OpenStaging, WritePart, At
  <2> QED
    BY <1>1, <2>1, <2>2, TurnsTo DEF Turns
<1>3. CASE OpenStaging(h)
  <2>1. h.upload \notin listed /\ \A g \in requests : g # h /\ g.upload = h.upload => g.at = "lost"
    BY <1>3 DEF OpenStaging, At, MadeAlone
  <2>2. \A u \in UploadIds \ {h.upload} : place'[u] = place[u] /\ whole'[u] = whole[u]
    BY <1>1, <1>3 DEF OpenStaging, RowsTyped
  <2>3. \A g \in requests' : g.op = "complete" => g \in requests /\ g # h
    BY <1>2, <1>3 DEF OpenStaging, At
  <2>4. listed' = listed
    BY <1>3 DEF OpenStaging, takes
  <2>5. \A g \in requests' : Owner(g) \/ (g.op = "complete" /\ g.at \in {"hashed", "checked"})
                              => g \in requests /\ g.upload \in UploadIds \ {h.upload}
    BY <2>1, <2>3 DEF ImportTyped, RequestTyped, Owner
  <2>6. listed \subseteq UploadIds \ {h.upload}
    BY <1>1, <2>1 DEF RowsTyped
  <2> QED
    BY <2>2, <2>4, <2>5, <2>6 DEF Takings, Hashed, Owners, Wholes, Owner
<1>4. CASE WritePart(h)
  <2>1. UNCHANGED <<place, listed>> /\ \A u \in UploadIds : whole[u] = Parts => whole'[u] = Parts
    <3>1. h.upload \in UploadIds /\ h.part \in Parts
      BY <1>1, <1>4 DEF WritePart, At, RequestTyped
    <3>2. \/ whole' = whole
          \/ whole' = [whole EXCEPT ![h.upload] = whole[h.upload] \cup {h.part}]
      BY <1>4 DEF WritePart
    <3>3. UNCHANGED <<place, listed>>
      BY <1>4 DEF WritePart, takes
    <3>4. whole[h.upload] = Parts => whole[h.upload] \cup {h.part} = Parts
      BY <3>1
    <3>5. ASSUME NEW u \in UploadIds, whole[u] = Parts
          PROVE  whole'[u] = Parts
      BY <1>1, <3>1, <3>2, <3>4, <3>5 DEF RowsTyped
    <3> QED
      BY <3>3, <3>5
  <2>2. \A g \in requests : g.op = "complete" => g.upload \in UploadIds
    BY DEF ImportTyped, RequestTyped
  <2> QED
    BY <1>1, <1>2, <2>1, <2>2 DEF Takings, Hashed, Owners, Wholes, Owner, RowsTyped
<1> QED
  BY <1>3, <1>4

\* The staged file becomes the blob, or is removed.
LEMMA AdoptTake ==
  ASSUME ImportTyped, Takings, NEW h \in requests, AdoptStaging(h) \/ AbortStaging(h)
  PROVE  Takings'
<1>1. RequestTyped(h) /\ RowsTyped /\ h.upload \in UploadIds
  BY DEF ImportTyped, AdoptStaging, AbortStaging, At, RequestTyped
<1>2. \A g \in requests : g.op = "complete" => g.upload \in UploadIds
  BY DEF ImportTyped, RequestTyped
<1>3. UNCHANGED <<whole, listed>>
  BY DEF AdoptStaging, AbortStaging, takes
<1>4. \A u \in UploadIds : place[u] = "blob" => place'[u] = "blob"
  BY <1>1 DEF AdoptStaging, AbortStaging, Unstaged, RowsTyped
<1>5. CASE AbortStaging(h) \/ (AdoptStaging(h) /\ Says(h, "failed"))
  <2>1. PICK r : /\ r.op = h.op /\ r.upload = h.upload /\ r.at \in {"bad", "failed"}
                 /\ \A g \in requests' : g \in requests \ {h} \/ g = r
    <3>1. Turns(h, {"bad", "failed"})
      BY <1>1, <1>5, TurnsTo DEF AbortStaging
    <3> QED
      BY <3>1 DEF Turns
  <2>2. ~Owner(r) /\ r.at \notin {"hashed", "checked"}
    BY <2>1 DEF Owner
  <2> QED
    BY <1>1, <1>2, <1>3, <1>4, <2>1, <2>2 DEF Takings, Hashed, Owners, Wholes, Owner, RowsTyped
<1>6. CASE /\ AdoptStaging(h) /\ place[h.upload] = "staged" /\ Goes(h, "adopted")
           /\ place' = [place EXCEPT ![h.upload] = "blob"]
  <2>1. PICK r : /\ r.op = h.op /\ r.upload = h.upload /\ r.at = "adopted"
                 /\ \A g \in requests' : g \in requests \ {h} \/ g = r
    <3>1. Turns(h, {"adopted"})
      BY <1>1, <1>6, TurnsTo
    <3> QED
      BY <3>1 DEF Turns
  <2>2. h.op = "complete" /\ h.at = "checked" /\ whole[h.upload] = Parts
    BY <1>6 DEF AdoptStaging, At, Takings, Hashed
  <2>3. h.upload \notin listed /\ \A g \in requests : Owner(g) => g.upload # h.upload
    BY <1>6 DEF Takings, Owners, Wholes
  <2>4. place'[h.upload] = "blob"
    BY <1>1, <1>6 DEF RowsTyped
  <2>5. Hashed'
    BY <1>3, <2>1, <2>2 DEF Takings, Hashed, Owner
  <2>6. Owners'
    BY <1>2, <1>3, <1>4, <2>1, <2>3, <2>4 DEF Takings, Owners, Owner
  <2>7. Wholes'
    BY <1>1, <1>3, <1>4 DEF Takings, Wholes, RowsTyped
  <2> QED
    BY <2>5, <2>6, <2>7 DEF Takings
<1> QED
  BY <1>5, <1>6 DEF AdoptStaging

\* The take becomes a row, is taken back, or is not added.
LEMMA AddedTake ==
  ASSUME ImportTyped, Takings, NEW h \in requests,
         AddTake(h) \/ UndoTake(h) \/ DeleteUndone(h)
  PROVE  Takings'
<1>1. RequestTyped(h) /\ RowsTyped /\ h.upload \in UploadIds
  BY DEF ImportTyped, AddTake, UndoTake, DeleteUndone, At, RequestTyped
<1>2. \A g \in requests : g.op = "complete" => g.upload \in UploadIds
  BY DEF ImportTyped, RequestTyped
<1>3. Owner(h) /\ whole' = whole
  BY DEF AddTake, UndoTake, DeleteUndone, At, Owner, files
<1>4. /\ whole[h.upload] = Parts /\ place[h.upload] = "blob"
      /\ \A g \in requests \ {h} : Owner(g) => g.upload # h.upload
      /\ h.at \in {"adopted", "undone"} => h.upload \notin listed
  BY <1>3 DEF Takings, Hashed, Owners
<1>5. CASE /\ place' = [place EXCEPT ![h.upload] = "none"] /\ UNCHANGED listed
           /\ h.at \in {"adopted", "undone"} /\ Says(h, "failed")
  <2>1. PICK r : /\ r.op = h.op /\ r.upload = h.upload /\ r.at = "failed"
                 /\ \A g \in requests' : g \in requests \ {h} \/ g = r
    <3>1. Turns(h, {"failed"})
      BY <1>1, <1>5, TurnsTo
    <3> QED
      BY <3>1 DEF Turns
  <2>2. ~Owner(r) /\ r.at \notin {"hashed", "checked"}
    BY <2>1 DEF Owner
  <2>3. \A u \in UploadIds \ {h.upload} : place'[u] = place[u]
    BY <1>1, <1>5 DEF RowsTyped
  <2>4. Hashed'
    BY <1>3, <2>1, <2>2 DEF Takings, Hashed, Owner
  <2>5. Owners'
    BY <1>2, <1>4, <1>5, <2>1, <2>2, <2>3 DEF Takings, Owners, Owner
  <2>6. Wholes'
    BY <1>1, <1>3, <1>4, <1>5, <2>3 DEF Takings, Wholes, RowsTyped
  <2> QED
    BY <2>4, <2>5, <2>6 DEF Takings
<1>6. CASE /\ UNCHANGED place /\ listed' = listed \cup {h.upload} /\ Goes(h, "listed")
  <2>1. PICK r : /\ r.op = h.op /\ r.upload = h.upload /\ r.at = "listed"
                 /\ \A g \in requests' : g \in requests \ {h} \/ g = r
    <3>1. Turns(h, {"listed"})
      BY <1>1, <1>6, TurnsTo
    <3> QED
      BY <3>1 DEF Turns
  <2>2. Hashed'
    BY <1>3, <1>4, <2>1 DEF Takings, Hashed, Owner
  <2>3. Owners'
    BY <1>4, <1>6, <2>1 DEF Takings, Owners, Owner
  <2>4. Wholes'
    BY <1>3, <1>4, <1>6 DEF Takings, Wholes
  <2> QED
    BY <2>2, <2>3, <2>4 DEF Takings
<1>7. CASE /\ UNCHANGED place /\ listed' = listed \ {h.upload} /\ Goes(h, "undone")
  <2>1. PICK r : /\ r.op = h.op /\ r.upload = h.upload /\ r.at = "undone"
                 /\ \A g \in requests' : g \in requests \ {h} \/ g = r
    <3>1. Turns(h, {"undone"})
      BY <1>1, <1>7, TurnsTo
    <3> QED
      BY <3>1 DEF Turns
  <2>2. Hashed'
    BY <1>3, <1>4, <2>1 DEF Takings, Hashed, Owner
  <2>3. Owners'
    BY <1>4, <1>7, <2>1 DEF Takings, Owners, Owner
  <2>4. Wholes'
    BY <1>3, <1>7 DEF Takings, Wholes
  <2> QED
    BY <2>2, <2>3, <2>4 DEF Takings
<1> QED
  BY <1>5, <1>6, <1>7 DEF AddTake, UndoTake, DeleteUndone, DropBlob, At, takes, files

\* Every step of a handler keeps the takes whole.
LEMMA ServerTake ==
  ASSUME ImportTyped, MadeAlone, Takings, NEW h \in requests, Server(h)
  PROVE  Takings'
<1> USE DEF takes, files
<1>1. RequestTyped(h) /\ RowsTyped
  BY DEF ImportTyped
<1>2. CASE h.op # "complete" /\ UNCHANGED <<place, whole, listed>>
  <2>1. PICK r : Replaced(h, r) /\ Moves(h, r)
    BY <1>1, ServerMoves
  <2> QED
    BY <1>2, <2>1, OthersTake DEF Replaced, Moves
<1>3. ASSUME NEW A, Turns(h, A), UNCHANGED <<place, whole, listed>>,
             A \cap {"hashed", "checked"} # {} => whole[h.upload] = Parts,
             A \cap {"listed", "spent", "anchoring", "refusing"} # {} => Owner(h),
             "adopted" \notin A /\ "undone" \notin A
      PROVE  Takings'
  BY <1>3, GoesTake
<1>4. CASE LoadForCompletion(h)
  <2>1. Turns(h, {"unknown", "missing", "loaded"})
    BY <1>1, <1>4, TurnsTo DEF LoadForCompletion
  <2> QED
    BY <1>3, <1>4, <2>1 DEF LoadForCompletion
<1>5. CASE Rehash(h) /\ whole[h.upload] = Parts
  <2>1. Turns(h, {"failed", "hashed", "aborting"})
    BY <1>1, <1>5, TurnsTo DEF Rehash
  <2> QED
    BY <1>3, <1>5, <2>1 DEF Rehash
<1>6. CASE Rehash(h) /\ whole[h.upload] # Parts
  <2>1. Turns(h, {"failed", "aborting"})
    BY <1>1, <1>6, TurnsTo DEF Rehash
  <2> QED
    BY <1>3, <1>6, <2>1 DEF Rehash
<1>7. CASE FirstCheck(h)
  <2>1. Turns(h, {"rolling", "checked"})
    BY <1>1, <1>7, TurnsTo DEF FirstCheck
  <2>2. whole[h.upload] = Parts
    BY <1>7 DEF FirstCheck, At, Takings, Hashed
  <2> QED
    BY <1>3, <1>7, <2>1, <2>2 DEF FirstCheck
<1>8. CASE MarkComplete(h)
  <2>1. Turns(h, {"spent"})
    BY <1>1, <1>8, TurnsTo DEF MarkComplete
  <2>2. Owner(h)
    BY <1>8 DEF MarkComplete, At, Owner
  <2> QED
    BY <1>3, <1>8, <2>1, <2>2 DEF MarkComplete
<1>9. CASE HideSession(h) \/ ListAudio(h) \/ CreateRefused(h) \/ Status(h) \/ LoadForPart(h) \/ RecordPart(h)
  BY <1>2, <1>9 DEF HideSession, ListAudio, CreateRefused, Status, LoadForPart, RecordPart, At
<1>10. CASE Makes(h)
  BY <1>2, <1>10 DEF Makes, CreateSession, CreateUpload, At
<1>11. CASE SecondCheck(h) \/ AnchorTake(h) \/ CompletionFails(h)
  <2>1. Turns(h, {"refusing", "anchoring", "ok", "failed"})
    BY <1>1, <1>11, TurnsTo DEF SecondCheck, AnchorTake, CompletionFails
  <2>2. Owner(h)
    BY <1>11 DEF SecondCheck, AnchorTake, CompletionFails, At, Owner
  <2> QED
    BY <1>3, <1>11, <2>1, <2>2 DEF SecondCheck, AnchorTake, CompletionFails
<1> QED
  BY <1>4, <1>5, <1>6, <1>7, <1>8, <1>9, <1>10, <1>11, StagingTake, AdoptTake, AddedTake DEF Server, Serve

-----------------------------------------------------------------------------
\* What is left of the requests when the tab moves: those there were, some of which it no longer
\* hears, answers that are lost, and what it sends, which names an upload it knows or none.
Follows(g, h) == g = h \/ (h.heard /\ h \notin requests' /\ g = [h EXCEPT !.heard = FALSE])
TabMoves ==
  \A g \in requests' : \/ \E h \in requests : Follows(g, h)
                       \/ g.at = "lost"
                       \/ g.at = "sent" /\ g.upload \in {tab.upload, memory.upload, Unnamed}

\* An upload the tab or its memory names had an answer that named it.
TabKnows ==
  \A u \in {tab.upload, memory.upload}' :
    \/ u \in {tab.upload, memory.upload, Unnamed}
    \/ \E h \in requests : h.at = "ok" /\ h.upload = u

\* What the tab does keeps takes whole.
LEMMA TabTake ==
  ASSUME ImportTyped, TakeInv, Elsewhere, TabMoves, TabKnows
  PROVE  TakeInv'
<1>1. \A g \in requests : RequestTyped(g)
  BY DEF ImportTyped
<1>2. \A g \in requests', h \in requests :
        Follows(g, h) => g.op = h.op /\ g.at = h.at /\ g.upload = h.upload
  BY <1>1 DEF Follows, RequestTyped
<1>3. \A f, g \in requests', h \in requests : Follows(f, h) /\ Follows(g, h) => f = g
  BY DEF Follows
<1>4. MadeAlone'
  <2>1. SUFFICES ASSUME NEW g \in requests', g.op = "create upload", g.at = "made"
                 PROVE  /\ g.upload \notin {tab.upload, memory.upload}' \cup listed'
                        /\ \A f \in requests' : f # g /\ f.upload = g.upload => f.at = "lost"
    BY DEF MadeAlone
  <2>2. PICK h \in requests : Follows(g, h)
    BY <2>1 DEF TabMoves
  <2>3. /\ g.upload \notin {tab.upload, memory.upload, Unnamed} \cup listed
        /\ \A f \in requests : f # h /\ f.upload = g.upload => f.at = "lost"
    <3>1. h.op = "create upload" /\ h.at = "made" /\ h.upload = g.upload
      BY <1>2, <2>1, <2>2
    <3>2. h.upload \in UploadIds
      BY <1>1, <3>1 DEF RequestTyped
    <3> QED
      BY <3>1, <3>2, PartsAssumption DEF MadeAlone, TakeInv
  <2>4. g.upload \notin {tab.upload, memory.upload}'
    <3>1. \A f \in requests : f.upload = g.upload => f.at # "ok"
      BY <1>2, <2>1, <2>2, <2>3
    <3> QED
      BY <2>3, <3>1 DEF TabKnows
  <2>5. ASSUME NEW f \in requests', f # g, f.upload = g.upload
        PROVE  f.at = "lost"
    BY <1>2, <1>3, <2>2, <2>3, <2>5 DEF TabMoves
  <2> QED
    BY <2>3, <2>4, <2>5 DEF Elsewhere
<1>5. ASSUME NEW g \in requests', Owner(g) \/ (g.op = "complete" /\ g.at \in {"hashed", "checked"})
      PROVE  \E h \in requests : Follows(g, h)
  BY <1>5 DEF TabMoves, Owner
<1>6. Hashed'
  BY <1>2, <1>5 DEF TakeInv, Hashed, Owner, Elsewhere
<1>7. Owners'
  BY <1>2, <1>3, <1>5 DEF TakeInv, Owners, Owner, Elsewhere
<1>8. Wholes'
  BY DEF TakeInv, Wholes, Elsewhere
<1> QED
  BY <1>4, <1>6, <1>7, <1>8 DEF TakeInv

\* What the tab sends and hears, and how it is interrupted, are such moves.
LEMMA SendMoves ==
  ASSUME NEW h, NEW op, NEW s, NEW u, NEW n, Sends(h, op, s, u, n),
         u \in {tab.upload, memory.upload, Unnamed}
  PROVE  TabMoves
<1>1. Request(op, s, u, n).at = "sent" /\ Request(op, s, u, n).upload = u
  BY DEF Request
<1> QED
  BY <1>1 DEF Sends, TabMoves, Follows

\* A step of the tab keeps takes whole.
LEMMA TabStepsTake ==
  ASSUME ImportTyped, TakeInv, TabSends \/ \E h \in requests : TabHears(h)
  PROVE  TakeInv'
<1> USE DEF Quiet, kept, files, remembered
<1>1. \A g \in requests : RequestTyped(g)
  BY DEF ImportTyped
<1>2. Elsewhere
  BY DEF Elsewhere, TabSends, TabHears, Begin, RefetchSessions, Recall, SendPart, Complete, Checked,
     Created, Recalled, Started, PartAnswered, Reread, Completed, Undone
<1>3. TabTyped
  BY DEF ImportTyped
<1>4. TabMoves
  <2>1. ASSUME NEW h, Takes(h) PROVE TabMoves
    BY <2>1 DEF Takes, TabMoves, Follows
  <2>2. ASSUME UNCHANGED requests PROVE TabMoves
    BY <2>2 DEF TabMoves, Follows
  <2>3. CASE Begin
    BY <2>2, <2>3, SendMoves DEF Begin
  <2>4. CASE RefetchSessions \/ Recall
    BY <2>2, <2>4, SendMoves DEF RefetchSessions, Recall, Undo, StartUpload
  <2>5. CASE Complete \/ \E n \in Parts : SendPart(n)
    BY <2>5, SendMoves DEF Complete, SendPart
  <2>6. ASSUME NEW h \in requests, Checked(h) \/ Created(h) \/ Reread(h) \/ Undone(h)
        PROVE  TabMoves
    BY <2>1, <2>6 DEF Checked, Created, Reread, Undone
  <2>7. ASSUME NEW h \in requests, Recalled(h) \/ Started(h) \/ Completed(h)
        PROVE  TabMoves
    BY <2>1, <2>7, SendMoves DEF Recalled, Started, Completed, Undo, StartUpload
  <2>8. ASSUME NEW h \in requests, PartAnswered(h)
        PROVE  TabMoves
    <3>1. Takes(h) \/ Undo(h) \/ Sends(h, "status", tab.of, tab.upload, Unnamed)
      BY <2>8 DEF PartAnswered
    <3> QED
      BY <2>1, <3>1, SendMoves DEF Undo
  <2> QED
    BY <2>3, <2>4, <2>5, <2>6, <2>7, <2>8 DEF TabSends, TabHears
<1>5. TabKnows
  <2>1. NoRun.upload = Unnamed /\ NoMemory.upload = Unnamed
    BY DEF NoRun, NoMemory
  <2>2. ASSUME tab'.upload \in {tab.upload, memory.upload, Unnamed},
               memory' = memory \/ memory' = NoMemory
        PROVE  TabKnows
    BY <2>1, <2>2 DEF TabKnows
  <2>3. CASE TabSends
    <3>1. tab'.upload \in {tab.upload, memory.upload, Unnamed}
      BY <1>3, <2>1, <2>3 DEF TabSends, Begin, RefetchSessions, Recall, SendPart, Complete, Undo, StartUpload,
         TabTyped, NoRun
    <3>2. memory' = memory \/ memory' = NoMemory
      BY <2>3 DEF TabSends, Begin, RefetchSessions, Recall, SendPart, Complete, Undo, StartUpload
    <3> QED
      BY <2>2, <3>1, <3>2
  <2>4. ASSUME NEW h \in requests, TabHears(h), ~(Started(h) /\ h.at = "ok")
        PROVE  TabKnows
    <3>1. \/ tab' = NoRun \/ tab'.upload = tab.upload
      BY <1>3, <2>4 DEF TabHears, Checked, Created, Recalled, Started, PartAnswered, Reread, Completed, Undone,
         Rest, Undo, StartUpload, TabTyped
    <3>2. memory' = memory \/ memory' = NoMemory
      BY <2>4 DEF TabHears, Checked, Created, Recalled, Started, PartAnswered, Reread, Completed, Undone,
         Undo, StartUpload
    <3> QED
      BY <2>1, <2>2, <3>1, <3>2
  <2>5. ASSUME NEW h \in requests, Started(h), h.at = "ok"
        PROVE  TabKnows
    <3>1. tab'.upload = h.upload /\ memory'.upload = h.upload
      <4>1. /\ tab' = [tab EXCEPT !.at = "sending", !.upload = h.upload]
            /\ memory' = [upload |-> h.upload, of |-> tab.of]
        BY <2>5 DEF Started
      <4> QED
        BY <1>3, <4>1 DEF TabTyped
    <3> QED
      BY <2>5, <3>1 DEF TabKnows
  <2> QED
    BY <2>3, <2>4, <2>5
<1> QED
  BY <1>2, <1>4, <1>5, TabTake

\* Interruptions keep takes whole.
LEMMA LeavesTake ==
  ASSUME ImportTyped, TakeInv,
         \/ \E h \in requests : AnswerLost(h) \/ NeverArrives(h)
         \/ ClosePage \/ Abort \/ Forget
  PROVE  TakeInv'
<1> USE DEF kept, files, remembered
<1>1. \A g \in requests : RequestTyped(g)
  BY DEF ImportTyped
<1>2. Elsewhere
  BY DEF Elsewhere, AnswerLost, NeverArrives, ClosePage, Abort, Forget
<1>3. \A h \in requests : [h EXCEPT !.heard = FALSE].heard = FALSE /\ [h EXCEPT !.at = "lost"].at = "lost"
  BY <1>1 DEF RequestTyped
<1>4. TabMoves
  <2>1. ASSUME NEW h \in requests, AnswerLost(h)
        PROVE  TabMoves
    <3>1. PICK gone, lost : /\ gone = [h EXCEPT !.heard = FALSE] /\ lost = [h EXCEPT !.at = "lost"]
                            /\ requests' = (requests \ {h}) \cup {gone, lost}
      BY <2>1 DEF AnswerLost
    <3>2. lost.at = "lost" /\ gone.heard = FALSE
      BY <1>3, <3>1
    <3>3. h.heard /\ h.at # "lost"
      BY <2>1 DEF AnswerLost, Pending, WithAnswer, AnswerPoints
    <3>4. h \notin requests'
      BY <3>1, <3>2, <3>3
    <3> QED
      BY <3>1, <3>2, <3>3, <3>4 DEF TabMoves, Follows
  <2>2. ASSUME NEW R, \A g \in R : g.at = "sent" /\ g.upload = Unnamed /\ g \notin Pending,
               \A g \in requests' : \/ g \in requests \ Pending \/ g \in R
                                   \/ \E h \in Pending : g = [h EXCEPT !.heard = FALSE]
        PROVE  TabMoves
    <3>1. \A g \in requests' : \/ g \in requests \ Pending \/ g \in R
                               \/ \E h \in Pending : g = [h EXCEPT !.heard = FALSE]
      BY <2>2
    <3>2. \A h \in Pending : h \in requests /\ h.heard
      BY DEF Pending
    <3>3. \A h \in Pending : h \notin requests'
      BY <1>3, <2>2, <3>1, <3>2
    <3> QED
      BY <2>2, <3>1, <3>2, <3>3 DEF TabMoves, Follows
  <2>3. ASSUME Abandon PROVE TabMoves
    <3>1. PICK R : R = {}
      OBVIOUS
    <3>2. \A g \in requests' : \/ g \in requests \ Pending \/ g \in R
                               \/ \E h \in Pending : g = [h EXCEPT !.heard = FALSE]
      BY <2>3 DEF Abandon
    <3>3. \A g \in R : g.at = "sent" /\ g.upload = Unnamed /\ g \notin Pending
      BY <3>1
    <3> QED
      BY <2>2, <3>2, <3>3
  <2>4. CASE Abort /\ ~Abandon
    <3>1. PICK q : q = Request("hide session", tab.of, Unnamed, Unnamed)
      OBVIOUS
    <3>2. q.op = "hide session" /\ q.at = "sent" /\ q.upload = Unnamed
      BY <3>1 DEF Request
    <3>3. q \notin Pending
      <4>1. \A g \in Pending : tab.at \in DOMAIN OpOf /\ g.op = OpOf[tab.at]
        BY DEF ImportTyped, Asked, Pending
      <4>2. tab.at # "undoing"
        BY <2>4 DEF Abort
      <4> QED
        BY <3>2, <4>1, <4>2, StepOps
    <3>4. PICK R : R = {q}
      OBVIOUS
    <3>5. \A g \in requests' : \/ g \in requests \ Pending \/ g \in R
                               \/ \E h \in Pending : g = [h EXCEPT !.heard = FALSE]
      BY <2>4, <3>1, <3>4 DEF Abort
    <3>6. \A g \in R : g.at = "sent" /\ g.upload = Unnamed /\ g \notin Pending
      BY <3>2, <3>3, <3>4
    <3> QED
      BY <2>2, <3>5, <3>6
  <2>5. CASE Forget \/ \E h \in requests : NeverArrives(h)
    BY <2>5 DEF Forget, NeverArrives, Takes, TabMoves, Follows
  <2> QED
    BY <2>1, <2>3, <2>4, <2>5 DEF ClosePage
<1>5. TabKnows
  <2>1. NoRun.upload = Unnamed /\ NoMemory.upload = Unnamed
    BY DEF NoRun, NoMemory
  <2>2. tab'.upload \in {tab.upload, Unnamed} /\ (memory' = memory \/ memory' = NoMemory)
    <3>1. tab' = NoRun \/ tab' = tab \/ tab' = [tab EXCEPT !.at = "undoing"]
      BY DEF AnswerLost, NeverArrives, ClosePage, Abort, Forget, Rest
    <3>2. memory' = memory \/ memory' = NoMemory
      BY DEF AnswerLost, NeverArrives, ClosePage, Abort, Forget
    <3> QED
      BY <2>1, <3>1, <3>2 DEF ImportTyped, TabTyped
  <2> QED
    BY <2>1, <2>2 DEF TabKnows
<1> QED
  BY <1>2, <1>4, <1>5, TabTake

\* A crash, a day, the sweeper and a recording keep takes whole.
LEMMA ElseTake ==
  ASSUME ImportTyped, TakeInv,
         \/ CrashServer \/ (SweepUploads /\ Local)
         \/ \E s \in Sessions : (Roll(s) \/ Unroll(s)) /\ Local
         \/ \E u \in UploadIds : DayPasses(u)
  PROVE  TakeInv'
<1> USE DEF takes, files, remembered
<1>1. RowsTyped /\ \A g \in requests : RequestTyped(g)
  BY DEF ImportTyped
<1>2. ASSUME UNCHANGED <<tab, memory, requests, place, whole, listed>>
      PROVE  TakeInv'
  BY <1>2 DEF TakeInv, MadeAlone, Hashed, Owners, Wholes, Owner
<1>3. CASE CrashServer
  <2>1. \A g \in requests' : g.at \in AnswerPoints
    <3>1. \A g \in requests : [g EXCEPT !.at = "lost"].at = "lost"
      BY <1>1 DEF RequestTyped
    <3> QED
      BY <1>3, <3>1 DEF CrashServer, ServerCrash, WithAnswer, AnswerPoints
  <2>2. \A g \in requests' : /\ ~Owner(g) /\ g.at # "made"
                             /\ ~(g.op = "complete" /\ g.at \in {"hashed", "checked"})
    BY <2>1 DEF Owner, AnswerPoints
  <2>3. Wholes'
    <3>1. place' = place /\ listed' = listed
      BY <1>3 DEF CrashServer, ServerCrash
    <3>2. \A u \in UploadIds : place[u] = "blob" => whole'[u] = whole[u]
      BY <1>3 DEF CrashServer, ServerCrash
    <3> QED
      BY <1>1, <3>1, <3>2 DEF TakeInv, Wholes, RowsTyped
  <2> QED
    BY <2>2, <2>3 DEF TakeInv, MadeAlone, Hashed, Owners
<1>4. CASE SweepRows /\ Local
  BY <1>2, <1>4 DEF SweepRows, Local
<1>5. ASSUME NEW u \in UploadIds, SweepFile(u), Local
      PROVE  TakeInv'
  <2>1. \A v \in UploadIds : place[v] = "blob" => place'[v] = "blob"
    BY <1>1, <1>5 DEF SweepFile, Unstaged, RowsTyped
  <2>2. UNCHANGED <<tab, memory, requests, whole, listed>>
    BY <1>5 DEF SweepFile, Local
  <2>3. \A g \in requests : g.op = "complete" => g.upload \in UploadIds
    BY <1>1 DEF RequestTyped
  <2> QED
    BY <1>1, <2>1, <2>2, <2>3 DEF TakeInv, MadeAlone, Hashed, Owners, Wholes, Owner, RowsTyped
<1>6. ASSUME NEW s \in Sessions, Roll(s) \/ Unroll(s), Local
      PROVE  TakeInv'
  BY <1>2, <1>6 DEF Roll, Unroll, Local
<1>7. ASSUME NEW u \in UploadIds, DayPasses(u)
      PROVE  TakeInv'
  BY <1>2, <1>7 DEF DayPasses, ExpireUpload
<1> QED
  BY <1>3, <1>4, <1>5, <1>6, <1>7 DEF SweepUploads

\* The takes are whole from the first state on.
LEMMA TakeInit == ImportInit => TakeInv
BY DEF ImportInit, PartInit, TakeInv, MadeAlone, Hashed, Owners, Wholes

\* Every step of the import keeps takes whole.
LEMMA TakeNext == ImportTyped /\ TakeInv /\ [ImportNext]_importVars => TakeInv'
<1> SUFFICES ASSUME ImportTyped, TakeInv, [ImportNext]_importVars
             PROVE  TakeInv'
  OBVIOUS
<1>1. CASE UNCHANGED importVars
  BY <1>1 DEF importVars, partVars, TakeInv, MadeAlone, Hashed, Owners, Wholes, Owner
<1>2. ASSUME NEW h \in requests, Server(h)
      PROVE  TakeInv'
  BY <1>2, ServerMade, ServerTake DEF TakeInv, Takings
<1> QED
  BY <1>1, <1>2, TabStepsTake, LeavesTake, ElseTake DEF ImportNext

\* A take that a session lists has all of its bytes in its blob (addImportedAfterBlob, the
\* re-hash before it, and the rename that only one of two completions gets).
THEOREM TakesWhole == ImportSpec => []TakeWhole
<1>1. ImportTyped /\ TakeInv => TakeWhole
  BY DEF TakeInv, Wholes, TakeWhole
<1> QED
  BY <1>1, TypedInit, TypedNext, TakeInit, TakeNext, PTL DEF ImportSpec

-----------------------------------------------------------------------------
(* The import: one take *)

\* As long as the tab heard of every completion and deletion, it hears those in progress.
AllHeard == ~unaware => \A h \in requests : h.op \in {"complete", "hide session"} => h.heard

\* The session of a completion that was let in stays shown, and its row the session's.
LetIn(h) == h.op = "complete" /\ h.at \notin (AnswerPoints \ {"ok"}) \cup {"sent"}
StaysShown == ~unaware => \A h \in requests : LetIn(h) => Shown(h.of) /\ upload[h.upload].of = h.of

\* The one take is that of a finished import or of the completion in progress.
Done ==
  /\ tab.at = "rest" /\ memory = NoMemory /\ imported = Unnamed
  /\ \E u \in listed : listed = {u} /\ upload[u].of \in Sessions /\ Shown(upload[u].of)
Finishes(h) ==
  /\ h.op = "complete" /\ h.at \in {"listed", "spent", "anchoring", "refusing", "ok"}
  /\ listed = {h.upload}
OneTake == ~unaware /\ ~halfway => listed = {} \/ Done \/ \E h \in requests : Finishes(h)

OnceInv == AllHeard /\ StaysShown /\ OneTake

\* A handler hides only what it was asked to, and gives no row away that is in use.
LEMMA ServerKeeps ==
  ASSUME ImportTyped, NEW h \in requests, Server(h)
  PROVE  /\ h.op # "hide session" => \A s \in Sessions : Shown(s) => Shown(s)'
         /\ \A u \in UploadIds : u \in listed \/ (\E g \in requests : g.upload = u)
                                 => upload'[u].of = upload[u].of
<1> USE DEF takes, files
<1>1. RowsTyped /\ RequestTyped(h)
  BY DEF ImportTyped
<1>2. CASE UNCHANGED <<session, upload>>
  BY <1>2 DEF Shown
<1>3. CASE HideSession(h)
  BY <1>3 DEF HideSession, At
<1>4. CASE RecordPart(h) \/ Rehash(h) \/ MarkComplete(h)
  <2>1. session' = session /\ h.upload \in UploadIds
    BY <1>1, <1>4 DEF RecordPart, Rehash, MarkComplete, At, RequestTyped
  <2>2. PICK st, got : /\ st = IF Open(h.upload) THEN "complete" ELSE upload[h.upload].status
                       /\ got = upload[h.upload].received \cup {h.part}
    OBVIOUS
  <2>3. \/ upload' = upload
        \/ upload' = [upload EXCEPT ![h.upload].received = got]
        \/ upload' = [upload EXCEPT ![h.upload].status = "removed"]
        \/ upload' = [upload EXCEPT ![h.upload].status = st]
    BY <1>4, <2>2 DEF RecordPart, Rehash, MarkComplete
  <2>4. \A u \in UploadIds : upload'[u].of = upload[u].of
    BY <1>1, <2>1, <2>3 DEF RowsTyped
  <2> QED
    BY <2>1, <2>4 DEF Shown
<1>5. ASSUME NEW s \in Sessions, CreateSession(h, s)
      PROVE  UNCHANGED upload /\ \A t \in Sessions : Shown(t) => Shown(t)'
  BY <1>1, <1>5 DEF CreateSession, Shown, RowsTyped
<1>6. ASSUME NEW u \in NewUploads, CreateUpload(h, u)
      PROVE  /\ UNCHANGED session /\ u \notin listed /\ \A g \in requests : g.upload # u
             /\ \A v \in UploadIds \ {u} : upload'[v] = upload[v]
  BY <1>1, <1>6 DEF CreateUpload, NewUpload, RowsTyped
<1>7. CASE Makes(h)
  <2>1. CASE \E s \in Sessions : CreateSession(h, s)
    BY <1>5, <2>1
  <2>2. CASE \E u \in NewUploads : CreateUpload(h, u)
    BY <1>6, <2>2 DEF Shown
  <2> QED
    BY <1>7, <2>1, <2>2 DEF Makes, NewSessions
<1> QED
  BY <1>2, <1>3, <1>4, <1>7 DEF Server, Serve, ListAudio, CreateRefused, OpenStaging, Status, LoadForPart,
     WritePart, LoadForCompletion, AbortStaging, FirstCheck, AdoptStaging, AddTake, SecondCheck, AnchorTake,
     UndoTake, DeleteUndone, CompletionFails

\* There is one completion or deletion at a time, and the tab waits for it.
LEMMA OneAtATime ==
  ASSUME ImportTyped, AllHeard, ~unaware,
         NEW h \in requests, h.op \in {"complete", "hide session"}
  PROVE  /\ \A g \in requests : g.heard \/ g.op \in {"complete", "hide session"} => g = h
         /\ h.heard
         /\ h.op = "complete" => tab.at = "completing"
         /\ tab.at \in {"completing", "undoing"}
<1>1. h.heard /\ \A g \in requests : g.heard \/ g.op \in {"complete", "hide session"} => g = h
  BY DEF AllHeard, ImportTyped, OneAsked
<1>2. tab.at \in DOMAIN OpOf /\ h.op = OpOf[tab.at]
  BY <1>1 DEF ImportTyped, Asked
<1> QED
  BY <1>1, <1>2, StepOps

\* A handler's step keeps the sessions of completions shown.
LEMMA ServerShown ==
  ASSUME ImportTyped, AllHeard, StaysShown, ~unaware, NEW h \in requests, Server(h),
         NEW g \in requests', LetIn(g)
  PROVE  Shown(g.of)' /\ upload'[g.upload].of = g.of
<1>1. RowsTyped /\ RequestTyped(h) /\ \A f \in requests : RequestTyped(f)
  BY DEF ImportTyped
<1>2. PICK r : Replaced(h, r) /\ Moves(h, r)
  BY <1>1, ServerMoves
<1>3. g \in requests \ {h} \/ g = r
  BY <1>2 DEF Replaced
<1>4. ASSUME NEW f \in requests, LetIn(f), h.op # "hide session"
      PROVE  Shown(f.of)' /\ upload'[f.upload].of = f.of
  <2>1. f.upload \in UploadIds /\ f.of \in Sessions
    BY <1>1, <1>4 DEF LetIn, RequestTyped
  <2> QED
    BY <1>4, <2>1, ServerKeeps DEF StaysShown
<1>5. CASE g \in requests \ {h}
  <2>1. h.op # "hide session"
    BY <1>5, OneAtATime DEF LetIn
  <2> QED
    BY <1>4, <1>5, <2>1
<1>6. CASE g = r /\ g \notin requests \ {h}
  <2>1. h.op = "complete" /\ h.at \notin AnswerPoints /\ g.of = h.of
    BY <1>2, <1>6 DEF Moves, LetIn
  <2>2. g.upload = h.upload
    BY <1>2, <1>6, <2>1 DEF Moves
  <2>3. CASE h.at # "sent"
    <3>1. LetIn(h)
      BY <2>1, <2>3 DEF LetIn
    <3> QED
      BY <1>4, <2>1, <2>2, <3>1
  <2>4. CASE h.at = "sent"
    <3>1. LoadForCompletion(h)
      BY <2>1, <2>4 DEF Server, Serve, Makes, At, HideSession, ListAudio, CreateRefused, OpenStaging, Status,
         LoadForPart, WritePart, RecordPart, Rehash, AbortStaging, FirstCheck, AdoptStaging, AddTake,
         MarkComplete, SecondCheck, AnchorTake, UndoTake, DeleteUndone, CompletionFails, CreateSession,
         CreateUpload
    <3>2. CASE ~Usable(h)
      <4>1. Turns(h, {"unknown"})
        BY <1>1, <3>1, <3>2, TurnsTo DEF LoadForCompletion
      <4> QED
        BY <1>6, <4>1 DEF Turns, LetIn, AnswerPoints
    <3>3. CASE Usable(h)
      BY <2>1, <2>2, <3>1, <3>3 DEF LoadForCompletion, Usable, Known, Shown, takes
    <3> QED
      BY <3>2, <3>3
  <2> QED
    BY <2>3, <2>4
<1> QED
  BY <1>3, <1>5, <1>6

\* A handler's step keeps the take the only one.
LEMMA ServerOneTake ==
  ASSUME ImportTyped, OnceInv, ~unaware, ~halfway, NEW h \in requests, Server(h), ~halfway'
  PROVE  listed' = {} \/ Done' \/ \E g \in requests' : Finishes(g)'
<1>1. RowsTyped /\ RequestTyped(h)
  BY DEF ImportTyped
<1>2. UNCHANGED <<tab, memory, imported>>
  BY DEF Server, Local, remembered
<1>3. PICK r : Replaced(h, r) /\ Moves(h, r)
  BY <1>1, ServerMoves
<1>4. h.op \in {"complete", "hide session"} => tab.at # "rest"
  BY OneAtATime DEF OnceInv
<1>5. CASE listed = {}
  <2>1. CASE At(h, "complete", "adopted") /\ listed' # {}
    <3>1. AddTake(h) /\ listed' = {h.upload} /\ Goes(h, "listed")
      BY <1>5, <2>1, ServerLists DEF AddTake, UndoTake, At
    <3>2. PICK g : g = [h EXCEPT !.at = "listed"]
      OBVIOUS
    <3>3. g \in requests' /\ g.op = "complete" /\ g.at = "listed" /\ g.upload = h.upload
      BY <1>1, <2>1, <3>1, <3>2 DEF Goes, Becomes, At, RequestTyped
    <3> QED
      BY <3>1, <3>3 DEF Finishes
  <2>2. CASE ~At(h, "complete", "adopted")
    BY <1>5, <2>2, ServerListed
  <2> QED
    BY <2>1, <2>2
<1>6. CASE Done
  <2>1. h.op # "complete" /\ h.op # "hide session"
    BY <1>4, <1>6 DEF Done
  <2>2. PICK u \in listed : listed = {u} /\ upload[u].of \in Sessions /\ Shown(upload[u].of)
    BY <1>6 DEF Done
  <2>3. listed' = listed
    BY <2>1, ServerListed
  <2>4. u \in UploadIds /\ upload'[u].of = upload[u].of
    BY <1>1, <2>2, ServerKeeps DEF RowsTyped
  <2>5. Shown(upload[u].of)'
    BY <2>1, <2>2, <2>4, ServerKeeps DEF Shown
  <2> QED
    BY <1>2, <1>6, <2>2, <2>3, <2>4, <2>5 DEF Done
<1>7. ASSUME NEW k \in requests, Finishes(k)
      PROVE  listed' = {} \/ \E g \in requests' : Finishes(g)'
  <2>1. CASE h # k
    <3>1. h.op # "complete"
      BY <1>7, <2>1, OneAtATime DEF OnceInv, Finishes
    <3>2. listed' = listed /\ k \in requests'
      BY <1>3, <1>7, <2>1, <3>1, ServerListed DEF Replaced
    <3> QED
      BY <1>7, <3>2 DEF Finishes
  <2>2. CASE h = k
    <3>1. /\ h.op = "complete" /\ h.at \in {"listed", "spent", "anchoring", "refusing"}
          /\ listed = {h.upload} /\ h.heard
      BY <1>3, <1>7, <2>2, OneAtATime DEF OnceInv, Finishes, Moves, AnswerPoints
    <3>2. MarkComplete(h) \/ SecondCheck(h) \/ AnchorTake(h) \/ UndoTake(h)
      BY <3>1 DEF CompletionFails, Server, Serve, Makes, At, HideSession, ListAudio, CreateRefused, OpenStaging, Status,
         LoadForPart, WritePart, RecordPart, LoadForCompletion, Rehash, AbortStaging, FirstCheck,
         AdoptStaging, AddTake, DeleteUndone, CreateSession, CreateUpload
    <3>3. CASE listed' = listed \ {h.upload}
      BY <3>1, <3>3
    <3>4. ASSUME NEW a \in {"spent", "anchoring", "refusing", "ok"}, Goes(h, a) \/ Says(h, a), listed' = listed
          PROVE  \E g \in requests' : Finishes(g)'
      <4>1. PICK g : g = [h EXCEPT !.at = a]
        OBVIOUS
      <4>2. g.op = "complete" /\ g.at = a /\ g.upload = h.upload
        BY <1>1, <3>1, <4>1 DEF RequestTyped
      <4>3. g \in requests'
        BY <3>1, <3>4, <4>1 DEF Goes, Says, Becomes, Reply
      <4> QED
        BY <3>1, <3>4, <4>2, <4>3 DEF Finishes
    <3> QED
      BY <3>2, <3>3, <3>4 DEF MarkComplete, SecondCheck, AnchorTake, UndoTake, takes
  <2> QED
    BY <2>1, <2>2
<1> QED
  BY <1>5, <1>6, <1>7 DEF OnceInv, OneTake

\* A handler's step keeps what the tab knows of completions, and the one take.
LEMMA ServerOnce ==
  ASSUME ImportTyped, OnceInv, NEW h \in requests, Server(h)
  PROVE  OnceInv'
<1>1. RowsTyped /\ RequestTyped(h)
  BY DEF ImportTyped
<1>2. unaware' = unaware
  BY DEF Server, Local
<1>3. PICK r : Replaced(h, r) /\ Moves(h, r)
  BY <1>1, ServerMoves
<1>4. AllHeard'
  BY <1>2, <1>3 DEF OnceInv, AllHeard, Replaced, Moves
<1>5. StaysShown'
  BY <1>2, ServerShown DEF OnceInv, StaysShown, LetIn
<1>6. OneTake'
  <2>1. ~halfway' => ~halfway
    BY DEF Server, Serve, Makes, HideSession, ListAudio, CreateRefused, OpenStaging, Status, LoadForPart,
       WritePart, RecordPart, LoadForCompletion, Rehash, AbortStaging, FirstCheck, AdoptStaging, AddTake,
       MarkComplete, SecondCheck, AnchorTake, UndoTake, DeleteUndone, CompletionFails, CreateSession,
       CreateUpload
  <2> QED
    BY <1>2, <2>1, ServerOneTake DEF OneTake
<1> QED
  BY <1>4, <1>5, <1>6 DEF OnceInv

\* What the tab sends and hears keeps the take the only one.
LEMMA TabOnce ==
  ASSUME ImportTyped, OnceInv, TabSends \/ \E h \in requests : TabHears(h)
  PROVE  OnceInv'
<1> USE DEF Quiet, kept, files, remembered
<1>1. UNCHANGED <<session, upload, listed, unaware, halfway>>
  BY DEF TabSends, TabHears, Begin, RefetchSessions, Recall, SendPart, Complete, Checked,
     Created, Recalled, Started, PartAnswered, Reread, Completed, Undone
<1>2. \A op, s, u, n : Request(op, s, u, n).at = "sent" /\ Request(op, s, u, n).heard
  BY DEF Request
<1>3. \A g \in requests' : g \in requests \/ (g.at = "sent" /\ g.heard)
  <2>1. ASSUME NEW h, NEW op, NEW s, NEW u, NEW n, Sends(h, op, s, u, n)
        PROVE  \A g \in requests' : g \in requests \/ (g.at = "sent" /\ g.heard)
    BY <1>2, <2>1 DEF Sends
  <2>2. ASSUME NEW h, Takes(h)
        PROVE  \A g \in requests' : g \in requests \/ (g.at = "sent" /\ g.heard)
    BY <2>2 DEF Takes
  <2>3. CASE Begin \/ RefetchSessions \/ Recall
    BY <2>1, <2>3 DEF Begin, RefetchSessions, Recall, Undo, StartUpload
  <2>4. CASE Complete \/ \E n \in Parts : SendPart(n)
    BY <2>1, <2>4 DEF Complete, SendPart
  <2>5. ASSUME NEW h \in requests, Checked(h) \/ Created(h) \/ Reread(h) \/ Undone(h)
        PROVE  \E f : Takes(f)
    BY <2>5 DEF Checked, Created, Reread, Undone
  <2>6. ASSUME NEW h \in requests, Recalled(h) \/ Started(h) \/ Completed(h) \/ PartAnswered(h)
        PROVE  \/ Takes(h) \/ Undo(h) \/ StartUpload(h)
               \/ Sends(h, "status", tab.of, tab.upload, Unnamed)
    BY <2>6 DEF Recalled, Started, Completed, PartAnswered
  <2> QED
    BY <2>1, <2>2, <2>3, <2>4, <2>5, <2>6 DEF TabSends, TabHears, Undo, StartUpload
<1>4. AllHeard'
  BY <1>1, <1>3 DEF OnceInv, AllHeard
<1>5. StaysShown'
  BY <1>1, <1>3 DEF OnceInv, StaysShown, LetIn, Shown
<1>6. ASSUME ~unaware, ~halfway PROVE listed' = {} \/ Done'
  <2>1. CASE listed = {}
    BY <1>1, <2>1
  <2>2. CASE Done
    <3>1. tab.at = "rest" /\ \E s \in Sessions : Shown(s)
      BY <2>2 DEF Done
    <3>2. memory.of \notin Sessions /\ imported \notin Sessions
      BY <2>2, PartsAssumption DEF Done, NoMemory
    <3>3. ~Begin
      BY <3>1, <3>2 DEF Begin
    <3>4. ~TabSends
      BY <3>1, <3>3 DEF TabSends, RefetchSessions, Recall, SendPart, Complete, Ready
    <3>5. \A h \in requests : ~TabHears(h)
      BY <3>1 DEF TabHears, Checked, Created, Recalled, Started, PartAnswered, Reread, Completed, Undone, Hears
    <3> QED
      BY <3>4, <3>5
  <2>3. ASSUME NEW k \in requests, Finishes(k)
        PROVE  Done'
    <3>1. tab.at = "completing" /\ \A g \in requests : g.heard => g = k
      BY <1>6, <2>3, OneAtATime DEF OnceInv, Finishes
    <3>2. ~TabSends
      BY <3>1 DEF TabSends, Begin, RefetchSessions, Recall, SendPart, Complete, Ready
    <3>3. PICK h \in requests : TabHears(h)
      BY <3>2
    <3>4. Completed(h) /\ h = k
      BY <3>1, <3>3 DEF TabHears, Checked, Created, Recalled, Started, PartAnswered, Reread, Completed, Undone,
         Hears, Pending
    <3>5. k.at = "ok"
      BY <2>3, <3>4 DEF Completed, Hears, AnswerPoints, Finishes
    <3>6. Rest /\ memory' = NoMemory /\ imported' = Unnamed
      BY <3>4, <3>5 DEF Completed
    <3>7. Shown(k.of) /\ upload[k.upload].of = k.of /\ k.of \in Sessions
      BY <1>6, <2>3, <3>5 DEF OnceInv, StaysShown, LetIn, Finishes, ImportTyped, RequestTyped, AnswerPoints
    <3>8. listed = {k.upload}
      BY <2>3 DEF Finishes
    <3> QED
      BY <1>1, <3>6, <3>7, <3>8 DEF Done, Rest, NoRun, Shown
  <2> QED
    BY <1>6, <2>1, <2>2, <2>3 DEF OnceInv, OneTake
<1> QED
  BY <1>1, <1>4, <1>5, <1>6 DEF OnceInv, OneTake

\* An interruption keeps the take the only one, or the tab does not hear of a completion.
LEMMA LeavesOnce ==
  ASSUME ImportTyped, OnceInv,
         \/ \E h \in requests : AnswerLost(h) \/ NeverArrives(h)
         \/ ClosePage \/ Abort \/ Forget
  PROVE  OnceInv'
<1> USE DEF kept, files, remembered
<1>1. UNCHANGED <<session, upload, listed, halfway>>
  BY DEF AnswerLost, NeverArrives, ClosePage, Abort, Forget
<1>2. ~unaware' => ~unaware
  BY DEF AnswerLost, NeverArrives, ClosePage, Abort, Forget, Misses
<1>3. SUFFICES ASSUME ~unaware, ~unaware' PROVE OnceInv'
  BY <1>2 DEF OnceInv, AllHeard, StaysShown, OneTake
<1>4. \A g \in requests : RequestTyped(g)
  BY DEF ImportTyped
<1>5. \A h \in requests : /\ [h EXCEPT !.heard = FALSE].op = h.op
                          /\ [h EXCEPT !.at = "lost"].op = h.op
                          /\ [h EXCEPT !.at = "lost"].at = "lost" /\ [h EXCEPT !.at = "lost"].heard = h.heard
  BY <1>4 DEF RequestTyped
<1>6. ~halfway => listed = {} \/ Done \/ \E k \in requests : Finishes(k)
  BY <1>3 DEF OnceInv, OneTake
<1>7. ASSUME NEW h \in requests, AnswerLost(h)
      PROVE  OnceInv'
  <2>1. h.op \notin {"complete", "hide session"} /\ h.heard
    BY <1>3, <1>7 DEF AnswerLost, Misses, Pending
  <2>2. tab.at # "rest"
    BY <2>1, StepOps DEF ImportTyped, Asked
  <2>3. \A k \in requests : ~Finishes(k)
    BY <1>3, <2>1, OneAtATime DEF OnceInv, Finishes
  <2>4. \A g \in requests' : g \in requests \/ g.op = h.op
    BY <1>5, <1>7 DEF AnswerLost
  <2>5. ~halfway => listed = {}
    BY <1>6, <2>2, <2>3 DEF Done
  <2> QED
    BY <1>1, <1>3, <2>1, <2>4, <2>5 DEF OnceInv, AllHeard, StaysShown, LetIn, OneTake, Shown
<1>8. ASSUME NEW h \in requests, NeverArrives(h)
      PROVE  OnceInv'
  <2>1. UNCHANGED <<tab, memory, imported>> /\ requests' = requests \ {h} /\ ~h.heard
    BY <1>8 DEF NeverArrives, Takes
  <2>2. AllHeard' /\ StaysShown'
    BY <1>1, <1>3, <2>1 DEF OnceInv, AllHeard, StaysShown, LetIn, Shown
  <2>3. \A k \in requests : Finishes(k) => k \in requests'
    BY <1>3, <2>1 DEF OnceInv, AllHeard, Finishes
  <2>4. OneTake'
    BY <1>1, <1>6, <2>1, <2>3 DEF OneTake, Done, Finishes, Shown
  <2> QED
    BY <2>2, <2>4 DEF OnceInv
<1>9. CASE ClosePage \/ Abort
  <2>1. tab.at # "rest" /\ \A h \in Pending : h.op \notin {"complete", "hide session"}
    BY <1>3, <1>9 DEF ClosePage, Abort, Misses
  <2>2. \A h \in requests : h.op \notin {"complete", "hide session"}
    BY <1>3, <2>1 DEF OnceInv, AllHeard, Pending
  <2>3. ~halfway => listed = {}
    BY <1>6, <2>1, <2>2 DEF Done, Finishes
  <2>4. Request("hide session", tab.of, Unnamed, Unnamed).heard
        /\ Request("hide session", tab.of, Unnamed, Unnamed).op = "hide session"
    BY DEF Request
  <2>5. \A g \in requests' : \/ \E h \in requests : g.op = h.op
                             \/ g.heard /\ g.op = "hide session"
    <3>1. PICK q : q = Request("hide session", tab.of, Unnamed, Unnamed)
      OBVIOUS
    <3>2. \A g \in requests' : \/ g \in requests \/ g = q
                               \/ \E h \in requests : g = [h EXCEPT !.heard = FALSE]
      BY <1>9, <3>1 DEF ClosePage, Abort, Abandon, Pending
    <3> QED
      BY <1>5, <2>4, <3>1, <3>2
  <2>6. \A g \in requests' : g.op \in {"complete", "hide session"} => g.heard /\ g.op # "complete"
    BY <2>2, <2>5
  <2>7. AllHeard' /\ StaysShown'
    BY <2>6 DEF AllHeard, StaysShown, LetIn
  <2> QED
    BY <1>1, <2>3, <2>7 DEF OnceInv, OneTake
<1>10. CASE Forget
  <2>1. ~halfway => listed = {}
    BY <1>3, <1>6, <1>10, OneAtATime DEF Forget, OnceInv, Done, Finishes
  <2>2. AllHeard' /\ StaysShown'
    BY <1>1, <1>3, <1>10 DEF Forget, OnceInv, AllHeard, StaysShown, LetIn, Shown
  <2>3. OneTake'
    BY <1>1, <2>1 DEF OneTake
  <2> QED
    BY <2>2, <2>3 DEF OnceInv
<1> QED
  BY <1>7, <1>8, <1>9, <1>10

\* A crash, a day, the sweeper and a recording keep the take the only one.
LEMMA ElseOnce ==
  ASSUME ImportTyped, OnceInv,
         \/ CrashServer \/ (SweepUploads /\ Local)
         \/ \E s \in Sessions : (Roll(s) \/ Unroll(s)) /\ Local
         \/ \E u \in UploadIds : DayPasses(u)
  PROVE  OnceInv'
<1> USE DEF takes, files, remembered
<1>1. RowsTyped /\ \A g \in requests : RequestTyped(g)
  BY DEF ImportTyped
<1>2. ASSUME UNCHANGED <<session, tab, memory, imported, unaware, halfway, requests, listed>>,
             \A u \in UploadIds : upload'[u].of = upload[u].of
      PROVE  OnceInv'
  <2>1. AllHeard'
    BY <1>2 DEF OnceInv, AllHeard
  <2>2. StaysShown'
    BY <1>1, <1>2 DEF OnceInv, StaysShown, LetIn, Shown, RequestTyped
  <2>3. Done => Done'
    BY <1>1, <1>2 DEF Done, Shown, RowsTyped
  <2>4. OneTake'
    BY <1>2, <2>3 DEF OnceInv, OneTake, Finishes
  <2> QED
    BY <2>1, <2>2, <2>4 DEF OnceInv
<1>3. CASE CrashServer
  <2>1. UNCHANGED <<session, upload, listed, halfway, tab, memory, imported>>
    BY <1>3 DEF CrashServer, ServerCrash
  <2>2. \A g \in requests' : g.heard /\ (g \in requests \/ g.at = "lost")
    <3>1. \A h \in requests : [h EXCEPT !.at = "lost"].at = "lost" /\ [h EXCEPT !.at = "lost"].heard = h.heard
      BY <1>1 DEF RequestTyped
    <3> QED
      BY <1>3, <3>1 DEF CrashServer, ServerCrash
  <2>3. AllHeard'
    BY <2>2 DEF AllHeard
  <2>4. ~unaware' => ~unaware
    BY <1>3 DEF CrashServer, Misses
  <2>5. StaysShown'
    BY <2>1, <2>2, <2>4 DEF OnceInv, StaysShown, LetIn, Shown, AnswerPoints
  <2>6. ASSUME ~unaware', NEW k \in requests, Finishes(k)
        PROVE  k \in requests'
    <3>1. k.heard
      BY <2>4, <2>6 DEF OnceInv, AllHeard, Finishes
    <3>2. k \in WithAnswer
      BY <1>3, <2>6, <3>1 DEF CrashServer, Misses, Pending, Finishes
    <3> QED
      BY <1>3, <3>1, <3>2 DEF CrashServer, ServerCrash
  <2>7. Done => Done'
    BY <2>1 DEF Done, Shown
  <2>8. \A k : Finishes(k) => Finishes(k)'
    BY <2>1 DEF Finishes
  <2>9. OneTake'
    BY <2>1, <2>4, <2>6, <2>7, <2>8 DEF OnceInv, OneTake
  <2> QED
    BY <2>3, <2>5, <2>9 DEF OnceInv
<1>4. CASE SweepRows /\ Local
  <2>1. \A u \in UploadIds : upload'[u].of = upload[u].of
    BY <1>1, <1>4 DEF SweepRows, RowsTyped
  <2> QED
    BY <1>2, <1>4, <2>1 DEF SweepRows, Local
<1>5. ASSUME NEW u \in UploadIds, SweepFile(u), Local
      PROVE  OnceInv'
  BY <1>2, <1>5 DEF SweepFile, Local
<1>6. ASSUME NEW s \in Sessions, Roll(s) \/ Unroll(s), Local
      PROVE  OnceInv'
  BY <1>2, <1>6 DEF Roll, Unroll, Local
<1>7. ASSUME NEW u \in UploadIds, DayPasses(u)
      PROVE  OnceInv'
  <2>1. upload' = [upload EXCEPT ![u].live = FALSE]
    BY <1>7 DEF DayPasses, ExpireUpload
  <2>2. \A v \in UploadIds : upload'[v].of = upload[v].of
    BY <1>1, <2>1 DEF RowsTyped
  <2> QED
    BY <1>2, <1>7, <2>2 DEF DayPasses, ExpireUpload
<1> QED
  BY <1>3, <1>4, <1>5, <1>6, <1>7 DEF SweepUploads

\* The first state has no take, and every step keeps the only one.
LEMMA OnceInit == ImportInit => OnceInv
BY DEF ImportInit, PartInit, OnceInv, AllHeard, StaysShown, OneTake

\* Every step of the import keeps the take the only one.
LEMMA OnceNext == ImportTyped /\ OnceInv /\ [ImportNext]_importVars => OnceInv'
<1> SUFFICES ASSUME ImportTyped, OnceInv, [ImportNext]_importVars
             PROVE  OnceInv'
  OBVIOUS
<1>1. CASE UNCHANGED importVars
  BY <1>1 DEF importVars, partVars, OnceInv, AllHeard, StaysShown, LetIn, OneTake, Done, Finishes, Shown
<1> QED
  BY <1>1, ServerOnce, TabOnce, LeavesOnce, ElseOnce DEF ImportNext

\* As long as the tab heard of every completion and deletion, and no completion answered an error
\* after it had listed its take, the group has one take at most, in a session that is shown (the
\* roll-back of a failed import and the remembered upload).
THEOREM ImportsOnce == ImportSpec => []ImportedOnce
<1>1. ASSUME ImportTyped, OnceInv PROVE ImportedOnce
  <2>1. SUFFICES ASSUME ~unaware, ~halfway
                 PROVE  /\ Cardinality({u \in listed : Shown(upload[u].of)}) <= 1
                        /\ \A u \in listed : Shown(upload[u].of)
    BY DEF ImportedOnce
  <2>2. CASE listed = {}
    <3>1. {u \in listed : Shown(upload[u].of)} = {}
      BY <2>2
    <3> QED
      BY <2>2, <3>1, FS_EmptySet
  <2>3. ASSUME NEW v, listed = {v}, Shown(upload[v].of)
        PROVE  /\ Cardinality({u \in listed : Shown(upload[u].of)}) <= 1
               /\ \A u \in listed : Shown(upload[u].of)
    <3>1. {u \in listed : Shown(upload[u].of)} = {v}
      BY <2>3
    <3>2. Cardinality({v}) = 1
      BY FS_Singleton
    <3> QED
      BY <2>3, <3>1, <3>2
  <2>4. ASSUME NEW k \in requests, Finishes(k)
        PROVE  Shown(upload[k.upload].of) /\ listed = {k.upload}
    <3>1. LetIn(k) /\ listed = {k.upload}
      BY <2>4 DEF LetIn, Finishes, AnswerPoints
    <3> QED
      BY <1>1, <2>1, <3>1 DEF OnceInv, StaysShown
  <2>5. CASE Done
    BY <2>3, <2>5 DEF Done
  <2>6. CASE \E k \in requests : Finishes(k)
    BY <2>3, <2>4, <2>6
  <2> QED
    BY <1>1, <2>1, <2>2, <2>5, <2>6 DEF OnceInv, OneTake
<1> QED
  BY <1>1, TypedInit, TypedNext, OnceInit, OnceNext, PTL DEF ImportSpec
=============================================================================
