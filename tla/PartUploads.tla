---------------------------- MODULE PartUploads ----------------------------
(***************************************************************************)
(* The server's side of an import in parts: sessions, the rows of          *)
(* resumable uploads, the staging file of each upload until it becomes the *)
(* blob of a take, and the sweeper that expires uploads.  One user.        *)
(*                                                                         *)
(* A request is a handler in progress; "heard" says that its caller is     *)
(* still there.  Every statement and every file operation is a step.  A    *)
(* crash ends the handlers and may cost staged bytes that were not synced; *)
(* received parts are rows and stay.  A part's bytes are right when they   *)
(* are there.  Left out: a disk that is full, COMMITs without an answer,   *)
(* statements that fail before a completion has listed its take (they      *)
(* change nothing), and the use of an upload for a chunk of a recording.   *)
(***************************************************************************)
EXTENDS Naturals, FiniteSets

CONSTANTS
  Sessions, UploadIds,
  Parts,        \* the parts of the file
  MaxOpen,      \* UPLOAD_MAX_OPEN_PER_USER
  MaxMishaps    \* bound: crashes, lost answers, failed statements, stops of the browser, late
                \* expiries, recordings that start

Unnamed == "unnamed"
ASSUME PartsAssumption ==
  /\ Unnamed \notin Sessions \cup UploadIds \cup Parts
  /\ Parts # {} /\ IsFiniteSet(Parts)
  /\ MaxOpen \in Nat /\ MaxMishaps \in Nat

VARIABLES
  session,   \* a session is unmade, shown or hidden
  rolling,   \* sessions in which a recording runs
  upload,    \* an upload's row: status, session, received parts, whether it is unexpired
  place,     \* where an upload's bytes are: none, staged or blob
  whole,     \* the parts whose bytes are there
  listed,    \* uploads whose take is a row of the session
  requests,  \* handlers in progress and answers on their way
  purging,   \* uploads whose row the sweeper removed, their files next
  halfway,   \* history: a completion answered an error and left its take listed
  mishaps

partVars == <<session, rolling, upload, place, whole, listed, requests, purging, halfway, mishaps>>
files == <<place, whole>>
takes == <<session, rolling, listed>>

NoUpload == [status |-> "none", of |-> Unnamed, received |-> {}, live |-> FALSE]

PartInit ==
  /\ session = [s \in Sessions |-> "unmade"]
  /\ rolling = {}
  /\ upload = [u \in UploadIds |-> NoUpload]
  /\ place = [u \in UploadIds |-> "none"]
  /\ whole = [u \in UploadIds |-> {}]
  /\ listed = {} /\ requests = {} /\ purging = {} /\ halfway = FALSE /\ mishaps = 0

Mishap == mishaps < MaxMishaps /\ mishaps' = mishaps + 1

\* A request of the browser, and what its answer carries: the upload's parts received so far.
Request(op, s, u, n) ==
  [op |-> op, of |-> s, upload |-> u, part |-> n, at |-> "sent", heard |-> TRUE, got |-> {}]

AnswerPoints == {"ok", "audio", "missing", "rolling", "refused", "bad", "unknown", "failed", "lost"}
WithAnswer == {h \in requests : h.at \in AnswerPoints}

At(h, op, step) == h \in requests /\ h.op = op /\ h.at = step
Becomes(h, r) == requests' = (requests \ {h}) \cup {r}
Goes(h, step) == Becomes(h, [h EXCEPT !.at = step])
\* The last step of a handler; nobody hears the answer of an abandoned one.
Reply(h, r) == requests' = (requests \ {h}) \cup (IF h.heard THEN {r} ELSE {})
Says(h, a) == Reply(h, [h EXCEPT !.at = a])

Shown(s) == session[s] = "shown"
TakesIn(s) == {u \in listed : upload[u].of = s}
Open(u) == upload[u].status = "open" /\ upload[u].live
OpenUploads == {u \in UploadIds : Open(u)}
\* The row a request may use; completed ones included.
Known(h) ==
  /\ Shown(h.of) /\ upload[h.upload].of = h.of
  /\ upload[h.upload].status \in {"open", "complete"} /\ upload[h.upload].live
Usable(h) == Known(h) /\ upload[h.upload].status = "open"

\* An id that nothing refers to any more stands for a new one; a file left behind under it is
\* never looked at again.
NewUpload(u) ==
  /\ upload[u].status \in {"none", "removed"} /\ u \notin listed \cup purging
  /\ \A h \in requests : h.upload # u
NewSession(s) ==
  /\ session[s] # "shown"
  /\ \A u \in UploadIds : upload[u].of = s => NewUpload(u)
  /\ \A h \in requests : h.of # s
-----------------------------------------------------------------------------
(* Sessions *)

CreateSession(h, s) ==
  /\ At(h, "create session", "sent") /\ NewSession(s)
  /\ session' = [session EXCEPT ![s] = "shown"]
  /\ Reply(h, [h EXCEPT !.at = "ok", !.of = s])
  /\ UNCHANGED <<rolling, upload, files, listed, purging, halfway, mishaps>>

\* DELETE of a session hides it.
HideSession(h) ==
  /\ At(h, "hide session", "sent")
  /\ session' = [session EXCEPT ![h.of] = "hidden"]
  /\ Says(h, "ok")
  /\ UNCHANGED <<rolling, upload, files, listed, purging, halfway, mishaps>>

ListAudio(h) ==
  /\ At(h, "list audio", "sent")
  /\ Says(h, CASE ~Shown(h.of) -> "unknown"
               [] TakesIn(h.of) # {} -> "audio"
               [] OTHER -> "ok")
  /\ UNCHANGED <<takes, upload, files, purging, halfway, mishaps>>

\* A recording starts or stops in a session that is shown.
Roll(s) ==
  /\ Shown(s) /\ s \notin rolling /\ Mishap
  /\ rolling' = rolling \cup {s}
  /\ UNCHANGED <<session, upload, files, listed, requests, purging, halfway>>

Unroll(s) ==
  /\ s \in rolling
  /\ rolling' = rolling \ {s}
  /\ UNCHANGED <<session, upload, files, listed, requests, purging, halfway, mishaps>>
-----------------------------------------------------------------------------
(* Create, status and parts *)

\* The caps and the row are one transaction under the user's advisory lock.
CreateUpload(h, u) ==
  /\ At(h, "create upload", "sent") /\ Shown(h.of)
  /\ Cardinality(OpenUploads) < MaxOpen
  /\ NewUpload(u)
  /\ upload' = [upload EXCEPT ![u] = [status |-> "open", of |-> h.of, received |-> {}, live |-> TRUE]]
  /\ Becomes(h, [h EXCEPT !.at = "made", !.upload = u])
  /\ UNCHANGED <<takes, files, purging, halfway, mishaps>>

CreateRefused(h) ==
  /\ At(h, "create upload", "sent")
  /\ \/ ~Shown(h.of) /\ Says(h, "unknown")
     \/ Shown(h.of) /\ Cardinality(OpenUploads) >= MaxOpen /\ Says(h, "refused")
  /\ UNCHANGED <<takes, upload, files, purging, halfway, mishaps>>

\* The staging file has its full size from the start and none of the bytes.
OpenStaging(h) ==
  /\ At(h, "create upload", "made")
  /\ place' = [place EXCEPT ![h.upload] = "staged"]
  /\ whole' = [whole EXCEPT ![h.upload] = {}]
  /\ Says(h, "ok")
  /\ UNCHANGED <<takes, upload, purging, halfway, mishaps>>

Status(h) ==
  /\ At(h, "status", "sent")
  /\ IF Known(h)
     THEN Reply(h, [h EXCEPT !.at = "ok", !.got = upload[h.upload].received])
     ELSE Says(h, "unknown")
  /\ UNCHANGED <<takes, upload, files, purging, halfway, mishaps>>

LoadForPart(h) ==
  /\ At(h, "put", "sent")
  /\ IF Usable(h)
     THEN Becomes(h, [h EXCEPT !.at = "loaded", !.got = upload[h.upload].received])
     ELSE Says(h, "unknown")
  /\ UNCHANGED <<takes, upload, files, purging, halfway, mishaps>>

\* A part that was received when the row was read is hashed only.
WritePart(h) ==
  /\ At(h, "put", "loaded")
  /\ \/ h.part \in h.got /\ Goes(h, "written") /\ UNCHANGED whole
     \/ /\ h.part \notin h.got /\ place[h.upload] = "staged"
        /\ whole' = [whole EXCEPT ![h.upload] = @ \cup {h.part}]
        /\ Goes(h, "written")
     \/ h.part \notin h.got /\ place[h.upload] # "staged" /\ Says(h, "failed") /\ UNCHANGED whole
  /\ UNCHANGED <<takes, upload, place, purging, halfway, mishaps>>

RecordPart(h) ==
  /\ At(h, "put", "written")
  /\ \/ /\ Open(h.upload) /\ Says(h, "ok")
        /\ upload' = [upload EXCEPT ![h.upload].received = @ \cup {h.part}]
     \/ ~Open(h.upload) /\ Says(h, "unknown") /\ UNCHANGED upload
  /\ UNCHANGED <<takes, files, purging, halfway, mishaps>>
-----------------------------------------------------------------------------
(* Completion: the staged file becomes the blob, then the take becomes a row *)

LoadForCompletion(h) ==
  /\ At(h, "complete", "sent")
  /\ CASE ~Usable(h) -> Says(h, "unknown")
       [] Usable(h) /\ upload[h.upload].received # Parts -> Says(h, "missing")
       [] OTHER -> Goes(h, "loaded")
  /\ UNCHANGED <<takes, upload, files, purging, halfway, mishaps>>

\* Mutant: parts that were received are taken to be there.
MutRehash(h) ==
  /\ At(h, "complete", "loaded")
  /\ IF place[h.upload] = "staged" THEN Goes(h, "hashed") ELSE Says(h, "failed")
  /\ UNCHANGED <<takes, upload, files, purging, halfway, mishaps>>

\* The staged bytes are read again; an upload that lost some is aborted, row first.
Rehash(h) ==
  /\ At(h, "complete", "loaded")
  /\ \/ place[h.upload] # "staged" /\ Says(h, "failed") /\ UNCHANGED upload
     \/ /\ place[h.upload] = "staged" /\ whole[h.upload] = Parts
        /\ Goes(h, "hashed") /\ UNCHANGED upload
     \/ /\ place[h.upload] = "staged" /\ whole[h.upload] # Parts
        /\ upload' = [upload EXCEPT ![h.upload].status = "removed"]
        /\ Goes(h, "aborting")
  /\ UNCHANGED <<takes, files, purging, halfway, mishaps>>

Unstaged(u) == place' = [place EXCEPT ![u] = IF @ = "staged" THEN "none" ELSE @]

AbortStaging(h) ==
  /\ At(h, "complete", "aborting")
  /\ Unstaged(h.upload)
  /\ Says(h, "bad")
  /\ UNCHANGED <<takes, upload, whole, purging, halfway, mishaps>>

FirstCheck(h) ==
  /\ At(h, "complete", "hashed")
  /\ IF h.of \in rolling THEN Says(h, "rolling") ELSE Goes(h, "checked")
  /\ UNCHANGED <<takes, upload, files, purging, halfway, mishaps>>

\* Synced, then renamed: of two completions the second finds no file.
AdoptStaging(h) ==
  /\ At(h, "complete", "checked")
  /\ \/ /\ place[h.upload] = "staged"
        /\ place' = [place EXCEPT ![h.upload] = "blob"]
        /\ Goes(h, "adopted")
     \/ place[h.upload] # "staged" /\ Says(h, "failed") /\ UNCHANGED place
  /\ UNCHANGED <<takes, upload, whole, purging, halfway, mishaps>>

\* A blob that no row names is deleted best-effort; no request of an import looks at one that stays.
DropBlob(u) == place' = [place EXCEPT ![u] = "none"]

\* addImportedAfterBlob; a transaction that fails takes the blob with it.
AddTake(h) ==
  /\ At(h, "complete", "adopted")
  /\ \/ /\ listed' = listed \cup {h.upload}
        /\ Goes(h, "listed")
        /\ UNCHANGED <<place, mishaps>>
     \/ /\ Mishap
        /\ DropBlob(h.upload)
        /\ Says(h, "failed")
        /\ UNCHANGED listed
  /\ UNCHANGED <<session, rolling, upload, whole, purging, halfway>>

MarkComplete(h) ==
  /\ At(h, "complete", "listed")
  /\ upload' = [upload EXCEPT ![h.upload].status = IF Open(h.upload) THEN "complete" ELSE @]
  /\ Goes(h, "spent")
  /\ UNCHANGED <<takes, files, purging, halfway, mishaps>>

\* Mutant: a late refusal leaves the take in the session.
MutSecondCheck(h) ==
  /\ At(h, "complete", "spent")
  /\ IF h.of \in rolling THEN Says(h, "failed") ELSE Goes(h, "anchoring")
  /\ UNCHANGED <<takes, upload, files, purging, halfway, mishaps>>

\* A recording that has started refuses the import late.
SecondCheck(h) ==
  /\ At(h, "complete", "spent")
  /\ Goes(h, IF h.of \in rolling THEN "refusing" ELSE "anchoring")
  /\ UNCHANGED <<takes, upload, files, purging, halfway, mishaps>>

\* The hub anchors the take and appends the seam parts; it refuses in a recording, and any other
\* error is treated alike.
AnchorTake(h) ==
  /\ At(h, "complete", "anchoring")
  /\ \/ h.of \notin rolling /\ Says(h, "ok") /\ UNCHANGED mishaps
     \/ h.of \in rolling /\ Goes(h, "refusing") /\ UNCHANGED mishaps
     \/ h.of \notin rolling /\ Goes(h, "refusing") /\ Mishap
  /\ UNCHANGED <<takes, upload, files, purging, halfway>>

\* The roll-back: the row first, then the blob.
UndoTake(h) ==
  /\ At(h, "complete", "refusing")
  /\ listed' = listed \ {h.upload}
  /\ Goes(h, "undone")
  /\ UNCHANGED <<session, rolling, upload, files, purging, halfway, mishaps>>

\* The answer is 409 or 500, which the browser treats alike.
DeleteUndone(h) ==
  /\ At(h, "complete", "undone")
  /\ DropBlob(h.upload)
  /\ Says(h, "failed")
  /\ UNCHANGED <<takes, upload, whole, purging, halfway, mishaps>>

\* The statement that marks the upload, the second look at the status or the roll-back's row
\* statement fails: nothing takes the listed take back.
CompletionFails(h) ==
  /\ At(h, "complete", "listed") \/ At(h, "complete", "spent") \/ At(h, "complete", "refusing")
  /\ Mishap
  /\ halfway' = TRUE
  /\ Says(h, "failed")
  /\ UNCHANGED <<takes, upload, files, purging>>
-----------------------------------------------------------------------------
(* Expiry and crashes *)

\* A day passes for an upload; no handler runs that long.
ExpireUpload(u) ==
  /\ upload[u].status \in {"open", "complete"} /\ upload[u].live
  /\ \A h \in requests : h.upload # u
  /\ upload' = [upload EXCEPT ![u].live = FALSE]
  /\ UNCHANGED <<takes, files, requests, purging, halfway>>

SweepRows ==
  LET lapsed == {u \in UploadIds : upload[u].status \in {"open", "complete"} /\ ~upload[u].live}
  IN  /\ purging = {} /\ lapsed # {}
      /\ upload' = [u \in UploadIds |->
                      IF u \in lapsed THEN [upload[u] EXCEPT !.status = "removed"] ELSE upload[u]]
      /\ purging' = lapsed
      /\ UNCHANGED <<takes, files, requests, halfway, mishaps>>

SweepFile(u) ==
  /\ u \in purging
  /\ purging' = purging \ {u}
  /\ Unstaged(u)
  /\ UNCHANGED <<takes, upload, whole, requests, halfway, mishaps>>

\* The server dies, alone or with its machine: then staged bytes may be lost.
ServerCrash ==
  /\ Mishap
  /\ requests' = {IF h \in WithAnswer THEN h ELSE [h EXCEPT !.at = "lost"] : h \in {r \in requests : r.heard}}
  /\ purging' = {}
  /\ \E gone \in SUBSET Parts :
       whole' = [u \in UploadIds |-> IF place[u] = "staged" THEN whole[u] \ gone ELSE whole[u]]
  /\ UNCHANGED <<takes, upload, place, halfway>>

\* What a handler may do next, other than to take a new id.
Serve(h) ==
  \/ HideSession(h) \/ ListAudio(h)
  \/ CreateRefused(h) \/ OpenStaging(h) \/ Status(h)
  \/ LoadForPart(h) \/ WritePart(h) \/ RecordPart(h)
  \/ LoadForCompletion(h) \/ Rehash(h) \/ AbortStaging(h) \/ FirstCheck(h) \/ AdoptStaging(h)
  \/ AddTake(h) \/ MarkComplete(h) \/ SecondCheck(h) \/ AnchorTake(h)
  \/ UndoTake(h) \/ DeleteUndone(h) \/ CompletionFails(h)

\* The sweeper.
SweepUploads == SweepRows \/ \E u \in UploadIds : SweepFile(u)
=============================================================================
