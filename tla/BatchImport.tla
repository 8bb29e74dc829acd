---------------------------- MODULE BatchImport ----------------------------
(***************************************************************************)
(* The batch import of one group of files that is large enough for an      *)
(* upload in parts, by one tab: it looks for a session of the group's      *)
(* name, makes one if there is none, uploads the parts, and completes.     *)
(* An interrupted upload is remembered with its session, and running the   *)
(* import again goes on with it; after any other failure the session is    *)
(* deleted again.                                                          *)
(*                                                                         *)
(* The tab sends one request at a time.  An answer may be lost while the   *)
(* handler runs on; the user may stop a run or close the tab at any time.  *)
(***************************************************************************)
EXTENDS PartUploads

CONSTANT MaxTries   \* maxAttemptsPerPart

ASSUME TriesAssumption == MaxTries \in Nat \ {0}

VARIABLES
  tab,        \* the run: what it does, its session and upload, parts received, failed attempts
  memory,     \* the upload remembered for the group, and its session
  imported,   \* the session remembered as made by the import
  unaware      \* history: a completion or a deletion whose answer the tab did not get

importVars == <<partVars, tab, memory, imported, unaware>>
kept == <<session, rolling, upload, files, listed, purging, halfway>>
remembered == <<memory, imported>>

NoRun == [at |-> "rest", of |-> Unnamed, upload |-> Unnamed, got |-> {}, tries |-> 0]
NoMemory == [upload |-> Unnamed, of |-> Unnamed]

ImportInit ==
  /\ PartInit
  /\ tab = NoRun /\ memory = NoMemory /\ imported = Unnamed /\ unaware = FALSE

Pending == {h \in requests : h.heard}
Ready(step) == tab.at = step /\ Pending = {}
\* The answer the tab waits for in a step.
Hears(h, step) == tab.at = step /\ h \in Pending /\ h.at \in AnswerPoints

\* Done with the answer h if there was one, the tab goes on with what it sends.
Sends(h, op, s, u, n) == requests' = (requests \ {h}) \cup {Request(op, s, u, n)}
Takes(h) == requests' = requests \ {h}
NoAnswer == Request("none", Unnamed, Unnamed, Unnamed)

Rest == tab' = NoRun
\* A failure that cannot be resumed: the session is deleted again.
Undo(h) ==
  /\ Sends(h, "hide session", tab.of, Unnamed, Unnamed)
  /\ tab' = [tab EXCEPT !.at = "undoing"]
Quiet == UNCHANGED <<kept, mishaps, unaware>>
-----------------------------------------------------------------------------
(* From the list of sessions to the upload *)

\* A matching session is resumed if it is the remembered upload's or the import's own;
\* any other is skipped.
Begin ==
  /\ Ready("rest")
  /\ \/ /\ \A s \in Sessions : ~Shown(s)
        /\ Sends(NoAnswer, "create session", Unnamed, Unnamed, Unnamed)
        /\ tab' = [NoRun EXCEPT !.at = "creating"]
     \/ \E s \in Sessions :
          /\ Shown(s)
          /\ \/ /\ memory.of = s
                /\ tab' = [NoRun EXCEPT !.at = "found", !.of = s]
                /\ UNCHANGED requests
             \/ /\ memory.of # s /\ imported = s
                /\ Sends(NoAnswer, "list audio", s, Unnamed, Unnamed)
                /\ tab' = [NoRun EXCEPT !.at = "checking", !.of = s]
  /\ Quiet /\ UNCHANGED remembered

\* Mutant: only a remembered upload is resumed.
MutChecked(h) ==
  /\ Hears(h, "checking")
  /\ Takes(h) /\ Rest
  /\ Quiet /\ UNCHANGED remembered

\* Its own session is resumed while it is empty.
Checked(h) ==
  /\ Hears(h, "checking")
  /\ Takes(h)
  /\ IF h.at = "ok" THEN tab' = [tab EXCEPT !.at = "found"] ELSE Rest
  /\ Quiet /\ UNCHANGED remembered

Created(h) ==
  /\ Hears(h, "creating")
  /\ Takes(h)
  /\ IF h.at = "ok"
     THEN tab' = [tab EXCEPT !.at = "made", !.of = h.of] /\ imported' = h.of
     ELSE Rest /\ UNCHANGED imported
  /\ Quiet /\ UNCHANGED memory

\* The list of sessions is fetched again.
RefetchSessions ==
  /\ Ready("made")
  /\ \/ tab' = [tab EXCEPT !.at = "found"] /\ UNCHANGED <<requests, mishaps>>
     \/ Undo(NoAnswer) /\ Mishap
  /\ UNCHANGED <<kept, unaware, remembered>>

StartUpload(h) ==
  /\ Sends(h, "create upload", tab.of, Unnamed, Unnamed)
  /\ tab' = [tab EXCEPT !.at = "starting"]
  /\ memory' = NoMemory

\* A remembered upload of this session is looked up first.
Recall ==
  /\ Ready("found")
  /\ IF memory.of = tab.of
     THEN /\ Sends(NoAnswer, "status", tab.of, memory.upload, Unnamed)
          /\ tab' = [tab EXCEPT !.at = "recalling", !.upload = memory.upload]
          /\ UNCHANGED memory
     ELSE StartUpload(NoAnswer)
  /\ Quiet /\ UNCHANGED imported

Recalled(h) ==
  /\ Hears(h, "recalling")
  /\ IF h.at = "ok"
     THEN /\ tab' = [tab EXCEPT !.at = "sending", !.got = h.got]
          /\ Takes(h) /\ UNCHANGED memory
     ELSE StartUpload(h)
  /\ Quiet /\ UNCHANGED imported

Started(h) ==
  /\ Hears(h, "starting")
  /\ IF h.at = "ok"
     THEN /\ tab' = [tab EXCEPT !.at = "sending", !.upload = h.upload]
          /\ memory' = [upload |-> h.upload, of |-> tab.of]
          /\ Takes(h)
     ELSE Undo(h) /\ UNCHANGED memory
  /\ Quiet /\ UNCHANGED imported
-----------------------------------------------------------------------------
(* Parts and completion *)

\* Parts are sent one after the other.
NextPart == CHOOSE n \in Parts \ tab.got : TRUE

SendPart(n) ==
  /\ Ready("sending") /\ tab.got # Parts /\ n = NextPart
  /\ Sends(NoAnswer, "put", tab.of, tab.upload, n)
  /\ tab' = [tab EXCEPT !.at = "putting"]
  /\ Quiet /\ UNCHANGED remembered

\* After a failure the status is read before the next attempt; the last attempt's ends the run.
PartAnswered(h) ==
  /\ Hears(h, "putting")
  /\ CASE h.at = "ok" ->
            /\ tab' = [tab EXCEPT !.at = "sending", !.got = @ \cup {h.part}, !.tries = 0]
            /\ Takes(h) /\ UNCHANGED memory
       [] h.at = "unknown" -> memory' = NoMemory /\ Undo(h)
       [] h.at \in {"failed", "lost"} /\ tab.tries + 1 >= MaxTries ->
            Rest /\ Takes(h) /\ UNCHANGED memory
       [] OTHER ->
            /\ tab' = [tab EXCEPT !.at = "asking", !.tries = @ + 1]
            /\ Sends(h, "status", tab.of, tab.upload, Unnamed)
            /\ UNCHANGED memory
  /\ Quiet /\ UNCHANGED imported

Reread(h) ==
  /\ Hears(h, "asking")
  /\ IF h.at = "ok"
     THEN tab' = [tab EXCEPT !.at = "sending", !.got = h.got,
                             !.tries = IF NextPart \in h.got THEN 0 ELSE @]
     ELSE tab' = [tab EXCEPT !.at = "sending"]
  /\ Takes(h)
  /\ Quiet /\ UNCHANGED remembered

Complete ==
  /\ Ready("sending") /\ tab.got = Parts
  /\ Sends(NoAnswer, "complete", tab.of, tab.upload, Unnamed)
  /\ tab' = [tab EXCEPT !.at = "completing"]
  /\ Quiet /\ UNCHANGED remembered

\* The parts the server has only grow, so it never answers that some are missing.
Completed(h) ==
  /\ Hears(h, "completing")
  /\ CASE h.at = "ok" -> Rest /\ Takes(h) /\ memory' = NoMemory /\ imported' = Unnamed
       [] h.at = "bad" -> memory' = NoMemory /\ Undo(h) /\ UNCHANGED imported
       [] h.at = "unknown" -> Undo(h) /\ UNCHANGED remembered
       [] OTHER -> Rest /\ Takes(h) /\ UNCHANGED remembered
  /\ Quiet

Undone(h) ==
  /\ Hears(h, "undoing")
  /\ Rest /\ Takes(h)
  /\ imported' = IF h.at = "ok" THEN Unnamed ELSE imported
  /\ Quiet /\ UNCHANGED memory
-----------------------------------------------------------------------------
(* What may go wrong *)

\* A completion or a deletion may be carried out, now or later, without the tab knowing.
Misses(R) == unaware' = (unaware \/ \E h \in R : h.op \in {"complete", "hide session"})
Abandon == requests' = (requests \ Pending) \cup {[h EXCEPT !.heard = FALSE] : h \in Pending \ WithAnswer}

\* The connection is lost: the handler runs on, if the request arrived.
AnswerLost(h) ==
  /\ h \in Pending \ WithAnswer /\ Mishap
  /\ requests' = (requests \ {h}) \cup {[h EXCEPT !.heard = FALSE], [h EXCEPT !.at = "lost"]}
  /\ Misses({h})
  /\ UNCHANGED <<kept, tab, remembered>>

NeverArrives(h) ==
  /\ h \in requests /\ ~h.heard /\ h.at = "sent"
  /\ Takes(h)
  /\ UNCHANGED <<kept, mishaps, tab, remembered, unaware>>

\* The page closes: nothing is cleaned up.
ClosePage ==
  /\ tab.at # "rest" /\ Mishap
  /\ Rest /\ Abandon
  /\ Misses(Pending)
  /\ UNCHANGED <<kept, remembered>>

\* The user stops the run: a session without a remembered upload is deleted again.
Abort ==
  /\ tab.at \notin {"rest", "undoing"} /\ Mishap
  /\ IF tab.at \in {"creating", "checking"} \/ memory.of = tab.of
     THEN Rest /\ Abandon
     ELSE /\ tab' = [tab EXCEPT !.at = "undoing"]
          /\ requests' = (requests \ Pending) \cup {[h EXCEPT !.heard = FALSE] : h \in Pending \ WithAnswer}
                           \cup {Request("hide session", tab.of, Unnamed, Unnamed)}
  /\ Misses(Pending)
  /\ UNCHANGED <<kept, remembered>>

\* The memory of an upload lasts a day; the server's row expires on its own.
Forget ==
  /\ tab.at = "rest" /\ memory # NoMemory /\ Mishap
  /\ memory' = NoMemory
  /\ UNCHANGED <<kept, requests, tab, imported, unaware>>

CrashServer == /\ ServerCrash
         /\ Misses(Pending \ WithAnswer)
         /\ UNCHANGED <<tab, remembered>>

\* A day passes between two runs, or while a machine sleeps in one.
DayPasses(u) ==
  /\ ExpireUpload(u)
  /\ IF tab.at = "rest" THEN UNCHANGED mishaps ELSE Mishap
  /\ UNCHANGED <<tab, remembered, unaware>>
-----------------------------------------------------------------------------
Local == UNCHANGED <<tab, remembered, unaware>>

\* A new id is one that no memory names either.
NewSessions == {s \in Sessions \ {memory.of, imported} : NewSession(s)}
NewUploads == {u \in UploadIds \ {memory.upload, tab.upload} : NewUpload(u)}
Makes(h) ==
  \/ NewSessions # {} /\ CreateSession(h, CHOOSE s \in NewSessions : TRUE)
  \/ NewUploads # {} /\ CreateUpload(h, CHOOSE u \in NewUploads : TRUE)

Server(h) == (Serve(h) \/ Makes(h)) /\ Local

TabSends == Begin \/ RefetchSessions \/ Recall \/ (\E n \in Parts : SendPart(n)) \/ Complete
TabHears(h) ==
  \/ Checked(h) \/ Created(h) \/ Recalled(h) \/ Started(h) \/ PartAnswered(h) \/ Reread(h)
  \/ Completed(h) \/ Undone(h)

ImportNext ==
  \/ \E h \in requests : Server(h) \/ TabHears(h) \/ AnswerLost(h) \/ NeverArrives(h)
  \/ TabSends \/ ClosePage \/ Abort \/ Forget \/ CrashServer
  \/ \E s \in Sessions : (Roll(s) \/ Unroll(s)) /\ Local
  \/ \E u \in UploadIds : DayPasses(u)
  \/ SweepUploads /\ Local

ImportSpec == ImportInit /\ [][ImportNext]_importVars

\* Handlers run on, whether they are heard or not, the sweeper's timer fires, and the tab goes on
\* with its run.  Between two runs, often enough, a day passes: nothing that a run does to an upload
\* it cannot finish puts off its expiry.
ImportFairness ==
  /\ \A b \in BOOLEAN : WF_importVars(\E h \in requests : h.heard = b /\ Server(h))
  /\ SF_importVars(tab.at = "rest" /\ \E u \in UploadIds : DayPasses(u))
  /\ WF_importVars(SweepUploads /\ Local)
  /\ WF_importVars(tab.at # "rest" /\ TabSends)
  /\ WF_importVars(\E h \in requests : TabHears(h))

ImportFairSpec == ImportSpec /\ ImportFairness
-----------------------------------------------------------------------------
Imports(s) == Shown(s) /\ TakesIn(s) # {}

\* A take that a session lists has all of its bytes in its blob, whatever was lost of the staged
\* file on the way, and whichever of two completions adopted it.
TakeWhole == \A u \in listed : place[u] = "blob" /\ whole[u] = Parts

\* As long as the tab heard of every completion and deletion, and no completion failed after it had
\* listed its take, the group has one take at most in the sessions that are shown, and no session
\* that was deleted again holds one.
ImportedOnce ==
  ~unaware /\ ~halfway =>
             /\ Cardinality({u \in listed : Shown(upload[u].of)}) <= 1
             /\ \A u \in listed : Shown(upload[u].of)

\* What the runner says of its roll-back: the session it deletes has no audio.
HidesOnlyEmpty ==
  [][\A s \in Sessions : Imports(s) => Shown(s)']_importVars

\* A user who runs the import again and again, in a session where no recording goes on for ever,
\* in the end keeps the take of an upload that was left to be resumed, in a session that is shown,
\* or a session that was made without the tab hearing of it stands in the way: nothing that a
\* later run, a late refusal or a late deletion does takes it away for good.
Stray(s) == Shown(s) /\ s \notin {memory.of, imported} /\ TakesIn(s) = {}
RerunLands ==
  (WF_importVars(Begin) /\ WF_importVars(\E s \in Sessions : Unroll(s) /\ Local))
    => ((tab.at = "rest" /\ memory # NoMemory) ~> [](\E s \in Sessions : Imports(s) \/ Stray(s)))
=============================================================================
