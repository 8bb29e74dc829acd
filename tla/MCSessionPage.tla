--------------------------- MODULE MCSessionPage ---------------------------
(***************************************************************************)
(* What a session's page shows and sends, and the server works on: the     *)
(* record of a log import (one sheet, one poll, one failed write), the     *)
(* questions of a design turn (two: one with two rival replies, one with a *)
(* reply that does not fit it), the chunk upload queue (two chunks, the    *)
(* recorder's tab and a second one, two events), and the audio of a        *)
(* recording (two windows, one of them uploaded twice, two merges, one     *)
(* run, one crash).                                                        *)
(*                                                                         *)
(* A behaviour shows one of the four. The import and the turn start where  *)
(* they have ended when it is not theirs, so that none of their actions is *)
(* enabled; a take and a recording's audio that have not begun have        *)
(* nothing fair to do.                                                     *)
(***************************************************************************)
EXTENDS ImportJob, DesignQuestions, ChunkUploads, RecordingAudio, TLC

CONSTANTS p1, q1, q2, a1, a2, b1, u1, u2, u3, m1, m2, w1, w2

MCQuestions == {q1, q2}
MCReplyTo == a1 :> q1 @@ a2 :> q1 @@ b1 :> q2
MCReplies == DOMAIN MCReplyTo
MCFitting == {a1, a2}
MCWindows == {w1, w2}
MCUploads == {u1, u2, u3}
MCWindowOf == u1 :> w1 @@ u2 :> w2 @@ u3 :> w1
MCMerges == {m1, m2}
MCWav == {}

VARIABLE side

NoJob ==
  /\ record = Gone /\ local = Gone /\ last = Gone /\ sent = Gone /\ late = {} /\ chain = <<>>
  /\ lostJob = FALSE /\ runner = "dead" /\ todo = 0 /\ logged = 0 /\ beats = 0 /\ faults = 0
  /\ poll = [p \in Polls |-> [at |-> "idle", saw |-> Gone, tries |-> 0]]
  /\ said = [p \in Polls |-> "gone"]

NoQuestions ==
  /\ turn = "dead" /\ polling = NoPoll /\ deleting = {} /\ shown = {} /\ unheard = {}
  /\ stored = [q \in Questions |-> Unset]
  /\ asking = [q \in Questions |-> "settled"]
  /\ result = [q \in Questions |-> "dead"]
  /\ answering = [a \in Replies |-> "refused"]

PartsInit ==
  /\ AudioInit /\ ChunkInit
  /\ \/ side = "import" /\ JobInit /\ NoQuestions
     \/ side = "turn" /\ NoJob /\ QuestionInit
     \/ side \in {"queue", "audio"} /\ NoJob /\ NoQuestions

PartsNext ==
  \/ side = "import" /\ JobNext /\ UNCHANGED <<side, questionVars, chunkVars, audioVars>>
  \/ side = "turn" /\ QuestionNext /\ UNCHANGED <<side, jobVars, chunkVars, audioVars>>
  \/ side = "queue" /\ ChunkNext /\ UNCHANGED <<side, jobVars, questionVars, audioVars>>
  \/ side = "audio" /\ AudioNext /\ UNCHANGED <<side, jobVars, questionVars, chunkVars>>

PartsSpec ==
  /\ PartsInit /\ [][PartsNext]_<<side, jobVars, questionVars, chunkVars, audioVars>>
  /\ JobFairness /\ QuestionFairness /\ WF_chunkVars(PageStep) /\ AudioFairness
=============================================================================
