--------------------------- MODULE DesignQuestions ---------------------------
(***************************************************************************)
(* The questions a design turn asks its user, each a row of the shared     *)
(* key-value store that any process can answer with one compare-and-swap.  *)
(*                                                                         *)
(* The turn's process stores a question's row before it holds the question *)
(* locally, polls its rows, takes an answered row and hands the answer to  *)
(* the agent.  When the turn ends by any path its questions are denied and *)
(* their rows deleted.  Every call of the store may fail, carried out or   *)
(* not; a row nobody deletes expires after the turn's deadline.            *)
(***************************************************************************)
EXTENDS FiniteSets

CONSTANTS Questions,  \* the questions of one turn
          Replies,    \* answers sent by users, to any process
          ReplyTo,    \* per reply: its question
          Fitting     \* the replies of the turn's own user with one answer a question

Unset == "unset"

ASSUME QuestionAssumption ==
  /\ ReplyTo \in [Replies -> Questions]
  /\ Fitting \subseteq Replies
  /\ Unset \notin Questions
  /\ Replies \cap {Unset, "pending", "gone", "deny", "dead"} = {}

VARIABLES
  turn,      \* active, overdue (past its deadline), over (abandoned) or dead
  stored,    \* per question: its row (unset, pending, the reply it was answered with, gone)
  asking,    \* per question: new, storing, armed (held locally) or settled
  result,    \* per question: what the agent was told (a reply, deny; dead with the process)
  answering, \* per reply: new, read (its row was pending), accepted, refused or unanswered
  polling,   \* the poll under way: the questions left, the one taken and what it took
  shown,     \* questions the user was shown
  deleting,  \* questions with a delete of their row in flight
  unheard    \* history: questions whose take was carried out but not answered

questionVars == <<turn, stored, asking, result, answering, polling,
                  deleting, shown, unheard>>

Armed == {q \in Questions : asking[q] = "armed"}
NoPoll == [on |-> FALSE, left |-> {}, taking |-> Unset]
Answered(q) == stored[q] \in Replies

-----------------------------------------------------------------------------
QuestionInit ==
  /\ turn = "active"
  /\ stored = [q \in Questions |-> Unset]
  /\ asking = [q \in Questions |-> "new"]
  /\ result = [q \in Questions |-> Unset]
  /\ answering = [a \in Replies |-> "new"]
  /\ polling = NoPoll
  /\ deleting = {} /\ shown = {} /\ unheard = {}

\* The agent is told, and the question is no longer held.
Settle(q, told) ==
  /\ asking' = [asking EXCEPT ![q] = "settled"]
  /\ result' = [result EXCEPT ![q] = told]

\* register: an abandoned turn is refused at once, else the row is being stored.
Ask(q) ==
  /\ asking[q] = "new"
  /\ \/ turn = "over" /\ Settle(q, "deny")
     \/ /\ turn \in {"active", "overdue"}
        /\ asking' = [asking EXCEPT ![q] = "storing"]
        /\ UNCHANGED result
  /\ UNCHANGED <<turn, stored, answering, polling, deleting, shown, unheard>>

\* The row is stored: the question is held, polled and shown, or, when its turn ended meanwhile,
\* denied and its row deleted.  (An abandoned turn is remembered for longer than a put takes.)
RowStored(q) ==
  /\ asking[q] = "storing"
  /\ stored' = [stored EXCEPT ![q] = "pending"]
  /\ IF turn = "over"
     THEN Settle(q, "deny") /\ deleting' = deleting \cup {q} /\ UNCHANGED shown
     ELSE /\ asking' = [asking EXCEPT ![q] = "armed"]
          /\ shown' = shown \cup {q}
          /\ UNCHANGED <<result, deleting>>
  /\ UNCHANGED <<turn, answering, polling, unheard>>

\* The put fails, carried out or not: the question is denied and never shown.
StoreFails(q) ==
  /\ asking[q] = "storing"
  /\ \/ stored' = [stored EXCEPT ![q] = "pending"]
     \/ UNCHANGED stored
  /\ Settle(q, "deny")
  /\ UNCHANGED <<turn, answering, polling, deleting, shown, unheard>>

-----------------------------------------------------------------------------
\* resolveAnswer: the row must be pending and the reply fit it.
ReadForAnswer(a) ==
  LET q == ReplyTo[a]
  IN /\ answering[a] = "new"
     /\ q \in shown
     /\ answering' = [answering EXCEPT ![a] =
                        IF stored[q] = "pending" /\ a \in Fitting THEN "read" ELSE "refused"]
     /\ UNCHANGED <<turn, stored, asking, result, polling, deleting, shown, unheard>>

\* Mutant: the answer is put over whatever row there is.
MutSwapAnswer(a) ==
  LET q == ReplyTo[a]
  IN /\ answering[a] = "read"
     /\ stored' = [stored EXCEPT ![q] = a]
     /\ answering' = [answering EXCEPT ![a] = "accepted"]
     /\ UNCHANGED <<turn, asking, result, polling, deleting, shown, unheard>>

\* The swap from pending to answered: accepted, refused when the row changed meanwhile, or
\* failed, carried out or not.
SwapAnswer(a) ==
  LET q == ReplyTo[a]
      done == [stored EXCEPT ![q] = a]
  IN /\ answering[a] = "read"
     /\ \/ /\ stored[q] = "pending" /\ stored' = done
           /\ answering' = [answering EXCEPT ![a] = "accepted"]
        \/ /\ stored[q] # "pending" /\ UNCHANGED stored
           /\ answering' = [answering EXCEPT ![a] = "refused"]
        \/ /\ stored' = IF stored[q] = "pending" THEN done ELSE stored
           /\ answering' = [answering EXCEPT ![a] = "unanswered"]
        \/ UNCHANGED stored /\ answering' = [answering EXCEPT ![a] = "unanswered"]
     /\ UNCHANGED <<turn, asking, result, polling, deleting, shown, unheard>>

-----------------------------------------------------------------------------
\* A tick of the poller, unless the previous one still runs: the questions held now.
PollStarts ==
  /\ ~polling.on /\ Armed # {}
  /\ polling' = [on |-> TRUE, left |-> Armed, taking |-> Unset]
  /\ UNCHANGED <<turn, stored, asking, result, answering, deleting, shown, unheard>>

\* A row is read: missing, it denies its question; answered, it is taken next; a read that
\* fails, a pending row and a question abandoned meanwhile are passed over.
PollRow(q) ==
  /\ polling.on /\ polling.taking = Unset /\ q \in polling.left
  /\ \/ /\ asking[q] = "armed" /\ stored[q] \in {Unset, "gone"}
        /\ Settle(q, "deny")
        /\ polling' = [polling EXCEPT !.left = @ \ {q}]
     \/ /\ asking[q] = "armed" /\ Answered(q)
        /\ polling' = [polling EXCEPT !.left = @ \ {q}, !.taking = q]
        /\ UNCHANGED <<asking, result>>
     \/ /\ polling' = [polling EXCEPT !.left = @ \ {q}]
        /\ UNCHANGED <<asking, result>>
  /\ UNCHANGED <<turn, stored, answering, deleting, shown, unheard>>

\* The row is taken and its answer handed to the agent, unless the question was abandoned.
Take ==
  LET q == polling.taking
  IN /\ q # Unset
     /\ stored' = [stored EXCEPT ![q] = "gone"]
     /\ IF asking[q] = "armed"
        THEN Settle(q, IF Answered(q) THEN stored[q] ELSE "deny")
        ELSE UNCHANGED <<asking, result>>
     /\ polling' = [polling EXCEPT !.taking = Unset]
     /\ UNCHANGED <<turn, answering, deleting, shown, unheard>>

\* The take fails, carried out or not; the next tick finds what is there.
TakeFails ==
  LET q == polling.taking
  IN /\ q # Unset
     /\ \/ stored' = [stored EXCEPT ![q] = "gone"] /\ unheard' = unheard \cup {q}
        \/ UNCHANGED <<stored, unheard>>
     /\ polling' = [polling EXCEPT !.taking = Unset]
     /\ UNCHANGED <<turn, asking, result, answering, deleting, shown>>

PollEnds ==
  /\ polling.on /\ polling.left = {} /\ polling.taking = Unset
  /\ polling' = NoPoll
  /\ UNCHANGED <<turn, stored, asking, result, answering, deleting, shown, unheard>>

-----------------------------------------------------------------------------
\* Mutant: the turn's end stops the poller and deletes the rows only.
MutAbandonTurn ==
  /\ turn \in {"active", "overdue"}
  /\ turn' = "over"
  /\ deleting' = deleting \cup Armed
  /\ UNCHANGED <<stored, asking, result, answering, polling, shown, unheard>>

\* abandonTurn, on every exit path of the turn: each question held is denied, its row deleted.
AbandonTurn ==
  /\ turn \in {"active", "overdue"}
  /\ turn' = "over"
  /\ asking' = [q \in Questions |-> IF q \in Armed THEN "settled" ELSE asking[q]]
  /\ result' = [q \in Questions |-> IF q \in Armed THEN "deny" ELSE result[q]]
  /\ deleting' = deleting \cup Armed
  /\ UNCHANGED <<stored, answering, polling, shown, unheard>>

\* A delete lands, or fails and leaves the row to expire.
Delete(q) ==
  /\ q \in deleting
  /\ deleting' = deleting \ {q}
  /\ stored' \in {stored, [stored EXCEPT ![q] = "gone"]}
  /\ UNCHANGED <<turn, asking, result, answering, polling, shown, unheard>>

\* The deadline and its five seconds pass before the turn has ended.
Overdue ==
  /\ turn = "active"
  /\ turn' = "overdue"
  /\ UNCHANGED <<stored, asking, result, answering, polling, deleting, shown, unheard>>

RowExpires(q) ==
  /\ turn # "active"
  /\ stored[q] \notin {Unset, "gone"}
  /\ stored' = [stored EXCEPT ![q] = "gone"]
  /\ UNCHANGED <<turn, asking, result, answering, polling, deleting, shown, unheard>>

\* The turn's process dies: nothing of it goes on, the rows expire.
ProcessDies ==
  /\ turn # "dead"
  /\ turn' = "dead"
  /\ asking' = [q \in Questions |-> "settled"]
  /\ result' = [q \in Questions |-> IF result[q] = Unset THEN "dead" ELSE result[q]]
  /\ polling' = NoPoll
  /\ deleting' = {}
  /\ UNCHANGED <<stored, answering, shown, unheard>>

QuestionNext ==
  \/ \E q \in Questions :
       Ask(q) \/ RowStored(q) \/ StoreFails(q) \/ PollRow(q) \/ Delete(q) \/ RowExpires(q)
  \/ \E a \in Replies : ReadForAnswer(a) \/ SwapAnswer(a)
  \/ PollStarts \/ Take \/ TakeFails \/ PollEnds
  \/ AbandonTurn \/ Overdue \/ ProcessDies

QuestionSpec == QuestionInit /\ [][QuestionNext]_questionVars

\* The store answers or fails each call, the poller ticks, rows expire and a turn ends by its
\* deadline at the latest; no user is assumed to answer.
QuestionFairness ==
  /\ \A q \in Questions :
       /\ WF_questionVars(RowStored(q) \/ StoreFails(q))
       /\ WF_questionVars(PollRow(q)) /\ WF_questionVars(RowExpires(q))
  /\ WF_questionVars(PollStarts) /\ WF_questionVars(Take \/ TakeFails) /\ WF_questionVars(PollEnds)
  /\ WF_questionVars(AbandonTurn)

-----------------------------------------------------------------------------
QuestionTypeOK ==
  /\ turn \in {"active", "overdue", "over", "dead"}
  /\ stored \in [Questions -> {Unset, "pending", "gone"} \cup Replies]
  /\ asking \in [Questions -> {"new", "storing", "armed", "settled"}]
  /\ result \in [Questions -> {Unset, "deny", "dead"} \cup Replies]
  /\ answering \in [Replies -> {"new", "read", "accepted", "refused", "unanswered"}]
  /\ polling \in [on : BOOLEAN, left : SUBSET Questions, taking : Questions \cup {Unset}]
  /\ deleting \subseteq Questions /\ shown \subseteq Questions /\ unheard \subseteq Questions

\* The agent is only ever told the reply that took the question's row, a fitting one sent to
\* that question that was accepted or got no answer; of the replies to one question at most one
\* is accepted, and then no other reaches the agent; and an accepted reply does reach it unless
\* the turn ended first or the take was not heard.
AnswerUsed ==
  /\ \A q \in Questions : result[q] \in Replies =>
       /\ ReplyTo[result[q]] = q
       /\ result[q] \in Fitting /\ answering[result[q]] \in {"accepted", "unanswered"}
  /\ \A a \in Replies : answering[a] = "accepted" =>
       LET q == ReplyTo[a]
       IN /\ \A b \in Replies \ {a} :
               ReplyTo[b] = q => answering[b] # "accepted" /\ result[q] # b
          /\ result[q] = "deny" => turn # "active" \/ q \in unheard

\* Every question that the agent asks is settled, by an answer or a denial, unless the turn's
\* process dies: a question never holds the turn, and its lease, for ever.
QuestionsSettle ==
  \A q \in Questions : asking[q] # "new" ~> asking[q] = "settled"
=============================================================================
