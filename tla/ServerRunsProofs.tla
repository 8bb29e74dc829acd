-------------------------- MODULE ServerRunsProofs --------------------------
(***************************************************************************)
(* What holds of the work that the server's processes share, for every     *)
(* number of processes and requests: the single flight of a run            *)
(* (RunLease), the questions of a design turn (DesignQuestions) and the    *)
(* record of a log import (ImportJob).  The three parts are independent.   *)
(***************************************************************************)
EXTENDS RunLease, ImportJob, DesignQuestions,
        FiniteSetTheorems, FunctionTheorems, SequenceTheorems, TLAPS

-----------------------------------------------------------------------------
(* The single flight of a run: the slot is exact, an ended run holds       *)
(* nothing, and two runs overlap only after one lapsed.  None of the three *)
(* needs the others.                                                       *)

\* Every reachable state is well typed (the run's steps in runLease.ts).
LEMMA TypeStep ==
  ASSUME TypeOK, [Next]_vars
  PROVE  TypeOK'
<1> USE RunAssumption DEF TypeOK, Phases
<1>1. CASE Tick
  BY <1>1 DEF Tick
<1>2. CASE Sweep
  BY <1>2 DEF Sweep, NoRow
<1>3. ASSUME NEW r \in Runs, Start(r) PROVE TypeOK'
  BY <1>3 DEF Start
<1>4. ASSUME NEW r \in Runs, ClaimWins(r) PROVE TypeOK'
  BY <1>4 DEF ClaimWins, Upserted
<1>5. ASSUME NEW r \in Runs, ClaimLoses(r) PROVE TypeOK'
  BY <1>5 DEF ClaimLoses, Upserted
<1>6. ASSUME NEW r \in Runs, RenewTick(r) PROVE TypeOK'
  BY <1>6 DEF RenewTick
<1>7. ASSUME NEW r \in Runs, RenewEnds(r) PROVE TypeOK'
  BY <1>7 DEF RenewEnds, Upserted
<1>8. ASSUME NEW r \in Runs, Stop(r) PROVE TypeOK'
  BY <1>8 DEF Stop
<1>9. ASSUME NEW r \in Runs, Release(r) PROVE TypeOK'
  BY <1>9 DEF Release, NoRow
<1>10. ASSUME NEW p \in Processes, Crash(p) PROVE TypeOK'
  BY <1>10 DEF Crash
<1>11. CASE UNCHANGED vars
  BY <1>11 DEF vars
<1> QED
  BY <1>1, <1>2, <1>3, <1>4, <1>5, <1>6, <1>7, <1>8, <1>9, <1>10, <1>11 DEF Next

\* The initial state of a process that runs nothing is well typed.
LEMMA InitTyped == Init => TypeOK
  BY RunAssumption DEF Init, TypeOK, Phases, NoRow

\* Every reachable state is well typed, for any runs, processes and TTL.
THEOREM RunTyped == Spec => []TypeOK
<1>1. TypeOK /\ [Next]_vars => TypeOK'
  BY TypeStep
<1> QED
  BY InitTyped, <1>1, PTL DEF Spec

-----------------------------------------------------------------------------
\* A live promise is backed by the stored row (claimLeaseUncounted's upsert), which is why no
\* other run's claim wins and no sweep deletes the row meanwhile.
Backed ==
  \A r \in Runs :
    /\ promise[r] > time => row.holder = r /\ row.expires >= promise[r]
    /\ promise[r] <= time + TTL

\* Claims, renewals, releases and sweeps keep every live promise backed.
LEMMA BackedStep ==
  ASSUME TypeOK, Backed, [Next]_vars
  PROVE  Backed'
<1> USE RunAssumption DEF TypeOK, Backed
<1>1. CASE Tick
  BY <1>1 DEF Tick
<1>2. CASE Sweep
  BY <1>2 DEF Sweep
<1>3. ASSUME NEW r \in Runs, Start(r) PROVE Backed'
  BY <1>3 DEF Start
<1>4. ASSUME NEW r \in Runs, ClaimWins(r) PROVE Backed'
  BY <1>4 DEF ClaimWins, Claimable, Live, Upserted
<1>5. ASSUME NEW r \in Runs, ClaimLoses(r) PROVE Backed'
  BY <1>5 DEF ClaimLoses, Claimable, Live, Upserted
<1>6. ASSUME NEW r \in Runs, RenewTick(r) PROVE Backed'
  BY <1>6 DEF RenewTick
<1>7. ASSUME NEW r \in Runs, RenewEnds(r) PROVE Backed'
  BY <1>7 DEF RenewEnds, Claimable, Live, Upserted
<1>8. ASSUME NEW r \in Runs, Stop(r) PROVE Backed'
  BY <1>8 DEF Stop
<1>9. ASSUME NEW r \in Runs, Release(r) PROVE Backed'
  BY <1>9 DEF Release
<1>10. ASSUME NEW p \in Processes, Crash(p) PROVE Backed'
  BY <1>10 DEF Crash
<1>11. CASE UNCHANGED vars
  BY <1>11 DEF vars
<1> QED
  BY <1>1, <1>2, <1>3, <1>4, <1>5, <1>6, <1>7, <1>8, <1>9, <1>10, <1>11 DEF Next

\* Two runs of one kind are live on a session at once only when one of them failed to renew for
\* a whole TTL, whatever processes they run in (the slot and the row of claimAiLease).
THEOREM RunExclusive == Spec => []OverlapOnlyAfterLapse
<1>1. Init => Backed
  <2> SUFFICES ASSUME Init
               PROVE  Backed
    OBVIOUS
  <2>1. time = 0 /\ \A r \in Runs : promise[r] = 0
    BY DEF Init
  <2>2. ~(0 > 0) /\ 0 <= 0 + TTL
    BY RunAssumption
  <2> QED
    BY <2>1, <2>2, RunAssumption DEF Backed
<1>2. TypeOK /\ Backed /\ [Next]_vars => (TypeOK /\ Backed)'
  BY TypeStep, BackedStep
<1>3. TypeOK /\ Backed => OverlapOnlyAfterLapse
  BY DEF TypeOK, Backed, OverlapOnlyAfterLapse
<1> QED
  BY InitTyped, <1>1, <1>2, <1>3, PTL DEF Spec

-----------------------------------------------------------------------------
\* A run owns a row or a renewal only from its claim to its release (holdRunLease), but for
\* strays; a process that died may have left its row.
Owners ==
  /\ \A r \in Runs : row.holder = r /\ r \notin stray => phase[r] \in {"running", "stopping", "dead"}
  /\ \A r \in renewing : phase[r] \in {"running", "stopping"}

\* The release waits for the renewal in flight, so no step gives an ended run a row again.
LEMMA OwnersStep ==
  ASSUME TypeOK, Owners, [Next]_vars
  PROVE  Owners'
<1> USE RunAssumption DEF TypeOK, Owners
<1>1. CASE Tick
  BY <1>1 DEF Tick
<1>2. CASE Sweep
  BY <1>2 DEF Sweep, NoRow
<1>3. ASSUME NEW r \in Runs, Start(r) PROVE Owners'
  BY <1>3 DEF Start
<1>4. ASSUME NEW r \in Runs, ClaimWins(r) PROVE Owners'
  BY <1>4 DEF ClaimWins, Upserted
<1>5. ASSUME NEW r \in Runs, ClaimLoses(r) PROVE Owners'
  BY <1>5 DEF ClaimLoses, Claimable, Upserted
<1>6. ASSUME NEW r \in Runs, RenewTick(r) PROVE Owners'
  BY <1>6 DEF RenewTick
<1>7. ASSUME NEW r \in Runs, RenewEnds(r) PROVE Owners'
  BY <1>7 DEF RenewEnds, Upserted
<1>8. ASSUME NEW r \in Runs, Stop(r) PROVE Owners'
  BY <1>8 DEF Stop
<1>9. ASSUME NEW r \in Runs, Release(r) PROVE Owners'
  BY <1>9 DEF Release, NoRow
<1>10. ASSUME NEW p \in Processes, Crash(p) PROVE Owners'
  BY <1>10 DEF Crash
<1>11. CASE UNCHANGED vars
  BY <1>11 DEF vars
<1> QED
  BY <1>1, <1>2, <1>3, <1>4, <1>5, <1>6, <1>7, <1>8, <1>9, <1>10, <1>11 DEF Next

\* A run that ended with its release done holds no row: no renewal lands after the release and
\* blocks the session's next run.
THEOREM RunLeavesNothing == Spec => []NoGhostHolder
<1>1. Init => Owners
  BY RunAssumption DEF Init, Owners, NoRow
<1>2. TypeOK /\ Owners /\ [Next]_vars => (TypeOK /\ Owners)'
  BY TypeStep, OwnersStep
<1>3. Owners => NoGhostHolder
  BY DEF Owners, NoGhostHolder
<1> QED
  BY InitTyped, <1>1, <1>2, <1>3, PTL DEF Spec

-----------------------------------------------------------------------------
\* Taking and freeing the slot (AiChatTurnRegistry) goes with entering and leaving Active.
LEMMA SlotStep ==
  ASSUME TypeOK, SlotExact, [Next]_vars
  PROVE  SlotExact'
<1> USE DEF TypeOK, SlotExact, Active
<1>1. CASE Tick \/ Sweep \/ UNCHANGED vars
  BY <1>1 DEF Tick, Sweep, vars
<1>2. ASSUME NEW r \in Runs, Start(r) PROVE SlotExact'
  BY <1>2 DEF Start
<1>3. ASSUME NEW r \in Runs, ClaimWins(r) \/ Stop(r) PROVE SlotExact'
  <2>1. Active' = Active /\ host' = host /\ slot' = slot
    BY <1>3 DEF ClaimWins, Stop
  <2> QED
    BY <2>1
<1>4. ASSUME NEW r \in Runs, ClaimLoses(r) \/ Release(r) PROVE SlotExact'
  <2>1. r \in Active /\ Active' = Active \ {r} /\ host' = host /\ slot' = slot \ {host[r]}
    BY <1>4 DEF ClaimLoses, Release
  <2> QED
    BY <2>1
<1>5. ASSUME NEW r \in Runs, RenewTick(r) \/ RenewEnds(r) PROVE SlotExact'
  BY <1>5 DEF RenewTick, RenewEnds
<1>6. ASSUME NEW p \in Processes, Crash(p) PROVE SlotExact'
  <2>1. Active' = {r \in Active : host[r] # p} /\ host' = host /\ slot' = slot \ {p}
    BY <1>6 DEF Crash
  <2> QED
    BY <2>1
<1> QED
  BY <1>1, <1>2, <1>3, <1>4, <1>5, <1>6 DEF Next

\* A process's slot is taken exactly while one of its runs is between its check and the end of
\* its release: no refusal, error, lost lease or crash leaks it or frees it early.
THEOREM RunSlotExact == Spec => []SlotExact
<1>1. Init => SlotExact
  BY DEF Init, SlotExact, Active
<1>2. TypeOK /\ SlotExact /\ [Next]_vars => (TypeOK /\ SlotExact)'
  BY TypeStep, SlotStep
<1> QED
  BY InitTyped, <1>1, <1>2, PTL DEF Spec

-----------------------------------------------------------------------------
(* The questions of a design turn, for any questions, any replies and any  *)
(* failures of the store.  AnswerUsed is not inductive: it needs what a    *)
(* row can be at each stage of its question.  A row is written once,       *)
(* before the question is shown; only a shown and pending row is answered; *)
(* and a row is gone under a held question only when the turn has run out  *)
(* or a take was not heard.                                                *)

\* A row exists only once its store has been answered, a held or shown question has had one, and
\* the agent is told nothing before its question is settled.
RowsFollowAsking ==
  \A q \in Questions :
    /\ stored[q] # Unset => asking[q] \in {"armed", "settled"}
    /\ asking[q] = "armed" \/ q \in shown => stored[q] # Unset
    /\ asking[q] # "settled" => result[q] = Unset
    /\ q \in deleting => asking[q] = "settled"

\* An answered row holds a fitting reply to its own question whose swap was carried out; an
\* accepted reply is in its row until the row is gone; a reply on its way was read from a shown row.
RowsFollowReplies ==
  /\ \A q \in Questions : stored[q] \in Replies =>
       /\ ReplyTo[stored[q]] = q
       /\ stored[q] \in Fitting /\ answering[stored[q]] \in {"accepted", "unanswered"}
  /\ \A a \in Replies :
       /\ answering[a] = "read" => a \in Fitting /\ ReplyTo[a] \in shown
       /\ answering[a] = "accepted" =>
            ReplyTo[a] \in shown /\ stored[ReplyTo[a]] \in {a, "gone"}

\* What the agent was told took the row with it, and a taken row was an answered one.
ResultsFollowRows ==
  /\ \A q \in Questions : result[q] \in Replies => stored[q] = "gone"
  /\ polling.taking # Unset => stored[polling.taking] \in Replies \cup {"gone"}

\* A row is gone, or its shown question denied, only when the turn has run out, the take was not
\* heard, or (denied) the row is gone.
GoneForAReason ==
  \A q \in Questions :
    /\ stored[q] = "gone" /\ asking[q] = "armed" => turn # "active" \/ q \in unheard
    /\ result[q] = "deny" => turn # "active" \/ q \in unheard \/ stored[q] = "gone" \/ q \notin shown

\* The inductive invariant.
QuestionInv ==
  QuestionTypeOK /\ RowsFollowAsking /\ RowsFollowReplies /\ ResultsFollowRows
    /\ GoneForAReason /\ AnswerUsed

-----------------------------------------------------------------------------
\* No reply is one of the other values of a row, and each reply has its question.
LEMMA RepliesApart ==
  /\ \A a \in Replies : a \notin {Unset, "pending", "gone", "deny", "dead"} /\ ReplyTo[a] \in Questions
  /\ Fitting \subseteq Replies
BY QuestionAssumption DEF QuestionAssumption, Unset

\* The invariant holds before the first question.
LEMMA QuestionInvInit == QuestionInit => QuestionInv
BY RepliesApart DEF QuestionInit, QuestionInv, QuestionTypeOK, RowsFollowAsking, RowsFollowReplies,
   ResultsFollowRows, GoneForAReason, AnswerUsed, NoPoll, Unset

\* Every step of the turn, the store, the users and the poller keeps the invariant.
LEMMA QuestionInvKept == QuestionInv /\ [QuestionNext]_questionVars => QuestionInv'
<1> SUFFICES ASSUME QuestionInv, [QuestionNext]_questionVars PROVE QuestionInv'
  OBVIOUS
<1> USE RepliesApart DEF QuestionInv
<1>1. ASSUME NEW q \in Questions, Ask(q) PROVE QuestionInv'
  <2>1. QuestionTypeOK'
    BY <1>1 DEF Ask, Settle, QuestionTypeOK
  <2>2. stored[q] = Unset /\ q \notin shown
    BY <1>1 DEF Ask, RowsFollowAsking, QuestionTypeOK
  <2>3. RowsFollowAsking' /\ RowsFollowReplies' /\ ResultsFollowRows' /\ GoneForAReason'
    BY <1>1, <2>2 DEF Ask, Settle, QuestionTypeOK, RowsFollowAsking, RowsFollowReplies,
       ResultsFollowRows, GoneForAReason, Unset
  <2>4. AnswerUsed'
    BY <1>1, <2>2 DEF Ask, Settle, QuestionTypeOK, RowsFollowReplies, AnswerUsed
  <2> QED BY <2>1, <2>3, <2>4
<1>2. ASSUME NEW q \in Questions, RowStored(q) PROVE QuestionInv'
  <2>1. stored[q] = Unset /\ q \notin shown
    BY <1>2 DEF RowStored, RowsFollowAsking, QuestionTypeOK
  <2>2. QuestionTypeOK'
    BY <1>2 DEF RowStored, Settle, QuestionTypeOK
  <2>3. \A a \in Replies : answering[a] \in {"read", "accepted"} => ReplyTo[a] # q
    BY <2>1 DEF RowsFollowReplies
  <2>4. RowsFollowAsking' /\ GoneForAReason'
    BY <1>2, <2>1 DEF RowStored, Settle, QuestionTypeOK, RowsFollowAsking, GoneForAReason, Unset
  <2>5. RowsFollowReplies' /\ ResultsFollowRows'
    BY <1>2, <2>1, <2>3 DEF RowStored, Settle, QuestionTypeOK, RowsFollowReplies,
       ResultsFollowRows, Unset
  <2>6. AnswerUsed'
    BY <1>2, <2>3 DEF RowStored, Settle, QuestionTypeOK, AnswerUsed
  <2> QED BY <2>2, <2>4, <2>5, <2>6
<1>3. ASSUME NEW q \in Questions, StoreFails(q) PROVE QuestionInv'
  <2>1. stored[q] = Unset /\ q \notin shown
    BY <1>3 DEF StoreFails, Settle, QuestionTypeOK, RowsFollowAsking
  <2>2. QuestionTypeOK'
    BY <1>3, <2>1 DEF StoreFails, Settle, QuestionTypeOK
  <2>3. RowsFollowAsking' /\ RowsFollowReplies' /\ ResultsFollowRows' /\ GoneForAReason'
    BY <1>3, <2>1 DEF StoreFails, Settle, QuestionTypeOK, RowsFollowAsking, RowsFollowReplies,
       ResultsFollowRows, GoneForAReason, Unset
  <2>4. AnswerUsed'
    BY <1>3, <2>1 DEF StoreFails, Settle, QuestionTypeOK, RowsFollowReplies,
       ResultsFollowRows, GoneForAReason, AnswerUsed
  <2> QED BY <2>2, <2>3, <2>4
<1>4. ASSUME NEW a \in Replies, ReadForAnswer(a) PROVE QuestionInv'
  <2>1. QuestionTypeOK'
    BY <1>4 DEF ReadForAnswer, QuestionTypeOK
  <2>2. RowsFollowAsking' /\ RowsFollowReplies' /\ ResultsFollowRows' /\ GoneForAReason'
    BY <1>4 DEF ReadForAnswer, QuestionTypeOK, RowsFollowAsking, RowsFollowReplies,
       ResultsFollowRows, GoneForAReason, Unset
  <2>3. AnswerUsed'
    BY <1>4 DEF ReadForAnswer, QuestionTypeOK, RowsFollowReplies,
       ResultsFollowRows, GoneForAReason, AnswerUsed
  <2> QED BY <2>1, <2>2, <2>3
<1>5. ASSUME NEW a \in Replies, SwapAnswer(a) PROVE QuestionInv'
  <2>1. QuestionTypeOK'
    BY <1>5 DEF SwapAnswer, QuestionTypeOK
  <2>2. RowsFollowAsking' /\ RowsFollowReplies' /\ ResultsFollowRows' /\ GoneForAReason'
    BY <1>5 DEF SwapAnswer, QuestionTypeOK, RowsFollowAsking, RowsFollowReplies,
       ResultsFollowRows, GoneForAReason, Unset
  <2>3. AnswerUsed'
    BY <1>5 DEF SwapAnswer, QuestionTypeOK, RowsFollowReplies,
       ResultsFollowRows, GoneForAReason, AnswerUsed
  <2> QED BY <2>1, <2>2, <2>3
<1>6. ASSUME PollStarts PROVE QuestionInv'
  <2>1. QuestionTypeOK'
    BY <1>6 DEF PollStarts, Armed, QuestionTypeOK
  <2>2. RowsFollowAsking' /\ RowsFollowReplies' /\ ResultsFollowRows' /\ GoneForAReason'
    BY <1>6 DEF PollStarts, Armed, QuestionTypeOK, RowsFollowAsking, RowsFollowReplies,
       ResultsFollowRows, GoneForAReason, Unset
  <2>3. AnswerUsed'
    BY <1>6 DEF PollStarts, Armed, QuestionTypeOK, RowsFollowReplies,
       ResultsFollowRows, GoneForAReason, AnswerUsed
  <2> QED BY <2>1, <2>2, <2>3
<1>7. ASSUME NEW q \in Questions, PollRow(q) PROVE QuestionInv'
  <2>1. CASE stored[q] = "gone" /\ asking[q] = "armed" /\ Settle(q, "deny")
             /\ polling' = [polling EXCEPT !.left = @ \ {q}]
    <3>1. QuestionTypeOK'
      BY <1>7, <2>1 DEF PollRow, Settle, QuestionTypeOK
    <3>2. RowsFollowAsking' /\ RowsFollowReplies' /\ ResultsFollowRows'
      BY <1>7, <2>1 DEF PollRow, Settle, QuestionTypeOK, RowsFollowAsking, RowsFollowReplies,
         ResultsFollowRows, Unset
    <3>3. GoneForAReason' /\ AnswerUsed'
      BY <1>7, <2>1 DEF PollRow, Settle, QuestionTypeOK, GoneForAReason, AnswerUsed
    <3> QED BY <3>1, <3>2, <3>3
  <2>2. CASE asking[q] = "armed" /\ stored[q] \in Replies /\ UNCHANGED <<asking, result>>
             /\ polling' = [polling EXCEPT !.left = @ \ {q}, !.taking = q]
    <3>1. QuestionTypeOK'
      BY <1>7, <2>2 DEF PollRow, QuestionTypeOK
    <3>2. polling'.taking = q
      BY <2>2 DEF QuestionTypeOK
    <3>3. RowsFollowAsking' /\ RowsFollowReplies' /\ ResultsFollowRows'
      BY <1>7, <2>2, <3>2 DEF PollRow, RowsFollowAsking, RowsFollowReplies, ResultsFollowRows
    <3>4. GoneForAReason' /\ AnswerUsed'
      BY <1>7, <2>2 DEF PollRow, GoneForAReason, AnswerUsed
    <3> QED BY <3>1, <3>3, <3>4
  <2>3. CASE UNCHANGED <<asking, result>> /\ polling' = [polling EXCEPT !.left = @ \ {q}]
    <3>1. QuestionTypeOK' /\ polling'.taking = polling.taking
      BY <1>7, <2>3 DEF PollRow, QuestionTypeOK
    <3>2. RowsFollowAsking' /\ RowsFollowReplies' /\ ResultsFollowRows'
      BY <1>7, <2>3, <3>1 DEF PollRow, RowsFollowAsking, RowsFollowReplies, ResultsFollowRows
    <3>3. GoneForAReason' /\ AnswerUsed'
      BY <1>7, <2>3 DEF PollRow, GoneForAReason, AnswerUsed
    <3> QED BY <3>1, <3>2, <3>3
  <2>4. asking[q] = "armed" => stored[q] # Unset
    BY DEF RowsFollowAsking
  <2> QED BY <1>7, <2>1, <2>2, <2>3, <2>4 DEF PollRow, Answered
<1>8. ASSUME Take PROVE QuestionInv'
  <2>1. QuestionTypeOK'
    BY <1>8 DEF Take, Settle, Answered, QuestionTypeOK
  <2>2. RowsFollowAsking' /\ RowsFollowReplies' /\ ResultsFollowRows' /\ GoneForAReason'
    BY <1>8 DEF Take, Settle, Answered, QuestionTypeOK, RowsFollowAsking, RowsFollowReplies,
       ResultsFollowRows, GoneForAReason, Unset
  <2>3. AnswerUsed'
    BY <1>8 DEF Take, Settle, Answered, QuestionTypeOK, RowsFollowReplies,
       ResultsFollowRows, GoneForAReason, AnswerUsed
  <2> QED BY <2>1, <2>2, <2>3
<1>9. ASSUME TakeFails PROVE QuestionInv'
  <2>1. QuestionTypeOK'
    BY <1>9 DEF TakeFails, QuestionTypeOK
  <2>2. RowsFollowAsking' /\ RowsFollowReplies' /\ ResultsFollowRows' /\ GoneForAReason'
    BY <1>9 DEF TakeFails, QuestionTypeOK, RowsFollowAsking, RowsFollowReplies,
       ResultsFollowRows, GoneForAReason, Unset
  <2>3. AnswerUsed'
    BY <1>9 DEF TakeFails, QuestionTypeOK, RowsFollowReplies,
       ResultsFollowRows, GoneForAReason, AnswerUsed
  <2> QED BY <2>1, <2>2, <2>3
<1>10. ASSUME PollEnds PROVE QuestionInv'
  <2>1. QuestionTypeOK'
    BY <1>10 DEF PollEnds, NoPoll, QuestionTypeOK
  <2>2. RowsFollowAsking' /\ RowsFollowReplies' /\ ResultsFollowRows' /\ GoneForAReason'
    BY <1>10 DEF PollEnds, NoPoll, QuestionTypeOK, RowsFollowAsking, RowsFollowReplies,
       ResultsFollowRows, GoneForAReason, Unset
  <2>3. AnswerUsed'
    BY <1>10 DEF PollEnds, NoPoll, QuestionTypeOK, RowsFollowReplies,
       ResultsFollowRows, GoneForAReason, AnswerUsed
  <2> QED BY <2>1, <2>2, <2>3
<1>11. ASSUME AbandonTurn PROVE QuestionInv'
  <2>1. QuestionTypeOK'
    BY <1>11 DEF AbandonTurn, Armed, QuestionTypeOK
  <2>2. RowsFollowAsking' /\ RowsFollowReplies' /\ ResultsFollowRows' /\ GoneForAReason'
    BY <1>11 DEF AbandonTurn, Armed, QuestionTypeOK, RowsFollowAsking, RowsFollowReplies,
       ResultsFollowRows, GoneForAReason, Unset
  <2>3. AnswerUsed'
    BY <1>11 DEF AbandonTurn, Armed, QuestionTypeOK, RowsFollowReplies,
       ResultsFollowRows, GoneForAReason, AnswerUsed
  <2> QED BY <2>1, <2>2, <2>3
<1>12. ASSUME NEW q \in Questions, Delete(q) PROVE QuestionInv'
  <2>1. QuestionTypeOK'
    BY <1>12 DEF Delete, QuestionTypeOK
  <2>2. RowsFollowAsking' /\ RowsFollowReplies' /\ ResultsFollowRows' /\ GoneForAReason'
    BY <1>12 DEF Delete, QuestionTypeOK, RowsFollowAsking, RowsFollowReplies,
       ResultsFollowRows, GoneForAReason, Unset
  <2>3. AnswerUsed'
    BY <1>12 DEF Delete, QuestionTypeOK, RowsFollowReplies,
       ResultsFollowRows, GoneForAReason, AnswerUsed
  <2> QED BY <2>1, <2>2, <2>3
<1>13. ASSUME Overdue PROVE QuestionInv'
  <2>1. QuestionTypeOK'
    BY <1>13 DEF Overdue, QuestionTypeOK
  <2>2. RowsFollowAsking' /\ RowsFollowReplies' /\ ResultsFollowRows' /\ GoneForAReason'
    BY <1>13 DEF Overdue, QuestionTypeOK, RowsFollowAsking, RowsFollowReplies,
       ResultsFollowRows, GoneForAReason, Unset
  <2>3. AnswerUsed'
    BY <1>13 DEF Overdue, QuestionTypeOK, RowsFollowReplies,
       ResultsFollowRows, GoneForAReason, AnswerUsed
  <2> QED BY <2>1, <2>2, <2>3
<1>14. ASSUME NEW q \in Questions, RowExpires(q) PROVE QuestionInv'
  <2>1. QuestionTypeOK'
    BY <1>14 DEF RowExpires, QuestionTypeOK
  <2>2. RowsFollowAsking' /\ RowsFollowReplies' /\ ResultsFollowRows' /\ GoneForAReason'
    BY <1>14 DEF RowExpires, QuestionTypeOK, RowsFollowAsking, RowsFollowReplies,
       ResultsFollowRows, GoneForAReason, Unset
  <2>3. AnswerUsed'
    BY <1>14 DEF RowExpires, QuestionTypeOK, RowsFollowReplies,
       ResultsFollowRows, GoneForAReason, AnswerUsed
  <2> QED BY <2>1, <2>2, <2>3
<1>15. ASSUME ProcessDies PROVE QuestionInv'
  <2>1. QuestionTypeOK'
    BY <1>15 DEF ProcessDies, NoPoll, QuestionTypeOK
  <2>2. RowsFollowAsking' /\ RowsFollowReplies' /\ ResultsFollowRows' /\ GoneForAReason'
    BY <1>15 DEF ProcessDies, NoPoll, QuestionTypeOK, RowsFollowAsking, RowsFollowReplies,
       ResultsFollowRows, GoneForAReason, Unset
  <2>3. AnswerUsed'
    BY <1>15 DEF ProcessDies, NoPoll, QuestionTypeOK, RowsFollowReplies,
       ResultsFollowRows, GoneForAReason, AnswerUsed
  <2> QED BY <2>1, <2>2, <2>3
<1>16. ASSUME UNCHANGED questionVars PROVE QuestionInv'
  <2>1. QuestionTypeOK'
    BY <1>16 DEF questionVars, QuestionTypeOK
  <2>2. RowsFollowAsking' /\ RowsFollowReplies' /\ ResultsFollowRows' /\ GoneForAReason'
    BY <1>16 DEF questionVars, QuestionTypeOK, RowsFollowAsking, RowsFollowReplies,
       ResultsFollowRows, GoneForAReason, Unset
  <2>3. AnswerUsed'
    BY <1>16 DEF questionVars, QuestionTypeOK, RowsFollowReplies,
       ResultsFollowRows, GoneForAReason, AnswerUsed
  <2> QED BY <2>1, <2>2, <2>3
<1> QED
  BY <1>1, <1>2, <1>3, <1>4, <1>5, <1>6, <1>7, <1>8, <1>9, <1>10, <1>11, <1>12, <1>13, <1>14, <1>15, <1>16 DEF QuestionNext

-----------------------------------------------------------------------------
\* The invariant holds in every reachable state.
LEMMA QuestionInvAlways == QuestionSpec => []QuestionInv
BY QuestionInvInit, QuestionInvKept, PTL DEF QuestionSpec

\* resolveAnswer, the poller and abandonTurn together: only a fitting reply to the question
\* itself reaches the agent, at most one is accepted, and an accepted one is not lost.
THEOREM AnswersUsed == QuestionSpec => []AnswerUsed
<1>1. QuestionInv => AnswerUsed
  BY DEF QuestionInv
<1> QED BY <1>1, QuestionInvAlways, PTL

\* The turn, its questions and their rows are well typed.
THEOREM QuestionsTyped == QuestionSpec => []QuestionTypeOK
<1>1. QuestionInv => QuestionTypeOK
  BY DEF QuestionInv
<1> QED BY <1>1, QuestionInvAlways, PTL

-----------------------------------------------------------------------------
(* The record of a log import, for any number of sheets, polls, heartbeats *)
(* and failed writes.  The record only moves on because every write in     *)
(* flight, given up or about to be swapped by a poll expects a live record *)
(* and stores its successor: a final local record is followed by           *)
(* heartbeats only, and those write nothing.                               *)

Pending == {"queued", "running"}
Ended == {"completed", "failed"}
Own == {"queued", "running", "completed", "failed"}

\* What JobTypeOK leaves open: the runner has a job, and what the given-up writes and the polls hold.
JobTyped ==
  /\ JobTypeOK
  /\ local \in Records(Own) /\ last \in Records(Own)
  /\ late \in SUBSET [expects : Records(Own), stores : Records(Own)]
  /\ poll \in [Polls -> [at : {"idle", "swap", "again"}, saw : {Gone} \cup Records(Pending),
                         tries : Nat]]
  /\ \A p \in Polls : poll[p].at = "swap" => poll[p].saw # Gone

\* A write of stores over expects moves a live record on.
Succeeds(stores, expects) ==
  /\ expects.status \notin Final
  /\ stores.seq = expects.seq + 1
  /\ stores.lines >= expects.lines
  /\ stores.status = "queued" => expects.status = "queued"

\* The end of an import is the last change queued but for heartbeats.
EndComesLast ==
  /\ \A i \in 1 .. Len(chain) : chain[i] \in Ended =>
       runner # "working" /\ \A j \in 1 .. Len(chain) : j > i => chain[j] = "beat"
  /\ local.status \in Ended =>
       runner # "working" /\ \A i \in 1 .. Len(chain) : chain[i] = "beat"

\* The local record is ahead of what was last written, and each write follows what it expects.
WritesInStep ==
  /\ local.seq = last.seq /\ local.lines >= last.lines
  /\ local.status = "queued" => last.status = "queued"
  /\ last.status \in Ended => local.status \in Ended
  /\ sent # Gone => Succeeds(sent, last) /\ sent.status = local.status /\ sent.lines = local.lines
  /\ \A w \in late : Succeeds(w.stores, w.expects)

JobInv == JobTyped /\ EndComesLast /\ WritesInStep

-----------------------------------------------------------------------------
\* The constants that the steps compute with.
LEMMA JobConstants ==
  /\ StaleAfter \in Nat /\ OldAge \in Nat /\ 0 \in 0 .. OldAge
  /\ Gone.status = "gone" /\ \A S : Gone \in Records(S) => "gone" \in S
BY JobAssumption DEF JobAssumption, OldAge, Gone, Records

\* Time leaves everything of a record but its age.
LEMMA AgedKeeps ==
  ASSUME NEW S, "gone" \notin S, NEW r \in {Gone} \cup Records(S)
  PROVE  /\ Aged(r) \in {Gone} \cup Records(S)
         /\ r \in Records(S) => Aged(r) \in Records(S)
         /\ r = Gone <=> Aged(r) = Gone
         /\ Aged(r).status = r.status /\ Aged(r).seq = r.seq /\ Aged(r).lines = r.lines
<1>1. CASE r = Gone
  BY <1>1, JobConstants DEF Aged
<1>2. CASE r \in Records(S)
  <2>1. r.age \in Nat /\ r.age <= OldAge /\ r.status # "gone"
    BY <1>2, JobConstants DEF Records
  <2>2. CASE r.age = OldAge
    BY <1>2, <2>1, <2>2, JobConstants DEF Aged
  <2>3. CASE r.age # OldAge
    <3>1. Aged(r) = [r EXCEPT !.age = @ + 1]
      BY <2>3, <1>2, <2>1, JobConstants DEF Aged
    <3>2. r.age + 1 \in 0 .. OldAge
      BY <2>1, <2>3, JobConstants
    <3> QED BY <1>2, <2>1, <3>1, <3>2, JobConstants DEF Records
  <2> QED BY <2>2, <2>3
<1> QED BY <1>1, <1>2

\* A copy made fresh is a record of the same status, number and lines.
LEMMA FreshKeeps ==
  ASSUME NEW S, NEW r \in Records(S)
  PROVE  /\ Fresh(r) \in Records(S)
         /\ Fresh(r).status = r.status /\ Fresh(r).seq = r.seq /\ Fresh(r).lines = r.lines
BY JobConstants DEF Fresh, Records

\* A change keeps the number, takes no line back and never queues the job again.
LEMMA ChangedKeeps ==
  ASSUME NEW r \in Records(Own), NEW x \in {"running", "line", "beat", "completed", "failed"}
  PROVE  /\ Changed(r, x) \in Records(Own)
         /\ Changed(r, x).seq = r.seq /\ Changed(r, x).age = r.age
         /\ Changed(r, x).lines = IF x = "line" THEN r.lines + 1 ELSE r.lines
         /\ Changed(r, x).status = IF x \in {"line", "beat"} THEN r.status ELSE x
<1>1. CASE x = "line"
  BY <1>1 DEF Changed, Records, Own, Pending, Ended
<1>2. CASE x = "beat"
  BY <1>2 DEF Changed, Records, Own, Pending, Ended
<1>3. CASE x \in {"running", "completed", "failed"}
  BY <1>3 DEF Changed, Records, Own, Pending, Ended
<1> QED BY <1>1, <1>2, <1>3

\* A live record that a poll marks as stopped.
LEMMA StaleIs ==
  ASSUME NEW r \in Records(Pending)
  PROVE  Stopped(r) \in Records({"queued", "running"} \cup Final)
BY DEF Stopped, Records, Final

\* The invariant holds when the job has been created.
LEMMA JobInvInit == JobInit => JobInv
<1> SUFFICES ASSUME JobInit PROVE JobInv
  OBVIOUS
<1> USE JobAssumption, JobConstants DEF JobInit
<1>1. chain = <<"running">> /\ Len(chain) = 1 /\ chain[1] = "running"
      /\ chain \in Seq({"running", "line", "beat", "completed", "failed"})
  OBVIOUS
<1>2. record \in Records(Pending) /\ record.status = "queued" /\ sent = Gone /\ late = {}
      /\ local = record /\ last = record
  BY DEF Records, Pending
<1>3. JobTyped
  <2>1. record \in Records(Pending \cup Final) /\ record \in Records(Own)
    BY <1>2 DEF Records, Own, Pending
  <2>2. JobTypeOK
    <3>1. chain \in Seq({"running", "line", "beat", "completed", "failed"})
      BY <1>1
    <3>2. record \in {Gone} \cup Records({"queued", "running"} \cup Final)
      BY <2>1 DEF Pending
    <3>3. local \in {Gone} \cup Records({"queued", "running", "completed", "failed"})
      BY <1>2, <2>1 DEF Own
    <3>4. todo \in 0 .. Sheets /\ logged \in Nat
      BY DEF JobAssumption
    <3>5. said \in [Polls -> {"nothing", "gone", "queued", "running"} \cup Final]
      OBVIOUS
    <3>6. lostJob \in BOOLEAN
      OBVIOUS
    <3> QED BY <1>2, <3>1, <3>2, <3>3, <3>4, <3>5, <3>6 DEF JobTypeOK
  <2>3. poll \in [Polls -> [at : {"idle", "swap", "again"}, saw : {Gone} \cup Records(Pending),
                            tries : Nat]]
    BY DEF Gone
  <2> QED BY <1>2, <2>1, <2>2, <2>3 DEF JobTyped
<1>4. EndComesLast /\ WritesInStep
  BY <1>1, <1>2 DEF EndComesLast, WritesInStep, Ended, Records
<1> QED BY <1>3, <1>4 DEF JobInv

-----------------------------------------------------------------------------
(* What the chain becomes *)

Changes == {"running", "line", "beat", "completed", "failed"}

\* A change queued behind the others.
LEMMA ChainGrows ==
  ASSUME NEW q \in Seq(Changes), NEW x \in Changes
  PROVE  /\ Append(q, x) \in Seq(Changes) /\ Len(Append(q, x)) = Len(q) + 1
         /\ \A i \in 1 .. Len(q) + 1 : Append(q, x)[i] = IF i = Len(q) + 1 THEN x ELSE q[i]
         /\ Len(q) \in Nat
OBVIOUS

\* The two changes that end an import.
LEMMA ChainEnds ==
  ASSUME NEW q \in Seq(Changes), NEW x \in Changes
  PROVE  q \o <<"line", x>> = Append(Append(q, "line"), x)
<1>1. Append(q, "line") \in Seq(Changes) /\ Len(q) \in Nat
  BY DEF Changes
<1>2. q \o <<"line", x>> \in Seq(Changes) /\ Append(Append(q, "line"), x) \in Seq(Changes)
  BY <1>1 DEF Changes
<1>3. Len(q \o <<"line", x>>) = Len(q) + 2 /\ Len(Append(Append(q, "line"), x)) = Len(q) + 2
  BY <1>1
<1>4. ASSUME NEW i \in 1 .. Len(q) + 2
      PROVE  (q \o <<"line", x>>)[i] = Append(Append(q, "line"), x)[i]
  BY <1>1, <1>4
<1> QED BY <1>2, <1>3, <1>4, SeqEqual

\* The first change taken.
LEMMA ChainShrinks ==
  ASSUME NEW q \in Seq(Changes), q # <<>>
  PROVE  /\ Head(q) \in Changes /\ Head(q) = q[1] /\ Len(q) \in Nat \ {0}
         /\ Tail(q) \in Seq(Changes) /\ Len(Tail(q)) = Len(q) - 1
         /\ \A i \in 1 .. Len(q) - 1 : Tail(q)[i] = q[i + 1]
OBVIOUS

-----------------------------------------------------------------------------
(* The steps *)

\* The runner's own steps keep the invariant: sheets, the end, the stop, heartbeats, a crash.
LEMMA RunnerKeeps ==
  JobInv /\ (ImportSheet \/ EndImport \/ StopLost \/ Released \/ Heartbeat \/ JobCrash) => JobInv'
<1> SUFFICES ASSUME JobInv,
                    ImportSheet \/ EndImport \/ StopLost \/ Released \/ Heartbeat \/ JobCrash
             PROVE  JobInv'
  OBVIOUS
<1> USE JobAssumption DEF JobInv
<1>1. chain \in Seq(Changes)
  BY DEF JobTyped, JobTypeOK, Changes
<1>2. CASE ImportSheet
  <2>1. chain' = Append(chain, "line")
    BY <1>2 DEF ImportSheet
  <2>2. JobTyped'
    BY <1>1, <1>2, <2>1 DEF ImportSheet, JobTyped, JobTypeOK, JobAssumption
  <2>3. EndComesLast'
    BY <1>1, <1>2, <2>1, ChainGrows DEF ImportSheet, EndComesLast, Ended, Changes
  <2>4. WritesInStep'
    BY <1>2 DEF ImportSheet, WritesInStep
  <2> QED BY <2>2, <2>3, <2>4
<1>3. CASE EndImport
  <2>1. PICK x \in Ended : chain' = chain \o <<"line", x>>
    BY <1>3 DEF EndImport, Ended
  <2>2. chain' = Append(Append(chain, "line"), x) /\ x \in Changes /\ "line" \in Changes
    BY <1>1, <2>1, ChainEnds DEF Changes, Ended
  <2>3. chain' \in Seq(Changes) /\ Len(chain') = Len(chain) + 2 /\ Len(chain) \in Nat
    BY <1>1, <2>2
  <2>4. \A i \in 1 .. Len(chain) : chain'[i] = chain[i]
    BY <1>1, <2>2
  <2>5. chain'[Len(chain) + 1] = "line"
    BY <1>1, <2>2
  <2>6. JobTyped'
    BY <1>3, <2>3 DEF EndImport, JobTyped, JobTypeOK, Changes
  <2>7. runner = "working" /\ runner' = "ending" /\ local' = local
    BY <1>3 DEF EndImport
  <2>8. \A i \in 1 .. Len(chain) : chain[i] \notin Ended
    BY <2>7 DEF EndComesLast
  <2>9. EndComesLast'
    <3>1. chain'[Len(chain) + 1] \notin Ended
      BY <2>5 DEF Ended
    <3>2. ASSUME NEW i \in 1 .. Len(chain'), chain'[i] \in Ended PROVE i = Len(chain')
      <4>1. i \in 1 .. Len(chain) \/ i = Len(chain) + 1 \/ i = Len(chain) + 2
        BY <2>3
      <4>2. i \notin 1 .. Len(chain)
        BY <2>4, <2>8, <3>2
      <4>3. i # Len(chain) + 1
        BY <3>1, <3>2
      <4> QED BY <2>3, <4>1, <4>2, <4>3
    <3>3. \A i, j \in 1 .. Len(chain') : i = Len(chain') => ~(j > i)
      BY <2>3
    <3>4. local'.status \notin Ended
      BY <2>7 DEF EndComesLast
    <3> QED BY <2>7, <3>2, <3>3, <3>4 DEF EndComesLast
  <2>10. WritesInStep'
    BY <1>3 DEF EndImport, WritesInStep
  <2> QED BY <2>6, <2>9, <2>10
<1>4. CASE StopLost
  BY <1>4 DEF StopLost, JobTyped, JobTypeOK, EndComesLast, WritesInStep
<1>5. CASE Released
  BY <1>5 DEF Released, JobTyped, JobTypeOK, EndComesLast, WritesInStep
<1>6. CASE Heartbeat
  <2>1. chain' = Append(chain, "beat") /\ "beat" \in Changes
    BY <1>6 DEF Heartbeat, Changes
  <2>2. JobTyped'
    BY <1>1, <1>6, <2>1 DEF Heartbeat, JobTyped, JobTypeOK
  <2>3. EndComesLast'
    BY <1>1, <1>6, <2>1, ChainGrows DEF Heartbeat, EndComesLast, Ended
  <2>4. WritesInStep'
    BY <1>6 DEF Heartbeat, WritesInStep
  <2> QED BY <2>2, <2>3, <2>4
<1>7. CASE JobCrash
  <2>1. chain' = <<>> /\ sent' = Gone /\ runner' = "dead" /\ local' = local /\ last' = last
    BY <1>7 DEF JobCrash
  <2>2. \A w \in late' : w \in late \/ (sent # Gone /\ w = [expects |-> last, stores |-> sent])
    BY <1>7 DEF JobCrash
  <2>3. JobTyped'
    <3>1. late' \in SUBSET [expects : Records(Own), stores : Records(Own)]
      BY <2>2 DEF JobTyped, JobTypeOK, Own
    <3> QED BY <1>7, <2>1, <3>1 DEF JobCrash, JobTyped, JobTypeOK
  <2>4. EndComesLast'
    BY <2>1 DEF EndComesLast
  <2>5. WritesInStep'
    BY <2>1, <2>2 DEF WritesInStep
  <2> QED BY <2>3, <2>4, <2>5
<1> QED BY <1>2, <1>3, <1>4, <1>5, <1>6, <1>7

\* The writes keep the invariant, answered, failed or landing late.
LEMMA WritesKeep == JobInv /\ (Write \/ Written \/ WriteFails \/ LateLands) => JobInv'
<1> SUFFICES ASSUME JobInv, Write \/ Written \/ WriteFails \/ LateLands PROVE JobInv'
  OBVIOUS
<1> USE DEF JobInv
<1>1. chain \in Seq(Changes)
  BY DEF JobTyped, JobTypeOK, Changes
<1>2. sent # Gone => sent \in Records(Own)
  BY DEF JobTyped, JobTypeOK, Own
<1>3. CASE Write
  <2> DEFINE x == Head(chain)
  <2>1. chain # <<>> /\ sent = Gone /\ chain' = Tail(chain) /\ runner' = runner
    BY <1>3 DEF Write
  <2>2. x \in Changes /\ x = chain[1] /\ chain' \in Seq(Changes) /\ Len(chain) \in Nat \ {0}
        /\ Len(chain') = Len(chain) - 1 /\ \A i \in 1 .. Len(chain) - 1 : chain'[i] = chain[i + 1]
    BY <1>1, <2>1, ChainShrinks
  <2>3. CASE lostJob \/ (x = "beat" /\ local.status \in Final)
    <3>1. UNCHANGED <<local, sent, last, late>>
      BY <1>3, <2>3 DEF Write
    <3>2. JobTyped'
      BY <1>3, <2>2, <3>1 DEF Write, JobTyped, JobTypeOK, Changes
    <3>3. EndComesLast'
      BY <2>1, <2>2, <3>1 DEF EndComesLast
    <3>4. WritesInStep'
      BY <3>1 DEF WritesInStep
    <3> QED BY <3>2, <3>3, <3>4
  <2>4. CASE ~(lostJob \/ (x = "beat" /\ local.status \in Final))
    <3>1. local' = Changed(local, x) /\ sent' = [local' EXCEPT !.seq = @ + 1]
          /\ UNCHANGED <<last, late>>
      BY <1>3, <2>4 DEF Write
    <3>2. local' \in Records(Own) /\ local'.seq = local.seq
          /\ local'.lines = (IF x = "line" THEN local.lines + 1 ELSE local.lines)
          /\ local'.status = (IF x \in {"line", "beat"} THEN local.status ELSE x)
      BY <2>2, <3>1, ChangedKeeps DEF JobTyped, Changes
    <3>3. sent' \in Records(Own) /\ sent'.seq = local.seq + 1 /\ sent'.status = local'.status
          /\ sent'.lines = local'.lines
      BY <3>1, <3>2 DEF Records
    <3>4. local.status \notin Ended
      BY <2>2, <2>4 DEF EndComesLast, Final, Ended
    <3>5. JobTyped'
      BY <1>3, <2>2, <3>1, <3>2, <3>3 DEF Write, JobTyped, JobTypeOK, Changes, Own
    <3>6. EndComesLast'
      BY <2>1, <2>2, <3>2, <3>4 DEF EndComesLast, Ended
    <3>7. last.status \notin Final
      BY <3>4 DEF WritesInStep, JobTyped, Records, Own, Ended, Final
    <3>8. WritesInStep'
      BY <2>2, <3>1, <3>2, <3>3, <3>4, <3>7 DEF WritesInStep, JobTyped, Records, Succeeds, Ended,
         Changes
    <3> QED BY <3>5, <3>6, <3>8
  <2> QED BY <2>3, <2>4
<1>4. CASE Written
  <2>1. CASE Swaps(last)
    <3>1. record' = sent /\ local' = Fresh(sent) /\ last' = local' /\ sent' = Gone
          /\ UNCHANGED <<chain, late, runner, lostJob>> /\ sent # Gone
      BY <1>4, <2>1 DEF Written
    <3>2. local' \in Records(Own) /\ local'.status = local.status /\ sent \in Records(Own)
      BY <1>2, <3>1, FreshKeeps DEF WritesInStep
    <3>3. sent \in Records({"queued", "running"} \cup Final)
      BY <3>2 DEF Records, Own, Final
    <3>4. JobTyped'
      BY <1>4, <3>1, <3>2, <3>3 DEF Written, JobTyped, JobTypeOK, Own
    <3>5. EndComesLast'
      BY <3>1, <3>2 DEF EndComesLast
    <3>6. WritesInStep'
      BY <3>1, <3>2 DEF WritesInStep, Records
    <3> QED BY <3>4, <3>5, <3>6
  <2>2. CASE ~Swaps(last)
    BY <1>4, <2>2 DEF Written, JobTyped, JobTypeOK, EndComesLast, WritesInStep
  <2> QED BY <2>1, <2>2
<1>5. CASE WriteFails
  <2>1. \A w \in late' : w \in late \/ (sent # Gone /\ w = [expects |-> last, stores |-> sent])
    BY <1>5 DEF WriteFails
  <2>2. JobTyped'
    BY <1>2, <1>5, <2>1 DEF WriteFails, JobTyped, JobTypeOK
  <2>3. EndComesLast'
    BY <1>5 DEF WriteFails, EndComesLast
  <2>4. WritesInStep'
    BY <1>5, <2>1 DEF WriteFails, WritesInStep
  <2> QED BY <2>2, <2>3, <2>4
<1>6. CASE LateLands
  <2>1. PICK w \in late : late' = late \ {w}
                          /\ record' = IF Swaps(w.expects) THEN w.stores ELSE record
    BY <1>6 DEF LateLands
  <2>2. w.stores \in Records({"queued", "running"} \cup Final)
    BY DEF JobTyped, Records, Own, Final
  <2>3. JobTyped'
    BY <1>6, <2>1, <2>2 DEF LateLands, JobTyped, JobTypeOK
  <2>4. EndComesLast' /\ WritesInStep'
    BY <1>6, <2>1 DEF LateLands, EndComesLast, WritesInStep
  <2> QED BY <2>3, <2>4
<1> QED BY <1>3, <1>4, <1>5, <1>6

\* A poll, the expiry and time keep the invariant.
LEMMA OthersKeep ==
  JobInv /\ ((\E p \in Polls : PollReads(p) \/ PollSwaps(p)) \/ Expire \/ JobTick \/ UNCHANGED jobVars)
    => JobInv'
<1> SUFFICES ASSUME JobInv,
                    (\E p \in Polls : PollReads(p) \/ PollSwaps(p)) \/ Expire \/ JobTick
                      \/ UNCHANGED jobVars
             PROVE  JobInv'
  OBVIOUS
<1> USE DEF JobInv
<1> DEFINE Said == {"nothing", "gone", "queued", "running"} \cup Final
           Heard == [at : {"idle", "swap", "again"}, saw : {Gone} \cup Records(Pending), tries : Nat]
<1>1. ASSUME NEW p \in Polls, NEW status \in Said, Answer(p, status)
      PROVE  said' \in [Polls -> Said] /\ poll' \in [Polls -> Heard]
             /\ \A o \in Polls : poll'[o].at = "swap" => poll'[o].saw # Gone
  BY <1>1 DEF Answer, JobTyped, JobTypeOK
<1>2. ASSUME NEW p \in Polls, NEW h \in Heard, h.at = "swap" => h.saw # Gone,
             poll' = [poll EXCEPT ![p] = h], said' = said
      PROVE  said' \in [Polls -> Said] /\ poll' \in [Polls -> Heard]
             /\ \A o \in Polls : poll'[o].at = "swap" => poll'[o].saw # Gone
  BY <1>2 DEF JobTyped, JobTypeOK
<1>3. ASSUME NEW p \in Polls, PollReads(p) PROVE JobInv'
  <2>1. record = Gone \/ record.status \in Said
    BY DEF JobTyped, JobTypeOK, Records
  <2>2. said' \in [Polls -> Said] /\ poll' \in [Polls -> Heard]
        /\ \A o \in Polls : poll'[o].at = "swap" => poll'[o].saw # Gone
    <3>1. CASE \E status \in Said : Answer(p, status)
      BY <1>1, <3>1
    <3>2. CASE record # Gone /\ record.status \notin Final /\ said' = said
               /\ poll' = [poll EXCEPT ![p] = [at |-> "swap", saw |-> Fresh(record),
                                                tries |-> @.tries + 1]]
      <4>1. record \in Records(Pending)
        BY <3>2 DEF JobTyped, JobTypeOK, Records, Pending
      <4>2. Fresh(record) \in Records(Pending) /\ Fresh(record) # Gone
        BY <4>1, FreshKeeps, JobConstants DEF Pending
      <4>3. poll[p].tries + 1 \in Nat
        BY DEF JobTyped
      <4> QED BY <1>2, <3>2, <4>2, <4>3
    <3> QED BY <1>3, <2>1, <3>1, <3>2 DEF PollReads, StaleOn
  <2>3. JobTyped'
    BY <1>3, <2>2 DEF PollReads, JobTyped, JobTypeOK
  <2>4. EndComesLast' /\ WritesInStep'
    BY <1>3 DEF PollReads, EndComesLast, WritesInStep
  <2> QED BY <2>3, <2>4
<1>4. ASSUME NEW p \in Polls, PollSwaps(p) PROVE JobInv'
  <2>1. poll[p].saw \in Records(Pending)
    BY <1>4 DEF PollSwaps, JobTyped
  <2>2. record' \in {Gone} \cup Records({"queued", "running"} \cup Final)
    <3>1. Stopped(poll[p].saw) \in Records({"queued", "running"} \cup Final)
      BY <2>1, StaleIs
    <3> QED BY <1>4, <3>1 DEF PollSwaps, JobTyped, JobTypeOK
  <2>3. said' \in [Polls -> Said] /\ poll' \in [Polls -> Heard]
        /\ \A o \in Polls : poll'[o].at = "swap" => poll'[o].saw # Gone
    <3>1. CASE Answer(p, "stale") \/ Answer(p, "gone")
      BY <1>1, <3>1 DEF Final
    <3>2. CASE said' = said /\ poll' = [poll EXCEPT ![p] = [at |-> "again", saw |-> Gone, tries |-> 1]]
      BY <1>2, <3>2
    <3> QED BY <1>4, <3>1, <3>2 DEF PollSwaps
  <2>4. JobTyped'
    BY <1>4, <2>2, <2>3 DEF PollSwaps, JobTyped, JobTypeOK
  <2>5. EndComesLast' /\ WritesInStep'
    BY <1>4 DEF PollSwaps, EndComesLast, WritesInStep
  <2> QED BY <2>4, <2>5
<1>5. CASE Expire
  BY <1>5 DEF Expire, JobTyped, JobTypeOK, EndComesLast, WritesInStep
<1>6. CASE JobTick
  <2>1. record' = Aged(record) /\ sent' = Aged(sent)
        /\ late' = {[w EXCEPT !.stores = Aged(@)] : w \in late}
        /\ UNCHANGED <<local, last, chain, lostJob, runner, todo, logged, poll, said>>
    BY <1>6 DEF JobTick
  <2>2. record' \in {Gone} \cup Records({"queued", "running"} \cup Final)
    BY <2>1, AgedKeeps DEF JobTyped, JobTypeOK, Final
  <2>3. sent' \in {Gone} \cup Records(Own) /\ (sent = Gone <=> sent' = Gone)
        /\ sent'.status = sent.status /\ sent'.seq = sent.seq /\ sent'.lines = sent.lines
    BY <2>1, AgedKeeps DEF JobTyped, JobTypeOK, Own
  <2>4. \A w \in late : Aged(w.stores) \in Records(Own) /\ Aged(w.stores).status = w.stores.status
          /\ Aged(w.stores).seq = w.stores.seq /\ Aged(w.stores).lines = w.stores.lines
    BY AgedKeeps DEF JobTyped, Own
  <2>5. \A v \in late' : \E w \in late : v.expects = w.expects /\ v.stores = Aged(w.stores)
          /\ v \in [expects : Records(Own), stores : Records(Own)]
    BY <2>1, <2>4 DEF JobTyped
  <2>6. JobTyped'
    BY <2>1, <2>2, <2>3, <2>5 DEF JobTyped, JobTypeOK, Own
  <2>7. EndComesLast'
    BY <2>1 DEF EndComesLast
  <2>8. WritesInStep'
    BY <2>1, <2>3, <2>4, <2>5 DEF WritesInStep, Succeeds
  <2> QED BY <2>6, <2>7, <2>8
<1>7. CASE UNCHANGED jobVars
  BY <1>7 DEF jobVars, JobTyped, JobTypeOK, EndComesLast, WritesInStep
<1> QED BY <1>3, <1>4, <1>5, <1>6, <1>7

\* The invariant holds in every reachable state.
LEMMA JobInvAlways == JobSpec => []JobInv
<1>1. JobInv /\ [JobNext]_jobVars => JobInv'
  BY RunnerKeeps, WritesKeep, OthersKeep DEF JobNext
<1> QED BY JobInvInit, <1>1, PTL DEF JobSpec

\* The job's record, its writes and its polls are well typed.
THEOREM JobTypes == JobSpec => []JobTypeOK
<1>1. JobInv => JobTypeOK
  BY DEF JobInv, JobTyped
<1> QED BY <1>1, JobInvAlways, PTL

\* A swap of r for the record that expects e moves the record on.
LEMMA SwapMovesOn ==
  ASSUME NEW e, NEW r, Swaps(e), Succeeds(r, e), record' = r
  PROVE  /\ record.status \notin Final
         /\ record'.seq = record.seq + 1
         /\ record'.lines >= record.lines
         /\ record'.status = "queued" => record.status = "queued"
<1>1. record.status = e.status /\ record.seq = e.seq /\ record.lines = e.lines
  BY DEF Swaps, Text
<1> QED BY <1>1 DEF Succeeds

\* jobStore's conditional writes: whatever fails or lands late, a final outcome stays, no progress
\* line is taken back and every change takes the next number.
THEOREM RecordMoves == JobSpec => RecordMovesOn
<1> DEFINE Moves ==
      /\ record = Gone => record' = Gone
      /\ record # Gone /\ record' # Gone /\ Text(record') # Text(record) =>
           /\ record.status \notin Final
           /\ record'.seq = record.seq + 1
           /\ record'.lines >= record.lines
           /\ record'.status = "queued" => record.status = "queued"
<1>1. ASSUME JobInv, JobInv', [JobNext]_jobVars PROVE [Moves]_record
  <2> USE DEF JobInv
  <2>1. CASE ImportSheet \/ EndImport \/ StopLost \/ Released \/ Heartbeat \/ JobCrash \/ Write
             \/ WriteFails \/ UNCHANGED jobVars \/ \E p \in Polls : PollReads(p)
    BY <2>1 DEF ImportSheet, EndImport, StopLost, Released, Heartbeat, JobCrash, Write, WriteFails,
       PollReads, jobVars
  <2>2. CASE Written
    <3>1. CASE Swaps(last)
      <4>1. record' = sent /\ Succeeds(sent, last) /\ record # Gone
        BY <1>1, <2>2, <3>1 DEF Written, WritesInStep, Swaps
      <4> QED BY <3>1, <4>1, SwapMovesOn
    <3>2. CASE ~Swaps(last)
      BY <2>2, <3>2 DEF Written
    <3> QED BY <3>1, <3>2
  <2>3. CASE LateLands
    <3>1. PICK w \in late : record' = IF Swaps(w.expects) THEN w.stores ELSE record
      BY <2>3 DEF LateLands
    <3>2. CASE Swaps(w.expects)
      <4>1. record' = w.stores /\ Succeeds(w.stores, w.expects) /\ record # Gone
        BY <1>1, <3>1, <3>2 DEF WritesInStep, Swaps
      <4> QED BY <3>2, <4>1, SwapMovesOn
    <3>3. CASE ~Swaps(w.expects)
      BY <3>1, <3>3
    <3> QED BY <3>2, <3>3
  <2>4. CASE \E p \in Polls : PollSwaps(p)
    <3>1. PICK p \in Polls : PollSwaps(p)
      BY <2>4
    <3>2. CASE Swaps(poll[p].saw)
      <4>1. record' = Stopped(poll[p].saw) /\ poll[p].saw \in Records(Pending) /\ record # Gone
        BY <1>1, <3>1, <3>2 DEF PollSwaps, JobTyped, Swaps
      <4>2. Succeeds(Stopped(poll[p].saw), poll[p].saw)
        BY <4>1 DEF Succeeds, Stopped, Records, Pending, Final
      <4> QED BY <3>2, <4>1, <4>2, SwapMovesOn
    <3>3. CASE ~Swaps(poll[p].saw)
      BY <3>1, <3>3 DEF PollSwaps
    <3> QED BY <3>2, <3>3
  <2>5. CASE Expire
    BY <2>5 DEF Expire
  <2>6. CASE JobTick
    <3>1. record' = Aged(record)
      BY <2>6 DEF JobTick
    <3>2. (record = Gone => record' = Gone) /\ Text(record') = Text(record)
      BY <1>1, <3>1, AgedKeeps DEF JobTyped, JobTypeOK, Final, Text
    <3> QED BY <3>2
  <2> QED BY <1>1, <2>1, <2>2, <2>3, <2>4, <2>5, <2>6 DEF JobNext
<1> QED BY <1>1, JobInvAlways, PTL DEF JobSpec, RecordMovesOn

-----------------------------------------------------------------------------
(* No progress line is lost *)

LinesAt(q) == {i \in 1 .. Len(q) : q[i] = "line"}

\* The progress lines that wait in a chain.
Lines(q) == Cardinality(LinesAt(q))

\* Every record that reads as ended has all of the lines logged, and a completed one all sheets.
Whole(r) ==
  r.status \in Ended =>
    /\ runner # "working" /\ r.lines = logged
    /\ r.status = "completed" => todo = 0

WholeInv ==
  /\ Whole(record) /\ Whole(local) /\ \A w \in late : Whole(w.stores)
  /\ ~lostJob /\ runner # "dead" => local.lines + Lines(chain) = logged
  /\ \A i \in 1 .. Len(chain) : chain[i] = "completed" => todo = 0
  /\ runner \in {"done", "dead"} => chain = <<>>

\* The lines of a chain are counted by a natural number.
LEMMA LinesCount ==
  ASSUME NEW q \in Seq(Changes)
  PROVE  IsFiniteSet(LinesAt(q)) /\ Lines(q) \in Nat
<1>1. IsFiniteSet(1 .. Len(q)) /\ LinesAt(q) \in SUBSET (1 .. Len(q))
  BY FS_Interval DEF LinesAt
<1> QED BY <1>1, FS_Subset, FS_CardinalityType DEF Lines

\* A chain of heartbeats has no line.
LEMMA LinesNone ==
  ASSUME NEW q, \A i \in 1 .. Len(q) : q[i] # "line"
  PROVE  Lines(q) = 0
<1>1. LinesAt(q) = {}
  BY DEF LinesAt
<1> QED BY <1>1, FS_EmptySet DEF Lines

\* A change queued adds a line when it is one.
LEMMA LinesGrow ==
  ASSUME NEW q \in Seq(Changes), NEW x \in Changes
  PROVE  Lines(Append(q, x)) = Lines(q) + (IF x = "line" THEN 1 ELSE 0)
<1> DEFINE n == Len(q) + 1
<1>1. n \in Nat /\ IsFiniteSet(LinesAt(q)) /\ Lines(q) \in Nat
  BY ChainGrows, LinesCount
<1>4. n \notin LinesAt(q)
  BY ChainGrows DEF LinesAt
<1>2. CASE x = "line"
  <2>1. LinesAt(Append(q, x)) = LinesAt(q) \cup {n}
    BY <1>2, ChainGrows DEF LinesAt
  <2> QED BY <1>1, <1>2, <1>4, <2>1, FS_AddElement DEF Lines
<1>3. CASE x # "line"
  <2>1. LinesAt(Append(q, x)) = LinesAt(q)
    BY <1>3, ChainGrows DEF LinesAt
  <2> QED BY <1>1, <1>3, <2>1 DEF Lines
<1> QED BY <1>2, <1>3

\* A change taken removes a line when it is one.
LEMMA LinesShrink ==
  ASSUME NEW q \in Seq(Changes), q # <<>>
  PROVE  Lines(q) = Lines(Tail(q)) + (IF Head(q) = "line" THEN 1 ELSE 0)
<1> DEFINE t == Tail(q)
           U == {i \in 2 .. Len(q) : q[i] = "line"}
           f == [i \in LinesAt(t) |-> i + 1]
<1>1. /\ Head(q) = q[1] /\ Len(q) \in Nat \ {0} /\ t \in Seq(Changes) /\ Len(t) = Len(q) - 1
      /\ \A i \in 1 .. Len(q) - 1 : t[i] = q[i + 1]
  BY ChainShrinks
<1>2. f \in [LinesAt(t) -> U]
  BY <1>1 DEF LinesAt
<1>3. \A a, b \in LinesAt(t) : f[a] = f[b] => a = b
  BY DEF LinesAt
<1>4. ASSUME NEW u \in U PROVE \E a \in LinesAt(t) : f[a] = u
  <2>1. u - 1 \in LinesAt(t)
    BY <1>1 DEF LinesAt
  <2>2. u \in Int /\ (u - 1) + 1 = u
    OBVIOUS
  <2>3. f[u - 1] = (u - 1) + 1
    BY <2>1
  <2> QED BY <2>1, <2>2, <2>3
<1>5. IsFiniteSet(U) /\ Cardinality(U) = Lines(t)
  <2>1. f \in Bijection(LinesAt(t), U)
    BY <1>2, <1>3, <1>4, Fun_IsBij
  <2>2. ExistsBijection(LinesAt(t), U)
    BY <2>1, Fun_ExistsBij
  <2> QED BY <1>1, <2>2, LinesCount, FS_Bijection DEF Lines
<1>6. Lines(t) \in Nat
  BY <1>1, LinesCount
<1>7. CASE Head(q) = "line"
  <2>1. LinesAt(q) = U \cup {1}
    <3>1. \A i \in 1 .. Len(q) : i = 1 \/ i \in 2 .. Len(q)
      BY <1>1
    <3>2. 1 \in 1 .. Len(q) /\ q[1] = "line" /\ 2 .. Len(q) \subseteq 1 .. Len(q)
      BY <1>1, <1>7
    <3> QED BY <3>1, <3>2 DEF LinesAt
  <2>2. 1 \notin U
    OBVIOUS
  <2> QED BY <1>5, <1>6, <1>7, <2>1, <2>2, FS_AddElement DEF Lines
<1>8. CASE Head(q) # "line"
  <2>1. LinesAt(q) = U
    BY <1>1, <1>8 DEF LinesAt
  <2> QED BY <1>5, <1>6, <1>8, <2>1 DEF Lines
<1> QED BY <1>7, <1>8

\* It holds when the job has been created.
LEMMA WholeInit == JobInit => WholeInv
<1> SUFFICES ASSUME JobInit PROVE WholeInv
  OBVIOUS
<1>1. chain = <<"running">> /\ Len(chain) = 1 /\ chain[1] = "running"
  BY DEF JobInit
<1>2. Lines(chain) = 0
  BY <1>1, LinesNone
<1> QED BY <1>1, <1>2 DEF JobInit, WholeInv, Whole, Ended

\* Every step keeps it.
LEMMA WholeKept == JobInv /\ JobInv' /\ WholeInv /\ [JobNext]_jobVars => WholeInv'
<1> SUFFICES ASSUME JobInv, JobInv', WholeInv, [JobNext]_jobVars PROVE WholeInv'
  OBVIOUS
<1> USE DEF JobInv
<1>1. chain \in Seq(Changes) /\ Lines(chain) \in Nat
  <2>1. chain \in Seq(Changes)
    BY DEF JobTyped, JobTypeOK, Changes
  <2> QED BY <2>1, LinesCount
<1>2. local.lines \in Nat /\ logged \in Nat
  BY DEF JobTyped, JobTypeOK, Records
<1>3. runner = "working" => /\ record.status \notin Ended /\ local.status \notin Ended
                            /\ \A w \in late : w.stores.status \notin Ended
                            /\ \A i \in 1 .. Len(chain) : chain[i] \notin Ended
  BY DEF WholeInv, Whole, EndComesLast
<1>4. CASE ImportSheet
  <2>1. chain' = Append(chain, "line") /\ logged' = logged + 1 /\ runner = "working"
        /\ UNCHANGED <<record, local, late, lostJob, runner>>
    BY <1>4 DEF ImportSheet
  <2>2. Lines(chain') = Lines(chain) + 1
    BY <1>1, <2>1, LinesGrow DEF Changes
  <2>3. \A i \in 1 .. Len(chain') : chain'[i] # "completed"
    BY <1>1, <1>3, <2>1, ChainGrows DEF Changes, Ended
  <2>4. Whole(record)' /\ Whole(local)' /\ \A w \in late' : Whole(w.stores)'
    BY <1>3, <2>1 DEF Whole
  <2>5. ~lostJob' => local'.lines + Lines(chain') = logged'
    BY <1>1, <1>2, <2>1, <2>2 DEF WholeInv
  <2> QED BY <2>1, <2>3, <2>4, <2>5 DEF WholeInv
<1>5. CASE EndImport
  <2>1. PICK x \in Ended : chain' = chain \o <<"line", x>> /\ (x = "completed" => todo = 0)
    BY <1>5 DEF EndImport, Ended
  <2>2. logged' = logged + 1 /\ runner = "working" /\ runner' = "ending"
        /\ UNCHANGED <<record, local, late, lostJob, todo>>
    BY <1>1, <1>5, <2>1 DEF EndImport
  <2>3. x \in Changes /\ x # "line" /\ "line" \in Changes
    BY DEF Changes, Ended
  <2>4. chain' = Append(Append(chain, "line"), x) /\ Append(chain, "line") \in Seq(Changes)
    BY <1>1, <2>1, <2>3, ChainEnds, ChainGrows
  <2>5. Lines(chain') = Lines(chain) + 1
    <3>1. Lines(Append(chain, "line")) = Lines(chain) + 1
      BY <1>1, <2>3, LinesGrow
    <3>2. Lines(chain') = Lines(Append(chain, "line")) + 0
      BY <2>3, <2>4, LinesGrow
    <3> QED BY <1>1, <3>1, <3>2
  <2>6. \A i \in 1 .. Len(chain') : chain'[i] = "completed" => todo = 0
    <3>1. \A i \in 1 .. Len(chain) + 1 : Append(chain, "line")[i] # "completed"
      BY <1>1, <1>3, <2>2, <2>3, ChainGrows DEF Ended
    <3>2. Len(Append(chain, "line")) = Len(chain) + 1
      BY <1>1, <2>3, ChainGrows
    <3> QED BY <2>1, <2>3, <2>4, <3>1, <3>2, ChainGrows
  <2>7. Whole(record)' /\ Whole(local)' /\ \A w \in late' : Whole(w.stores)'
    BY <1>3, <2>2 DEF Whole
  <2>8. ~lostJob' => local'.lines + Lines(chain') = logged'
    BY <1>1, <1>2, <2>2, <2>5 DEF WholeInv
  <2> QED BY <2>2, <2>6, <2>7, <2>8 DEF WholeInv
<1>6. CASE StopLost
  BY <1>3, <1>6 DEF StopLost, WholeInv, Whole
<1>7. CASE Released
  BY <1>7 DEF Released, WholeInv, Whole
<1>8. CASE Heartbeat
  <2>1. chain' = Append(chain, "beat") /\ runner \in {"working", "ending"}
        /\ UNCHANGED <<record, local, late, lostJob, runner, todo, logged>>
    BY <1>8 DEF Heartbeat
  <2>2. Lines(chain') = Lines(chain)
    BY <1>1, <2>1, LinesGrow DEF Changes
  <2>3. \A i \in 1 .. Len(chain') : chain'[i] = "completed" => todo = 0
    BY <1>1, <2>1, ChainGrows DEF Changes, WholeInv
  <2> QED BY <2>1, <2>2, <2>3 DEF WholeInv, Whole
<1>9. CASE JobCrash
  <2>1. chain' = <<>> /\ runner' = "dead" /\ UNCHANGED <<record, local, last, lostJob, todo, logged>>
    BY <1>9 DEF JobCrash
  <2>2. \A w \in late' : w \in late \/ (sent # Gone /\ w = [expects |-> last, stores |-> sent])
    BY <1>9 DEF JobCrash
  <2>3. \A w \in late' : Whole(w.stores)
    BY <2>2 DEF WholeInv, Whole, WritesInStep
  <2> QED BY <1>3, <2>1, <2>3 DEF WholeInv, Whole
<1>10. CASE Write
  <2> DEFINE x == Head(chain)
  <2>1. chain # <<>> /\ chain' = Tail(chain)
        /\ UNCHANGED <<record, late, lostJob, runner, todo, logged>>
    BY <1>10 DEF Write
  <2>2. x \in Changes /\ x = chain[1] /\ chain' \in Seq(Changes) /\ Len(chain) \in Nat \ {0}
        /\ Len(chain') = Len(chain) - 1 /\ \A i \in 1 .. Len(chain) - 1 : chain'[i] = chain[i + 1]
    BY <1>1, <2>1, ChainShrinks
  <2>3. Lines(chain) = Lines(chain') + (IF x = "line" THEN 1 ELSE 0) /\ Lines(chain') \in Nat
    BY <1>1, <2>1, <2>2, LinesShrink, LinesCount
  <2>4. runner \notin {"done", "dead"}
    BY <2>1 DEF WholeInv
  <2>5. \A i \in 1 .. Len(chain') : chain'[i] = "completed" => todo = 0
    BY <2>2 DEF WholeInv
  <2>6. CASE lostJob \/ (x = "beat" /\ local.status \in Final)
    BY <1>10, <2>1, <2>3, <2>4, <2>5, <2>6 DEF Write, WholeInv, Whole
  <2>7. CASE ~(lostJob \/ (x = "beat" /\ local.status \in Final))
    <3>1. local' = Changed(local, x)
      BY <1>10, <2>7 DEF Write
    <3>2. local'.lines = (IF x = "line" THEN local.lines + 1 ELSE local.lines)
          /\ local'.status = (IF x \in {"line", "beat"} THEN local.status ELSE x)
      BY <2>2, <3>1, ChangedKeeps DEF JobTyped, Changes
    <3>3. local.status \notin Ended
      BY <2>2, <2>7 DEF EndComesLast, Final, Ended
    <3>4. local'.lines + Lines(chain') = logged
      BY <1>1, <1>2, <2>3, <2>4, <2>7, <3>2 DEF WholeInv
    <3>5. CASE x \notin Ended
      BY <2>1, <2>4, <2>5, <3>2, <3>3, <3>4, <3>5 DEF WholeInv, Whole
    <3>6. CASE x \in Ended
      <4>1. runner # "working" /\ \A i \in 1 .. Len(chain') : chain'[i] # "line"
        BY <2>2, <3>6 DEF EndComesLast
      <4>2. Lines(chain') = 0
        BY <4>1, LinesNone
      <4>3. local'.lines = logged
        BY <3>2, <3>4, <3>6, <4>2, <1>2 DEF Ended
      <4>4. x = "completed" => todo = 0
        BY <2>2 DEF WholeInv
      <4> QED BY <2>1, <2>4, <2>5, <3>2, <3>4, <3>6, <4>1, <4>3, <4>4 DEF WholeInv, Whole, Ended
    <3> QED BY <3>5, <3>6
  <2> QED BY <2>6, <2>7
<1>11. CASE Written
  <2>1. UNCHANGED <<chain, late, runner, todo, logged>> /\ sent # Gone
    BY <1>11 DEF Written
  <2>2. CASE Swaps(last)
    <3>1. record' = sent /\ local' = Fresh(sent) /\ UNCHANGED lostJob
      BY <1>11, <2>2 DEF Written
    <3>2. sent \in Records(Own)
      BY <2>1 DEF JobTyped, JobTypeOK, Own
    <3>3. local'.status = local.status /\ local'.lines = local.lines
          /\ record'.status = local.status /\ record'.lines = local.lines
      BY <2>1, <3>1, <3>2, FreshKeeps DEF WritesInStep
    <3> QED BY <2>1, <3>1, <3>3 DEF WholeInv, Whole
  <2>3. CASE ~Swaps(last)
    BY <1>11, <2>1, <2>3 DEF Written, WholeInv, Whole
  <2> QED BY <2>2, <2>3
<1>12. CASE WriteFails
  <2>1. \A w \in late' : w \in late \/ (sent # Gone /\ w = [expects |-> last, stores |-> sent])
    BY <1>12 DEF WriteFails
  <2>2. UNCHANGED <<record, local, chain, lostJob, runner, todo, logged>>
    BY <1>12 DEF WriteFails
  <2>3. \A w \in late' : Whole(w.stores)
    BY <2>1 DEF WholeInv, Whole, WritesInStep
  <2> QED BY <2>2, <2>3 DEF WholeInv, Whole
<1>13. CASE LateLands
  <2>1. PICK w \in late : late' = late \ {w}
                          /\ record' = IF Swaps(w.expects) THEN w.stores ELSE record
    BY <1>13 DEF LateLands
  <2> QED BY <1>13, <2>1 DEF LateLands, WholeInv, Whole
<1>14. ASSUME NEW p \in Polls, PollReads(p) PROVE WholeInv'
  BY <1>14 DEF PollReads, WholeInv, Whole
<1>15. ASSUME NEW p \in Polls, PollSwaps(p) PROVE WholeInv'
  <2>1. record' = record \/ record'.status \notin Ended
    BY <1>15 DEF PollSwaps, Stopped, Ended
  <2> QED BY <1>15, <2>1 DEF PollSwaps, WholeInv, Whole
<1>16. CASE Expire
  <2>1. record'.status \notin Ended
    BY <1>16 DEF Expire, Gone, Ended
  <2> QED BY <1>16, <2>1 DEF Expire, WholeInv, Whole
<1>17. CASE JobTick
  <2>1. record' = Aged(record) /\ late' = {[w EXCEPT !.stores = Aged(@)] : w \in late}
        /\ UNCHANGED <<local, chain, lostJob, runner, todo, logged>>
    BY <1>17 DEF JobTick
  <2>2. record'.status = record.status /\ record'.lines = record.lines
    BY <2>1, AgedKeeps DEF JobTyped, JobTypeOK, Final
  <2>3. \A w \in late : Aged(w.stores).status = w.stores.status /\ Aged(w.stores).lines = w.stores.lines
    BY AgedKeeps DEF JobTyped, Own
  <2>4. \A v \in late' : \E w \in late : v.stores = Aged(w.stores)
    BY <2>1 DEF JobTyped
  <2> QED BY <2>1, <2>2, <2>3, <2>4 DEF WholeInv, Whole
<1>18. CASE UNCHANGED jobVars
  BY <1>18 DEF jobVars, WholeInv, Whole
<1> QED BY <1>4, <1>5, <1>6, <1>7, <1>8, <1>9, <1>10, <1>11, <1>12, <1>13, <1>14, <1>15, <1>16,
        <1>17, <1>18 DEF JobNext

\* The runner's log: a job it ended shows every progress line, those included whose own write
\* failed, and reads completed only when every sheet was handled.
THEOREM EndsWhole == JobSpec => []EndIsWhole
<1>1. WholeInv => EndIsWhole
  BY DEF WholeInv, Whole, EndIsWhole, Ended
<1>2. JobInv /\ [JobNext]_jobVars => JobInv'
  BY RunnerKeeps, WritesKeep, OthersKeep DEF JobNext
<1> QED BY JobInvInit, WholeInit, <1>1, <1>2, WholeKept, PTL DEF JobSpec

=============================================================================
