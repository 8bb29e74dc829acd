------------------------------- MODULE SlotPool -------------------------------
(***************************************************************************)
(* The session slots of the catalog adapter: a fixed set of connections    *)
(* with a queue, on which every session transaction runs.                  *)
(*                                                                         *)
(* A transaction takes a slot or waits for one, sends BEGIN with the       *)
(* session's row lock, runs its body, sends COMMIT or ROLLBACK, and runs   *)
(* again after a deadlock.  One deadline bounds the whole call; it may     *)
(* pass at any step.  A slot whose transaction has no confirmed end gets a *)
(* fresh connection, and the server keeps the old transaction (an orphan,  *)
(* with its row lock) until it notices that its client is gone.            *)
(***************************************************************************)
EXTENDS Naturals, Sequences, FiniteSets

CONSTANTS Slots,
          Callers,      \* transactions and snapshots, one per hub call
          Writing,      \* the callers that run a write transaction
          Sessions,     \* each with a row to lock
          SessionOf,    \* per caller: its session
          MaxTries

Nobody == "nobody"

ASSUME PoolAssumption ==
  /\ IsFiniteSet(Slots)
  /\ Writing \subseteq Callers
  /\ SessionOf \in [Callers -> Sessions]
  /\ Nobody \notin Callers \cup Slots
  /\ MaxTries \in Nat

VARIABLES
  free,      \* slots nobody holds, the next one first
  waiters,   \* callers waiting for a slot, in order of arrival
  phase,     \* per caller: how far its call is
  on,        \* per caller: the slot it holds
  link,      \* per slot: its connection at the server
  lock,      \* per session: who holds its row lock
  orphan,    \* per caller: a transaction of it whose connection was given up
  applied,   \* per caller: how often its write was committed
  tries,
  closed     \* the adapter is closed

poolVars == <<free, waiters, phase, on, link, lock, orphan, applied, tries, closed>>

Answers == {"ok", "failed", "unknown"}
Running == {"begin", "body", "rollback", "rewind", "commit"}
Waiting == {"waiting", "backoff"}
Entries(q) == {q[i] : i \in DOMAIN q}
Distinct(q) == \A i, j \in DOMAIN q : q[i] = q[j] => i = j
Unlocked(c) == IF lock[SessionOf[c]] = c THEN [lock EXCEPT ![SessionOf[c]] = Nobody] ELSE lock

-----------------------------------------------------------------------------
PoolInit ==
  /\ free \in {q \in [1 .. Cardinality(Slots) -> Slots] : Entries(q) = Slots /\ Distinct(q)}
  /\ waiters = <<>>
  /\ phase = [c \in Callers |-> "idle"]
  /\ on = [c \in Callers |-> Nobody]
  /\ link = [s \in Slots |-> "clean"]
  /\ lock = [r \in Sessions |-> Nobody]
  /\ orphan = [c \in Callers |-> "none"]
  /\ applied = [c \in Callers |-> 0]
  /\ tries = [c \in Callers |-> 0]
  /\ closed = FALSE

\* acquire: a free slot, on which BEGIN is sent at once, or the end of the queue.
Acquire(c) ==
  /\ tries' = [tries EXCEPT ![c] = @ + 1]
  /\ IF free # <<>>
     THEN /\ free' = Tail(free)
          /\ on' = [on EXCEPT ![c] = Head(free)]
          /\ phase' = [phase EXCEPT ![c] = "begin"]
          /\ UNCHANGED waiters
     ELSE /\ waiters' = Append(waiters, c)
          /\ phase' = [phase EXCEPT ![c] = "waiting"]
          /\ UNCHANGED <<free, on>>
  /\ UNCHANGED <<link, lock, orphan, applied, closed>>

\* The call ends without a slot.
Refuse(c) ==
  /\ phase' = [phase EXCEPT ![c] = "failed"]
  /\ UNCHANGED <<free, waiters, on, link, lock, orphan, applied, tries, closed>>

Start(c) ==
  /\ phase[c] = "idle"
  /\ IF closed THEN Refuse(c) ELSE Acquire(c)

\* After the backoff: once more, unless the deadline passed or the adapter was closed.
Retry(c) ==
  /\ phase[c] = "backoff"
  /\ \/ ~closed /\ Acquire(c)
     \/ Refuse(c)

\* Mutant: the waiter gives up but stays in the queue.
MutQueueExpires(c) ==
  /\ c \in Entries(waiters)
  /\ phase' = [phase EXCEPT ![c] = "failed"]
  /\ UNCHANGED <<free, waiters, on, link, lock, orphan, applied, tries, closed>>

\* The deadline passes in the queue: the waiter leaves it.
QueueExpires(c) ==
  /\ \E i \in DOMAIN waiters :
       /\ waiters[i] = c
       /\ waiters' = [j \in 1 .. Len(waiters) - 1 |-> IF j < i THEN waiters[j] ELSE waiters[j + 1]]
  /\ phase' = [phase EXCEPT ![c] = "failed"]
  /\ UNCHANGED <<free, on, link, lock, orphan, applied, tries, closed>>

-----------------------------------------------------------------------------
\* release: the slot goes to the first waiter, which sends BEGIN at once, or is free.
\* The caller c that held it goes on to `then`.
ReleaseSlot(c, then) ==
  IF waiters # <<>>
  THEN /\ phase' = [phase EXCEPT ![c] = then, ![Head(waiters)] = "begin"]
       /\ on' = [on EXCEPT ![c] = Nobody, ![Head(waiters)] = on[c]]
       /\ waiters' = Tail(waiters)
       /\ UNCHANGED free
  ELSE /\ phase' = [phase EXCEPT ![c] = then]
       /\ on' = [on EXCEPT ![c] = Nobody]
       /\ free' = Append(free, on[c])
       /\ UNCHANGED waiters

\* Mutant: the slot is released although its transaction may still be open.
MutRecycle(c, then) == ReleaseSlot(c, then) /\ UNCHANGED link

\* recycle: a fresh connection in the slot, then released; after close the slot is gone.
Recycle(c, then) ==
  IF closed
  THEN /\ phase' = [phase EXCEPT ![c] = then]
       /\ on' = [on EXCEPT ![c] = Nobody]
       /\ link' = [link EXCEPT ![on[c]] = "gone"]
       /\ UNCHANGED <<free, waiters>>
  ELSE /\ link' = [link EXCEPT ![on[c]] = "clean"]
       /\ ReleaseSlot(c, then)

\* The server still has the transaction, with its row lock, or has already ended it.
Abandoned(c) ==
  \/ orphan' = [orphan EXCEPT ![c] = "open"] /\ UNCHANGED lock
  \/ lock' = Unlocked(c) /\ UNCHANGED orphan

\* BEGIN and the row lock were answered.
BeginOk(c) ==
  /\ phase[c] = "begin"
  /\ c \in Writing => lock[SessionOf[c]] = Nobody
  /\ lock' = IF c \in Writing THEN [lock EXCEPT ![SessionOf[c]] = c] ELSE lock
  /\ link' = [link EXCEPT ![on[c]] = "open"]
  /\ phase' = [phase EXCEPT ![c] = "body"]
  /\ UNCHANGED <<free, waiters, on, orphan, applied, tries, closed>>

\* No such session, or no access to it: rolled back, the body never runs.
BeginRefused(c) ==
  /\ phase[c] = "begin"
  /\ link' = [link EXCEPT ![on[c]] = "open"]
  /\ phase' = [phase EXCEPT ![c] = "rollback"]
  /\ UNCHANGED <<free, waiters, on, lock, orphan, applied, tries, closed>>

\* The deadline passes or the connection is lost before the answer: the server may
\* nevertheless have taken the row lock.
BeginFails(c) ==
  /\ phase[c] = "begin"
  /\ Recycle(c, "failed")
  /\ \/ UNCHANGED <<lock, orphan>>
     \/ /\ c \in Writing /\ lock[SessionOf[c]] = Nobody
        /\ lock' = [lock EXCEPT ![SessionOf[c]] = c]
        /\ orphan' = [orphan EXCEPT ![c] = "open"]
  /\ UNCHANGED <<applied, tries, closed>>

\* The body returned and its statements are drained: COMMIT is sent.
BodyEnds(c) ==
  /\ phase[c] = "body"
  /\ phase' = [phase EXCEPT ![c] = "commit"]
  /\ UNCHANGED <<free, waiters, on, link, lock, orphan, applied, tries, closed>>

\* The body threw, or the deadline passed between two statements: ROLLBACK is sent.
BodyFails(c) ==
  /\ phase[c] = "body"
  /\ phase' = [phase EXCEPT ![c] = "rollback"]
  /\ UNCHANGED <<free, waiters, on, link, lock, orphan, applied, tries, closed>>

\* The server broke a deadlock by aborting this transaction.
Deadlocked(c) ==
  /\ phase[c] = "body" /\ c \in Writing
  /\ lock' = Unlocked(c)
  /\ phase' = [phase EXCEPT ![c] = "rewind"]
  /\ UNCHANGED <<free, waiters, on, link, orphan, applied, tries, closed>>

\* The connection was lost, or the deadline passed and the running statement was
\* cancelled: nothing more is sent on this connection.
BodyLost(c) ==
  /\ phase[c] = "body"
  /\ Recycle(c, "failed")
  /\ Abandoned(c)
  /\ UNCHANGED <<applied, tries, closed>>

MayRetry(c) == tries[c] < MaxTries /\ ~closed

\* What follows a rolled back attempt.
AfterRollback(c) == IF phase[c] = "rewind" /\ MayRetry(c) THEN "backoff" ELSE "failed"

RolledBack(c) ==
  /\ phase[c] \in {"rollback", "rewind"}
  /\ lock' = Unlocked(c)
  /\ link' = [link EXCEPT ![on[c]] = "clean"]
  /\ ReleaseSlot(c, AfterRollback(c))
  /\ UNCHANGED <<orphan, applied, tries, closed>>

\* ROLLBACK was not confirmed in time, or the connection was lost.
RollbackFails(c) ==
  /\ phase[c] \in {"rollback", "rewind"}
  /\ Recycle(c, AfterRollback(c))
  /\ IF phase[c] = "rewind" THEN UNCHANGED <<lock, orphan>> ELSE Abandoned(c)
  /\ UNCHANGED <<applied, tries, closed>>

-----------------------------------------------------------------------------
\* The server runs the COMMIT; its answer is on the way.
BackendCommits(c) ==
  /\ phase[c] = "commit" /\ link[on[c]] = "open"
  /\ link' = [link EXCEPT ![on[c]] = "clean"]
  /\ applied' = [applied EXCEPT ![c] = @ + 1]
  /\ lock' = Unlocked(c)
  /\ UNCHANGED <<free, waiters, phase, on, orphan, tries, closed>>

CommitOk(c) ==
  /\ phase[c] = "commit" /\ link[on[c]] = "clean"
  /\ ReleaseSlot(c, "ok")
  /\ UNCHANGED <<link, lock, orphan, applied, tries, closed>>

\* The server refused the COMMIT, with an error (the connection is replaced, and a deadlock
\* is retried) or with a ROLLBACK (it is kept).
CommitRefused(c) ==
  /\ phase[c] = "commit" /\ link[on[c]] = "open"
  /\ lock' = Unlocked(c)
  /\ \/ Recycle(c, "failed")
     \/ MayRetry(c) /\ Recycle(c, "backoff")
     \/ link' = [link EXCEPT ![on[c]] = "clean"] /\ ReleaseSlot(c, "failed")
  /\ UNCHANGED <<orphan, applied, tries, closed>>

\* Mutant: an unanswered COMMIT is run again like a deadlock.
MutCommitLost(c) ==
  /\ phase[c] = "commit"
  /\ Recycle(c, IF tries[c] < MaxTries THEN "backoff" ELSE "unknown")
  /\ orphan' = IF link[on[c]] = "open" THEN [orphan EXCEPT ![c] = "sent"] ELSE orphan
  /\ UNCHANGED <<lock, applied, tries, closed>>

\* No answer to the COMMIT: the outcome is unknown and the call is not run again.
CommitLost(c) ==
  /\ phase[c] = "commit"
  /\ Recycle(c, "unknown")
  /\ orphan' = IF link[on[c]] = "open" THEN [orphan EXCEPT ![c] = "sent"] ELSE orphan
  /\ UNCHANGED <<lock, applied, tries, closed>>

\* The server ends a transaction whose client is gone; a COMMIT it had received may
\* still be carried out.
OrphanEnds(c) ==
  /\ orphan[c] # "none"
  /\ orphan' = [orphan EXCEPT ![c] = "none"]
  /\ lock' = Unlocked(c)
  /\ \/ UNCHANGED applied
     \/ orphan[c] = "sent" /\ applied' = [applied EXCEPT ![c] = @ + 1]
  /\ UNCHANGED <<free, waiters, phase, on, link, tries, closed>>

-----------------------------------------------------------------------------
\* close: waiting calls are rejected and new ones refused.
ClosePool ==
  /\ ~closed
  /\ closed' = TRUE
  /\ phase' = [c \in Callers |-> IF phase[c] = "waiting" THEN "failed" ELSE phase[c]]
  /\ waiters' = <<>>
  /\ UNCHANGED <<free, on, link, lock, orphan, applied, tries>>

\* Once the running calls have settled every connection is ended.
EndPool ==
  /\ closed /\ free # <<>>
  /\ \A c \in Callers : phase[c] \notin Running \cup Waiting
  /\ link' = [s \in Slots |-> "gone"]
  /\ free' = <<>>
  /\ UNCHANGED <<waiters, phase, on, lock, orphan, applied, tries, closed>>

\* A step of a call that has been started.
Step(c) ==
  \/ Retry(c) \/ QueueExpires(c)
  \/ BeginOk(c) \/ BeginRefused(c) \/ BeginFails(c)
  \/ BodyEnds(c) \/ BodyFails(c) \/ Deadlocked(c) \/ BodyLost(c)
  \/ RolledBack(c) \/ RollbackFails(c)
  \/ BackendCommits(c) \/ CommitOk(c) \/ CommitRefused(c) \/ CommitLost(c)
  \/ OrphanEnds(c)

PoolNext ==
  \/ \E c \in Callers : Start(c) \/ Step(c)
  \/ ClosePool \/ EndPool

PoolSpec == PoolInit /\ [][PoolNext]_poolVars

\* The timers of a call: the deadline in the queue, at BEGIN, in the body and at COMMIT, the
\* bound on a ROLLBACK, and the backoff.  The server is not assumed to answer.
Timers(c) ==
  Retry(c) \/ QueueExpires(c) \/ BeginFails(c) \/ BodyLost(c) \/ RollbackFails(c) \/ CommitLost(c)

-----------------------------------------------------------------------------
PoolTypeOK ==
  /\ free \in Seq(Slots) /\ waiters \in Seq(Callers)
  /\ phase \in [Callers -> {"idle"} \cup Waiting \cup Running \cup Answers]
  /\ on \in [Callers -> Slots \cup {Nobody}]
  /\ link \in [Slots -> {"clean", "open", "gone"}]
  /\ lock \in [Sessions -> Callers \cup {Nobody}]
  /\ orphan \in [Callers -> {"none", "open", "sent"}]
  /\ applied \in [Callers -> Nat] /\ tries \in [Callers -> Nat]
  /\ closed \in BOOLEAN

\* Each slot is in one place: free, held by one call, or gone after close; a caller waits
\* only while no slot is free, and stands in the queue once.
SlotsExact ==
  /\ \A c \in Callers : on[c] # Nobody <=> phase[c] \in Running
  /\ \A c, d \in Callers : on[c] # Nobody /\ on[c] = on[d] => c = d
  /\ \A c \in Callers : on[c] \notin Entries(free)
  /\ Distinct(free)
  /\ \A s \in Slots : s \in Entries(free) \/ link[s] = "gone" \/ \E c \in Callers : on[c] = s
  /\ waiters # <<>> => free = <<>>
  /\ Entries(waiters) = {c \in Callers : phase[c] = "waiting"}
  /\ Distinct(waiters)

\* A connection that is handed out has no transaction open on it: neither a free one nor one
\* whose new holder has just sent BEGIN, whatever happened to the holder before.
CleanHandOver ==
  \A s \in Slots :
    s \in Entries(free) \/ (\E c \in Callers : on[c] = s /\ phase[c] = "begin") => link[s] = "clean"

\* The answer tells the truth: a call answered "ok" was committed once, a call answered with an
\* error never was and never will be, and no call, deadlocks and retries included, twice.
AnswerTruthful ==
  \A c \in Callers :
    /\ applied[c] <= 1
    /\ phase[c] = "ok" => applied[c] = 1
    /\ phase[c] \in {"failed", "backoff"} => applied[c] = 0 /\ orphan[c] # "sent"
=============================================================================
