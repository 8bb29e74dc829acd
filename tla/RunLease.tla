------------------------------ MODULE RunLease ------------------------------
(***************************************************************************)
(* The single flight of one kind of run (an AI turn, a transcript          *)
(* generation or a YouTube import) on one session, over several processes. *)
(*                                                                         *)
(* A run takes its process's in-memory slot, claims the run lease (one     *)
(* row, silent), renews it on a timer as a re-claim by the same holder,    *)
(* and on its end stops the timer, waits for the renewal in flight,        *)
(* releases the row and then frees the slot.  A refused renewal stops the  *)
(* timer and the run goes on.  The sweeper of any process deletes an       *)
(* expired row.  Process clocks agree here (RecordingLease has the skew).  *)
(***************************************************************************)
EXTENDS Integers

CONSTANTS Runs,       \* runs; each holds under its own holder id
          Processes,
          TTL,        \* RUN_LEASE_TTL_MS
          MaxTime     \* bound: time stops here

None == "none"

ASSUME RunAssumption ==
  /\ None \notin Runs
  /\ TTL \in Nat \ {0}
  /\ MaxTime \in Nat

VARIABLES
  time,
  row,      \* the stored lease: holder and expiry
  phase,    \* per run: new, claiming, running, stopping, done, refused, dead
  host,     \* per run: the process it runs in
  slot,     \* the processes whose in-memory slot for the session is taken
  timer,    \* the runs whose renewal timer is on
  renewing, \* the runs with a renewal in flight
  promise,  \* history: per run, the time until which its last success holds the row
  stray     \* history: runs with a claim or a release that may have left their row behind

vars == <<time, row, phase, host, slot, timer, renewing, promise, stray>>

NoRow == [holder |-> None, expires |-> 0]

Live == row.holder # None /\ row.expires > time

-----------------------------------------------------------------------------
Init ==
  /\ time = 0
  /\ row = NoRow
  /\ phase = [r \in Runs |-> "new"]
  /\ host \in [Runs -> Processes]
  /\ slot = {}
  /\ timer = {}
  /\ renewing = {}
  /\ promise = [r \in Runs |-> 0]
  /\ stray = {}

Tick ==
  /\ time < MaxTime
  /\ time' = time + 1
  /\ UNCHANGED <<row, phase, host, slot, timer, renewing, promise, stray>>

\* The in-process check, first and synchronous.
Start(r) ==
  /\ phase[r] = "new"
  /\ host[r] \notin slot
  /\ slot' = slot \cup {host[r]}
  /\ phase' = [phase EXCEPT ![r] = "claiming"]
  /\ UNCHANGED <<time, row, host, timer, renewing, promise, stray>>

\* Mutant: the takeover comparison is off by one.
MutClaimableEarly(r) == row.expires <= time + 1 \/ row.holder = r

\* The conditional upsert wins on a free or expired row, or on the holder's own.
Claimable(r) == ~Live \/ row.holder = r

\* The row the upsert stores, for a claim and a renewal alike.
Upserted(r) == [holder |-> r, expires |-> time + TTL]

ClaimWins(r) ==
  /\ phase[r] = "claiming"
  /\ Claimable(r)
  /\ row' = Upserted(r)
  /\ phase' = [phase EXCEPT ![r] = "running"]
  /\ timer' = timer \cup {r}
  /\ promise' = [promise EXCEPT ![r] = time + TTL]
  /\ UNCHANGED <<time, host, slot, renewing, stray>>

\* Mutant: a claim that throws keeps the slot.
MutClaimLeaksSlot(r) ==
  /\ phase[r] = "claiming"
  /\ \/ ~Claimable(r) /\ slot' = slot \ {host[r]} /\ UNCHANGED <<row, stray>>
     \/ UNCHANGED <<row, slot>> /\ stray' = stray \cup {r}
  /\ phase' = [phase EXCEPT ![r] = "refused"]
  /\ UNCHANGED <<time, host, timer, renewing, promise>>

\* Refused (409) or failed: the slot is freed.  A failed claim may have committed.
ClaimLoses(r) ==
  /\ phase[r] = "claiming"
  /\ \/ ~Claimable(r) /\ UNCHANGED <<row, stray>>
     \/ UNCHANGED row /\ stray' = stray \cup {r}
     \/ Claimable(r) /\ row' = Upserted(r) /\ stray' = stray \cup {r}
  /\ phase' = [phase EXCEPT ![r] = "refused"]
  /\ slot' = slot \ {host[r]}
  /\ UNCHANGED <<time, host, timer, renewing, promise>>

-----------------------------------------------------------------------------
\* A timer tick starts a renewal unless one is in flight.
RenewTick(r) ==
  /\ r \in timer
  /\ r \notin renewing
  /\ renewing' = renewing \cup {r}
  /\ UNCHANGED <<time, row, phase, host, slot, timer, promise, stray>>

\* The renewal ends: it re-claims; or it is refused and the timer stops; or it
\* fails, having committed or not, and the next tick retries.
RenewEnds(r) ==
  /\ r \in renewing
  /\ renewing' = renewing \ {r}
  /\ \/ /\ Claimable(r)
        /\ row' = Upserted(r)
        /\ promise' = [promise EXCEPT ![r] = time + TTL]
        /\ UNCHANGED timer
     \/ /\ ~Claimable(r)
        /\ timer' = timer \ {r}
        /\ UNCHANGED <<row, promise>>
     \/ UNCHANGED <<row, promise, timer>>
     \/ /\ Claimable(r)
        /\ row' = Upserted(r)
        /\ UNCHANGED <<promise, timer>>
  /\ UNCHANGED <<time, phase, host, slot, stray>>

\* The run ends: the timer stops at once.
Stop(r) ==
  /\ phase[r] = "running"
  /\ phase' = [phase EXCEPT ![r] = "stopping"]
  /\ timer' = timer \ {r}
  /\ promise' = [promise EXCEPT ![r] = 0]
  /\ UNCHANGED <<time, row, host, slot, renewing, stray>>

\* Mutant: the release does not wait for the renewal in flight.
MutReleaseAtOnce(r) ==
  /\ phase[r] = "stopping"
  /\ \/ /\ row' = IF row.holder = r THEN NoRow ELSE row
        /\ UNCHANGED stray
     \/ /\ UNCHANGED row
        /\ stray' = stray \cup {r}
  /\ phase' = [phase EXCEPT ![r] = "done"]
  /\ slot' = slot \ {host[r]}
  /\ promise' = [promise EXCEPT ![r] = 0]
  /\ UNCHANGED <<time, host, timer, renewing>>

\* The release: after the renewal in flight, delete the run's own row (or fail,
\* logged), then free the slot.
Release(r) ==
  /\ phase[r] = "stopping"
  /\ r \notin renewing
  /\ \/ /\ row' = IF row.holder = r THEN NoRow ELSE row
        /\ UNCHANGED stray
     \/ /\ UNCHANGED row
        /\ stray' = stray \cup {r}
  /\ phase' = [phase EXCEPT ![r] = "done"]
  /\ slot' = slot \ {host[r]}
  /\ promise' = [promise EXCEPT ![r] = 0]
  /\ UNCHANGED <<time, host, timer, renewing>>

\* A process dies: its runs and its slot go, the row stays.
Crash(p) ==
  LET gone == {r \in Runs : host[r] = p /\ phase[r] \in {"claiming", "running", "stopping"}}
  IN /\ phase' = [r \in Runs |-> IF r \in gone THEN "dead" ELSE phase[r]]
     /\ slot' = slot \ {p}
     /\ timer' = timer \ gone
     /\ renewing' = renewing \ gone
     /\ promise' = [r \in Runs |-> IF r \in gone THEN 0 ELSE promise[r]]
     /\ UNCHANGED <<time, row, host, stray>>

\* Any process's sweeper deletes an expired run row, silently.
Sweep ==
  /\ row.holder # None
  /\ row.expires <= time
  /\ row' = NoRow
  /\ UNCHANGED <<time, phase, host, slot, timer, renewing, promise, stray>>

Next ==
  \/ Tick
  \/ Sweep
  \/ \E r \in Runs : \/ Start(r) \/ ClaimWins(r) \/ ClaimLoses(r) \/ RenewTick(r)
                     \/ RenewEnds(r) \/ Stop(r) \/ Release(r)
  \/ \E p \in Processes : Crash(p)

Spec == Init /\ [][Next]_vars

-----------------------------------------------------------------------------
Phases == {"new", "claiming", "running", "stopping", "done", "refused", "dead"}

TypeOK ==
  /\ time \in Nat
  /\ row \in [holder : Runs \cup {None}, expires : Nat]
  /\ phase \in [Runs -> Phases]
  /\ host \in [Runs -> Processes]
  /\ slot \subseteq Processes
  /\ timer \subseteq {r \in Runs : phase[r] = "running"}
  /\ renewing \subseteq Runs
  /\ promise \in [Runs -> Nat]
  /\ stray \subseteq Runs

\* Two runs of one kind are live on a session at once only when one of them failed
\* to renew for a whole TTL: until then every other claim is refused, in this
\* process by the slot and in every other one by the row.
OverlapOnlyAfterLapse ==
  \A r, s \in Runs :
    phase[r] = "running" /\ phase[s] = "running" /\ r # s =>
      promise[r] <= time \/ promise[s] <= time

\* A run that ended, its release done, holds nothing: no renewal lands after the release
\* and blocks the next run for a TTL.
NoGhostHolder ==
  \A r \in Runs : phase[r] = "done" /\ r \notin stray => row.holder # r

\* A process's in-memory slot is taken exactly while one of its runs is between its check
\* and the end of its release: no refusal, error or lost lease leaks it, none frees it early.
Active == {r \in Runs : phase[r] \in {"claiming", "running", "stopping"}}

SlotExact ==
  /\ slot = {host[r] : r \in Active}
  /\ \A r, s \in Active : host[r] = host[s] => r = s
=============================================================================
