--------------------------- MODULE RecordingLease ---------------------------
(***************************************************************************)
(* The recording lease of one session, shared by several server processes. *)
(*                                                                         *)
(* A recorder tab (a client id bound to a user, here one element of        *)
(* Clients) claims the lease, heartbeats it and releases it through any    *)
(* process.  The lease is one row of catalog.session_leases; every store   *)
(* operation is one transaction that holds the session's row lock, so it   *)
(* is one action here.  A process holds a hub for the session while it is  *)
(* in use; the hub keeps a single alarm slot, armed after COMMIT, which    *)
(* frees the lease when it lapses.  A sweeper in every process frees what  *)
(* no alarm frees.                                                         *)
(*                                                                         *)
(* Time is one integer (a unit stands for about ten seconds: the TTL is    *)
(* 40 s); the clock of process p runs ClockOffset[p] units ahead of it.    *)
(***************************************************************************)
EXTENDS Integers

CONSTANTS Clients,      \* recorder tabs: (client id, user) pairs
          Processes,    \* server processes sharing the database
          ClockOffset,  \* how far each process's clock is ahead of true time
          MaxSkew,      \* the largest offset
          TTL,          \* LEASE_STALE_MS
          MaxTime       \* bound: true time stops here

None == "none"          \* no holder, no writer

ASSUME SkewAssumption ==
  /\ MaxSkew \in Nat
  /\ ClockOffset \in [Processes -> 0 .. MaxSkew]

ASSUME TimeAssumption == TTL \in Nat \ {0} /\ MaxTime \in Nat

ASSUME ClientAssumption == None \notin Clients /\ None \notin Processes

VARIABLES
  time,      \* true time
  row,       \* the stored lease: holder (None when there is no row) and expiry
  hub,       \* processes with an open hub for the session
  alarm,     \* per process: when its timer fires on its own clock, NoAlarm if unarmed
  firing,    \* processes whose timer fired and whose expiry write is not done
  backoff,   \* per process: the last retry delay of a failed expiry write
  sweeping,  \* processes whose sweeper listed this session as expired
  seen,      \* the holder a watcher read on its last lease.changed frame
  writer,    \* history: the process whose hub last armed the alarm for the stored row
  promise    \* history: per client, the true time until which it was promised the lease

vars == <<time, row, hub, alarm, firing, backoff, sweeping, seen, writer, promise>>
procVars == <<hub, alarm, firing, backoff, sweeping>>

NoAlarm == -1
NoRow   == [holder |-> None, expires |-> 0]

Clock(p)   == time + ClockOffset[p]
HasRow     == row.holder # None
Expired(p) == HasRow /\ row.expires <= Clock(p)

-----------------------------------------------------------------------------
Init ==
  /\ time = 0
  /\ row = NoRow
  /\ hub = {}
  /\ alarm = [p \in Processes |-> NoAlarm]
  /\ firing = {}
  /\ backoff = [p \in Processes |-> 0]
  /\ sweeping = {}
  /\ seen = None
  /\ writer = None
  /\ promise = [c \in Clients |-> 0]

Tick ==
  /\ time < MaxTime
  /\ time' = time + 1
  /\ UNCHANGED <<row, procVars, seen, writer, promise>>

\* Mutant: the upsert does not refresh the caller's own row.
MutStoreKeepsExpiry(p, c) ==
  /\ row' = [holder |-> c, expires |-> IF row.holder = c THEN row.expires ELSE Clock(p) + TTL]
  /\ alarm' = [alarm EXCEPT ![p] = Clock(p) + TTL]
  /\ writer' = p

\* A transaction that stores a lease arms its hub's single slot after COMMIT.
Store(p, c) ==
  /\ row' = [holder |-> c, expires |-> Clock(p) + TTL]
  /\ alarm' = [alarm EXCEPT ![p] = Clock(p) + TTL]
  /\ writer' = p

\* COMMIT reached the database but its answer was lost: the row is stored, the
\* hub drops the held alarm and the caller gets an error.
StoreUnknown(p, c) ==
  /\ row' = [holder |-> c, expires |-> Clock(p) + TTL]
  /\ writer' = None
  /\ UNCHANGED alarm

\* What an answered success promises at least: the expiry is stored on the answering
\* process's clock and judged on another's, and clocks differ by at most MaxSkew.
Promise(c) == promise' = [promise EXCEPT ![c] = time + TTL - MaxSkew]

\* Mutant: the takeover comparison is off by one.
MutClaimableEarly(c, p) == ~HasRow \/ row.expires <= Clock(p) + 1 \/ row.holder = c

\* A claim wins on a free or expired lease, or on the caller's own.
Claimable(c, p) == ~HasRow \/ Expired(p) \/ row.holder = c

\* claimLease: the conditional upsert, the frame and the alarm, in one write.
Claim(c, p) ==
  /\ p \in hub
  /\ Claimable(c, p)
  /\ \/ Store(p, c) /\ Promise(c)
     \/ StoreUnknown(p, c) /\ UNCHANGED promise
  /\ seen' = c
  /\ UNCHANGED <<time, hub, firing, backoff, sweeping>>

\* heartbeatLease: the holder only, and only while alive; it announces nothing.
Heartbeat(c, p) ==
  /\ p \in hub
  /\ row.holder = c
  /\ row.expires > Clock(p)
  /\ \/ Store(p, c) /\ Promise(c)
     \/ StoreUnknown(p, c) /\ UNCHANGED promise
  /\ UNCHANGED <<time, hub, firing, backoff, sweeping, seen>>

\* releaseLease: deletes the caller's own row, expired or not; the alarm stays armed.
\* The client gives up its promise when it asks, whatever the answer.
Release(c, p) ==
  /\ p \in hub
  /\ promise' = [promise EXCEPT ![c] = 0]
  /\ \/ /\ row.holder = c
        /\ row' = NoRow
        /\ seen' = None
        /\ writer' = None
     \/ /\ row.holder # c
        /\ UNCHANGED <<row, seen, writer>>
  /\ UNCHANGED <<time, procVars>>

-----------------------------------------------------------------------------
\* Mutant: the expiry frees the lease without a frame.
MutExpireSilently(p) ==
  \/ /\ Expired(p)
     /\ row' = NoRow
     /\ writer' = None
     /\ UNCHANGED <<seen, alarm>>
  \/ /\ ~HasRow
     /\ UNCHANGED <<row, seen, writer, alarm>>
  \/ /\ HasRow /\ ~Expired(p)
     /\ alarm' = [alarm EXCEPT ![p] = row.expires]
     /\ UNCHANGED <<row, seen, writer>>

\* expireIfStale: delete the lease if it lapsed on p's clock and announce it,
\* then arm the alarm at the remaining expiry.
ExpireIfStale(p) ==
  \/ /\ Expired(p)
     /\ row' = NoRow
     /\ seen' = None
     /\ writer' = None
     /\ UNCHANGED alarm
  \/ /\ ~HasRow
     /\ UNCHANGED <<row, seen, writer, alarm>>
  \/ /\ HasRow /\ ~Expired(p)
     /\ alarm' = [alarm EXCEPT ![p] = row.expires]
     /\ UNCHANGED <<row, seen, writer>>

\* The first use of the session in a process opens its hub.
OpenHub(p) ==
  /\ p \notin hub
  /\ hub' = hub \cup {p}
  /\ ExpireIfStale(p)
  /\ UNCHANGED <<time, firing, backoff, sweeping, promise>>

\* The timer fires: the slot empties and the expiry write queues on the hub's lock.
AlarmFires(p) ==
  /\ alarm[p] # NoAlarm
  /\ alarm[p] <= Clock(p)
  /\ alarm' = [alarm EXCEPT ![p] = NoAlarm]
  /\ firing' = firing \cup {p}
  /\ UNCHANGED <<time, row, hub, backoff, sweeping, seen, writer, promise>>

AlarmRuns(p) ==
  /\ p \in firing
  /\ firing' = firing \ {p}
  /\ backoff' = [backoff EXCEPT ![p] = 0]
  /\ ExpireIfStale(p)
  /\ UNCHANGED <<time, hub, sweeping, promise>>

\* The delay after a failed run: one unit, doubling up to the stale threshold.
NextBackoff(b) == IF b = 0 THEN 1 ELSE IF 2 * b > TTL THEN TTL ELSE 2 * b

\* The expiry write failed; the retry replaces whatever alarm is armed.
AlarmFails(p) ==
  /\ p \in firing
  /\ firing' = firing \ {p}
  /\ backoff' = [backoff EXCEPT ![p] = NextBackoff(@)]
  /\ alarm' = [alarm EXCEPT ![p] = Clock(p) + NextBackoff(backoff[p])]
  /\ UNCHANGED <<time, row, hub, sweeping, seen, writer, promise>>

-----------------------------------------------------------------------------
\* Mutant: an armed alarm does not keep the hub.
MutEvictArmed(p) ==
  /\ p \in hub
  /\ p \notin firing
  /\ p \notin sweeping
  /\ hub' = hub \ {p}
  /\ UNCHANGED <<time, row, alarm, firing, backoff, sweeping, seen, writer, promise>>

\* The registry evicts an idle hub: no alarm armed and no call in flight.  A
\* hub the sweeper is about to use was just touched.
Evict(p) ==
  /\ p \in hub
  /\ alarm[p] = NoAlarm
  /\ p \notin firing
  /\ p \notin sweeping
  /\ hub' = hub \ {p}
  /\ UNCHANGED <<time, row, alarm, firing, backoff, sweeping, seen, writer, promise>>

\* A process dies and comes back with no hub; the row stays.
Crash(p) ==
  /\ hub' = hub \ {p}
  /\ alarm' = [alarm EXCEPT ![p] = NoAlarm]
  /\ firing' = firing \ {p}
  /\ backoff' = [backoff EXCEPT ![p] = 0]
  /\ sweeping' = sweeping \ {p}
  /\ writer' = IF writer = p THEN None ELSE writer
  /\ UNCHANGED <<time, row, seen, promise>>

\* A sweeper tick lists the sessions whose lease is expired ...
SweepList(p) ==
  /\ Expired(p)
  /\ sweeping' = sweeping \cup {p}
  /\ UNCHANGED <<time, row, hub, alarm, firing, backoff, seen, writer, promise>>

\* Mutant: the sweeper skips a session with no hub in its process.
MutSweepLiveHubs(p) ==
  /\ p \in sweeping
  /\ sweeping' = sweeping \ {p}
  /\ p \in hub
  /\ ExpireIfStale(p)
  /\ UNCHANGED <<time, hub, firing, backoff, promise>>

\* ... then frees each through the hub's write path, or warns and goes on.
SweepFree(p) ==
  /\ p \in sweeping
  /\ sweeping' = sweeping \ {p}
  /\ hub' = hub \cup {p}
  /\ ExpireIfStale(p)
  /\ UNCHANGED <<time, firing, backoff, promise>>

SweepFails(p) ==
  /\ p \in sweeping
  /\ sweeping' = sweeping \ {p}
  /\ UNCHANGED <<time, row, hub, alarm, firing, backoff, seen, writer, promise>>

-----------------------------------------------------------------------------
ClientStep == \E c \in Clients, p \in Processes :
                Claim(c, p) \/ Heartbeat(c, p) \/ Release(c, p)

HubStep == \E p \in Processes :
             OpenHub(p) \/ AlarmFires(p) \/ AlarmRuns(p) \/ AlarmFails(p) \/ Evict(p) \/ Crash(p)

SweepStep == \E p \in Processes : SweepList(p) \/ SweepFree(p) \/ SweepFails(p)

Next == Tick \/ ClientStep \/ HubStep \/ SweepStep

Spec == Init /\ [][Next]_vars

\* Every process ticks its sweeper each minute.  The database answers often
\* enough: a sweep that keeps being attempted is not failed every time.
Fairness == /\ WF_vars(Tick)
            /\ \A p \in Processes : WF_vars(SweepList(p)) /\ SF_vars(SweepFree(p))

FairSpec == Spec /\ Fairness

-----------------------------------------------------------------------------
Rows == [holder : Clients \cup {None}, expires : Nat]

TypeOK ==
  /\ time \in Nat
  /\ row \in Rows
  /\ hub \subseteq Processes
  /\ alarm \in [Processes -> Nat \cup {NoAlarm}]
  /\ firing \subseteq Processes
  /\ backoff \in [Processes -> 0 .. TTL]
  /\ sweeping \subseteq Processes
  /\ seen \in Clients \cup {None}
  /\ writer \in Processes \cup {None}
  /\ promise \in [Clients -> Int]

\* Two recorders never hold an unexpired promise of the lease at once, whatever
\* processes served them and however their clocks differ: a lease is taken over
\* or freed only after every promise made on it ran out.
ExclusivePromise ==
  \A c, d \in Clients : promise[c] > time /\ promise[d] > time => c = d

\* A promised lease is still stored for its holder, so its next heartbeat succeeds
\* through any process: the alarms, the sweepers and rival claims of other
\* processes never free it early.
PromiseKept ==
  \A c \in Clients : promise[c] > time =>
    row.holder = c /\ \A p \in Processes : row.expires > Clock(p)

\* Every change of holder is announced by lease.changed in the write that makes
\* it: a watcher that re-reads on each frame always shows the stored holder.
HolderAnnounced == seen = row.holder

\* The hub that stored the lease's current expiry stays open with its alarm armed or
\* firing until the lease is freed or another process takes over the watch; unless
\* an expiry write failed, the alarm is not later than the expiry.
WriterWatches ==
  HasRow /\ writer # None =>
    /\ writer \in hub
    /\ \/ writer \in firing
       \/ /\ alarm[writer] # NoAlarm
          /\ backoff[writer] = 0 => alarm[writer] <= row.expires

\* An expired lease never stays stored: it is freed, taken over or re-claimed, even
\* when the process that stored it died and nobody opens the session.
ExpiredFreed ==
  \A p \in Processes : Expired(p) ~> (~HasRow \/ ~Expired(p))
=============================================================================
