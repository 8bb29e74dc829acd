------------------------ MODULE RecordingLeaseProofs ------------------------
(***************************************************************************)
(* The recording lease for every number of recorders and processes, every  *)
(* TTL and every clock difference.                                         *)
(*                                                                         *)
(* ExclusivePromise and PromiseKept are not inductive: a claim through one *)
(* process must be refused because of an expiry another process stored on  *)
(* its own clock.  The strengthening Cover says how far the stored expiry  *)
(* reaches past a promise, and Fresh that no promise outlives what a store *)
(* at this moment would promise, so that a write whose answer was lost     *)
(* does not shorten the lease under an older promise.                      *)
(***************************************************************************)
EXTENDS RecordingLease, TLAPS

\* The stored lease covers a live promise by the whole skew.
Cover ==
  \A c \in Clients : promise[c] > time =>
    row.holder = c /\ row.expires >= promise[c] + MaxSkew

Fresh ==
  \A c \in Clients : promise[c] > time => promise[c] <= time + TTL - MaxSkew

IInv == TypeOK /\ Cover /\ Fresh

-----------------------------------------------------------------------------
\* A process's clock reads at most MaxSkew ahead of true time (SessionCore.now).
LEMMA ClockBounds ==
  ASSUME time \in Nat, NEW p \in Processes
  PROVE  Clock(p) \in Nat /\ Clock(p) >= time /\ Clock(p) <= time + MaxSkew
  BY SkewAssumption DEF Clock

\* The expiry write of a hub (expireIfStale) keeps the types of what it touches.
LEMMA ExpireTyped ==
  ASSUME TypeOK, NEW p \in Processes, ExpireIfStale(p)
  PROVE  /\ row' \in Rows
         /\ alarm' \in [Processes -> Nat \cup {NoAlarm}]
         /\ seen' \in Clients \cup {None}
         /\ writer' \in Processes \cup {None}
<1>1. CASE Expired(p) /\ row' = NoRow /\ seen' = None /\ writer' = None /\ UNCHANGED alarm
  BY <1>1 DEF TypeOK, Rows, NoRow
<1>2. CASE ~HasRow /\ UNCHANGED <<row, seen, writer, alarm>>
  BY <1>2 DEF TypeOK
<1>3. CASE /\ alarm' = [alarm EXCEPT ![p] = row.expires]
           /\ UNCHANGED <<row, seen, writer>>
  BY <1>3 DEF TypeOK, Rows
<1> QED
  BY <1>1, <1>2, <1>3 DEF ExpireIfStale

\* The two outcomes of a lease store (an answered one and one whose COMMIT answer
\* was lost) keep the types of what they touch.
LEMMA StoreTyped ==
  ASSUME TypeOK, NEW p \in Processes, NEW c \in Clients,
         Store(p, c) \/ StoreUnknown(p, c)
  PROVE  /\ row' \in Rows
         /\ alarm' \in [Processes -> Nat \cup {NoAlarm}]
         /\ writer' \in Processes \cup {None}
<1>1. Clock(p) + TTL \in Nat
  BY ClockBounds, TimeAssumption DEF TypeOK
<1> QED
  BY <1>1 DEF TypeOK, Store, StoreUnknown, Rows

\* The retry delay of a failed expiry write stays within the stale threshold.
LEMMA BackoffBounds ==
  ASSUME NEW b \in 0 .. TTL
  PROVE  NextBackoff(b) \in 1 .. TTL
  BY TimeAssumption DEF NextBackoff

\* Every step keeps every variable in its type.
LEMMA TypeStep ==
  ASSUME TypeOK, [Next]_vars
  PROVE  TypeOK'
<1> USE DEF procVars
<1>1. CASE Tick
  BY <1>1 DEF Tick, TypeOK
<1>2. ASSUME NEW c \in Clients, NEW p \in Processes, Claim(c, p)
      PROVE  TypeOK'
  BY <1>2, StoreTyped, SkewAssumption, TimeAssumption DEF Claim, Promise, TypeOK
<1>3. ASSUME NEW c \in Clients, NEW p \in Processes, Heartbeat(c, p)
      PROVE  TypeOK'
  BY <1>3, StoreTyped, SkewAssumption, TimeAssumption DEF Heartbeat, Promise, TypeOK
<1>4. ASSUME NEW c \in Clients, NEW p \in Processes, Release(c, p)
      PROVE  TypeOK'
  BY <1>4 DEF Release, TypeOK, Rows, NoRow
<1>5. ASSUME NEW p \in Processes, OpenHub(p)
      PROVE  TypeOK'
  BY <1>5, ExpireTyped DEF OpenHub, TypeOK
<1>6. ASSUME NEW p \in Processes, AlarmFires(p)
      PROVE  TypeOK'
  BY <1>6 DEF AlarmFires, TypeOK
<1>7. ASSUME NEW p \in Processes, AlarmRuns(p)
      PROVE  TypeOK'
  BY <1>7, ExpireTyped, TimeAssumption DEF AlarmRuns, TypeOK
<1>8. ASSUME NEW p \in Processes, AlarmFails(p)
      PROVE  TypeOK'
  <2>1. NextBackoff(backoff[p]) \in 1 .. TTL
    BY BackoffBounds DEF TypeOK
  <2>2. Clock(p) + NextBackoff(backoff[p]) \in Nat
    BY <2>1, ClockBounds, TimeAssumption DEF TypeOK
  <2> QED
    BY <1>8, <2>1, <2>2, TimeAssumption DEF AlarmFails, TypeOK
<1>9. ASSUME NEW p \in Processes, Evict(p)
      PROVE  TypeOK'
  BY <1>9 DEF Evict, TypeOK
<1>10. ASSUME NEW p \in Processes, Crash(p)
       PROVE  TypeOK'
  BY <1>10, TimeAssumption DEF Crash, TypeOK
<1>11. ASSUME NEW p \in Processes, SweepList(p) \/ SweepFails(p)
       PROVE  TypeOK'
  BY <1>11 DEF SweepList, SweepFails, TypeOK
<1>12. ASSUME NEW p \in Processes, SweepFree(p)
       PROVE  TypeOK'
  BY <1>12, ExpireTyped DEF SweepFree, TypeOK
<1>13. CASE UNCHANGED vars
  BY <1>13 DEF vars, TypeOK
<1> QED
  BY <1>1, <1>2, <1>3, <1>4, <1>5, <1>6, <1>7, <1>8, <1>9, <1>10, <1>11, <1>12, <1>13
     DEF Next, ClientStep, HubStep, SweepStep

\* The store without a lease is well typed.
LEMMA InitTyped == Init => TypeOK
  BY TimeAssumption DEF Init, TypeOK, Rows, NoRow

\* Every reachable state of the lease is well typed.
THEOREM TypeCorrect == Spec => []TypeOK
<1>1. Init => TypeOK
  BY InitTyped
<1>2. TypeOK /\ [Next]_vars => TypeOK'
  BY TypeStep
<1> QED
  BY <1>1, <1>2, PTL DEF Spec

-----------------------------------------------------------------------------
\* A live promise shows on every process's clock as an unexpired row of its
\* client, so no other client can claim the lease anywhere.
LEMMA PromiseBlocks ==
  ASSUME IInv, NEW c \in Clients, promise[c] > time, NEW p \in Processes
  PROVE  /\ row.holder = c
         /\ ~Expired(p)
         /\ row.expires > Clock(p)
         /\ \A d \in Clients : Claimable(d, p) => d = c
<1>1. row.holder = c /\ row.expires >= promise[c] + MaxSkew
  BY DEF IInv, Cover
<1>2. row.expires > Clock(p)
  <2>1. Clock(p) \in Nat /\ Clock(p) <= time + MaxSkew
    BY ClockBounds DEF IInv, TypeOK
  <2>2. row.expires \in Nat /\ promise[c] \in Int /\ MaxSkew \in Nat /\ time \in Nat
    BY SkewAssumption DEF IInv, TypeOK, Rows
  <2> QED
    BY <1>1, <2>1, <2>2
<1>3. ~Expired(p)
  <2>1. Clock(p) \in Nat /\ row.expires \in Nat
    BY ClockBounds DEF IInv, TypeOK, Rows
  <2> QED
    BY <1>2, <2>1 DEF Expired
<1> QED
  BY <1>1, <1>2, <1>3, ClientAssumption DEF Claimable, HasRow

\* The expiry write frees no lease that is promised.
LEMMA ExpireKeepsPromise ==
  ASSUME IInv, NEW p \in Processes, ExpireIfStale(p), UNCHANGED <<time, promise>>
  PROVE  Cover' /\ Fresh'
<1>1. CASE \E c \in Clients : promise[c] > time
  <2>1. PICK c \in Clients : promise[c] > time
    BY <1>1
  <2>2. ~Expired(p)
    BY <2>1, PromiseBlocks
  <2>3. UNCHANGED row
    BY <2>2 DEF ExpireIfStale
  <2> QED
    BY <2>3 DEF IInv, Cover, Fresh
<1>2. CASE \A c \in Clients : ~(promise[c] > time)
  BY <1>2 DEF Cover, Fresh
<1> QED
  BY <1>1, <1>2

\* A store of the lease by its holder or on a free or expired row covers the
\* promises that are live, whether its answer arrives or not.
LEMMA StoreKeepsPromise ==
  ASSUME IInv, NEW c \in Clients, NEW p \in Processes, Claimable(c, p), UNCHANGED time,
         \/ Store(p, c) /\ Promise(c)
         \/ StoreUnknown(p, c) /\ UNCHANGED promise
  PROVE  Cover' /\ Fresh'
<1>1. row' = [holder |-> c, expires |-> Clock(p) + TTL]
  BY DEF Store, StoreUnknown
<1>2. /\ Clock(p) \in Nat /\ Clock(p) >= time
      /\ time \in Nat /\ TTL \in Nat /\ MaxSkew \in Nat
      /\ promise \in [Clients -> Int]
  BY ClockBounds, SkewAssumption, TimeAssumption DEF IInv, TypeOK
<1>3. \/ promise' = [promise EXCEPT ![c] = time + TTL - MaxSkew]
      \/ promise' = promise
  BY DEF Promise
<1>4. ASSUME NEW d \in Clients, promise'[d] > time
      PROVE  d = c /\ promise'[d] <= time + TTL - MaxSkew
  <2>1. CASE d = c /\ promise'[c] = time + TTL - MaxSkew
    BY <2>1, <1>2
  <2>2. CASE promise'[d] = promise[d]
    <3>1. promise[d] > time
      BY <1>4, <2>2
    <3>2. d = c
      BY <3>1, PromiseBlocks
    <3>3. promise[d] <= time + TTL - MaxSkew
      BY <3>1 DEF IInv, Fresh
    <3> QED
      BY <2>2, <3>2, <3>3
  <2> QED
    BY <1>2, <1>3, <2>1, <2>2
<1>5. promise' \in [Clients -> Int]
  BY <1>2, <1>3
<1>6. ASSUME NEW d \in Clients, promise'[d] > time
      PROVE  row'.holder = d /\ row'.expires >= promise'[d] + MaxSkew
  <2>1. d = c /\ promise'[d] <= time + TTL - MaxSkew
    BY <1>4, <1>6
  <2>2. promise'[d] \in Int
    BY <1>5
  <2> QED
    BY <1>1, <1>2, <2>1, <2>2
<1> QED
  BY <1>4, <1>6 DEF Cover, Fresh

\* Every step keeps the inductive invariant.
LEMMA PromiseStep ==
  ASSUME IInv, [Next]_vars
  PROVE  IInv'
<1> USE DEF procVars
<1>0. TypeOK'
  BY TypeStep DEF IInv
<1>1. CASE Tick
  <2>1. \A c \in Clients : promise'[c] > time' => promise[c] > time
    BY <1>1 DEF Tick, IInv, TypeOK
  <2>2. TTL \in Nat /\ MaxSkew \in Nat /\ time \in Nat /\ promise \in [Clients -> Int]
    BY SkewAssumption, TimeAssumption DEF IInv, TypeOK
  <2> QED
    BY <1>0, <1>1, <2>1, <2>2 DEF Tick, IInv, Cover, Fresh
<1>2. ASSUME NEW c \in Clients, NEW p \in Processes, Claim(c, p)
      PROVE  IInv'
  BY <1>0, <1>2, StoreKeepsPromise DEF Claim, IInv
<1>3. ASSUME NEW c \in Clients, NEW p \in Processes, Heartbeat(c, p)
      PROVE  IInv'
  BY <1>0, <1>3, StoreKeepsPromise DEF Heartbeat, Claimable, IInv
<1>4. ASSUME NEW c \in Clients, NEW p \in Processes, Release(c, p)
      PROVE  IInv'
  <2>1. \A d \in Clients : promise'[d] > time' => d # c /\ promise'[d] = promise[d]
    BY <1>4 DEF Release, IInv, TypeOK
  <2>2. (\E d \in Clients : promise'[d] > time') => UNCHANGED row
    BY <1>4, <2>1 DEF Release, IInv, Cover
  <2> QED
    BY <1>0, <1>4, <2>1, <2>2 DEF Release, IInv, Cover, Fresh
<1>5. ASSUME NEW p \in Processes, OpenHub(p)
      PROVE  IInv'
  BY <1>0, <1>5, ExpireKeepsPromise DEF OpenHub, IInv
<1>6. ASSUME NEW p \in Processes, AlarmFires(p) \/ AlarmFails(p)
      PROVE  IInv'
  BY <1>0, <1>6 DEF AlarmFires, AlarmFails, IInv, Cover, Fresh
<1>7. ASSUME NEW p \in Processes, AlarmRuns(p)
      PROVE  IInv'
  BY <1>0, <1>7, ExpireKeepsPromise DEF AlarmRuns, IInv
<1>8. ASSUME NEW p \in Processes, Evict(p) \/ Crash(p)
      PROVE  IInv'
  BY <1>0, <1>8 DEF Evict, Crash, IInv, Cover, Fresh
<1>9. ASSUME NEW p \in Processes, SweepList(p) \/ SweepFails(p)
      PROVE  IInv'
  BY <1>0, <1>9 DEF SweepList, SweepFails, IInv, Cover, Fresh
<1>10. ASSUME NEW p \in Processes, SweepFree(p)
       PROVE  IInv'
  BY <1>0, <1>10, ExpireKeepsPromise DEF SweepFree, IInv
<1>11. CASE UNCHANGED vars
  BY <1>0, <1>11 DEF vars, IInv, Cover, Fresh
<1> QED
  BY <1>1, <1>2, <1>3, <1>4, <1>5, <1>6, <1>7, <1>8, <1>9, <1>10, <1>11
     DEF Next, ClientStep, HubStep, SweepStep

\* Without a lease there is no promise to keep.
LEMMA InitIInv == Init => IInv
  BY InitTyped DEF Init, IInv, Cover, Fresh

\* Every reachable state satisfies the inductive invariant.
LEMMA IInvAlways == Spec => []IInv
<1>1. Init => IInv
  BY InitIInv
<1>2. IInv /\ [Next]_vars => IInv'
  BY PromiseStep
<1> QED
  BY <1>1, <1>2, PTL DEF Spec

\* No two recorders hold an unexpired promise of the lease at once (claimLease and
\* heartbeatLease through any process, clocks at most MaxSkew apart).
THEOREM LeaseExclusive == Spec => []ExclusivePromise
<1>1. IInv => ExclusivePromise
  BY DEF IInv, Cover, ExclusivePromise
<1> QED
  BY <1>1, IInvAlways, PTL

\* A promised lease stays stored for its holder and alive on every process's clock:
\* no alarm, sweep or rival claim frees it early.
THEOREM LeaseKept == Spec => []PromiseKept
<1>1. IInv => PromiseKept
  <2> SUFFICES ASSUME IInv, NEW c \in Clients, promise[c] > time
               PROVE  row.holder = c /\ \A p \in Processes : row.expires > Clock(p)
    BY DEF PromiseKept
  <2>1. row.holder = c
    BY DEF IInv, Cover
  <2>2. \A p \in Processes : row.expires > Clock(p)
    BY PromiseBlocks
  <2> QED
    BY <2>1, <2>2
<1> QED
  BY <1>1, IInvAlways, PTL

-----------------------------------------------------------------------------
\* The expiry write of any hub keeps the watch of the hub that stored the lease.
LEMMA ExpireKeepsWatch ==
  ASSUME TypeOK, NEW p \in Processes, ExpireIfStale(p),
         HasRow /\ writer # None =>
           /\ writer \in hub
           /\ writer = p \/ writer \in firing
                         \/ /\ alarm[writer] # NoAlarm
                            /\ backoff[writer] = 0 => alarm[writer] <= row.expires
  PROVE  HasRow' /\ writer' # None =>
           /\ writer' \in hub
           /\ \/ writer' \in firing
              \/ alarm'[writer'] # NoAlarm /\ alarm'[writer'] <= row'.expires
              \/ /\ writer' # p /\ alarm'[writer'] = alarm[writer']
                 /\ alarm[writer'] # NoAlarm
                 /\ backoff[writer'] = 0 => alarm[writer'] <= row'.expires
<1>1. CASE writer' = None \/ ~HasRow'
  BY <1>1
<1>2. CASE /\ ~Expired(p) /\ HasRow
           /\ alarm' = [alarm EXCEPT ![p] = row.expires]
           /\ UNCHANGED <<row, seen, writer>>
  BY <1>2 DEF TypeOK, Rows, NoAlarm, HasRow
<1> QED
  BY <1>1, <1>2 DEF ExpireIfStale, HasRow, NoRow

\* No claim, heartbeat, release, alarm or sweep leaves the stored expiry unwatched by its writer.
LEMMA WatchStep ==
  ASSUME TypeOK, WriterWatches, [Next]_vars
  PROVE  WriterWatches'
<1> USE DEF procVars
<1>1. CASE Tick
  BY <1>1 DEF Tick, WriterWatches, HasRow
<1>2. ASSUME NEW c \in Clients, NEW p \in Processes, Claim(c, p) \/ Heartbeat(c, p)
      PROVE  WriterWatches'
  <2>1. CASE StoreUnknown(p, c)
    BY <2>1 DEF StoreUnknown, WriterWatches
  <2>2. CASE Store(p, c)
    <3>1. Clock(p) + TTL \in Nat
      BY ClockBounds, TimeAssumption DEF TypeOK
    <3>2. alarm'[p] = Clock(p) + TTL /\ row'.expires = Clock(p) + TTL /\ writer' = p
      BY <2>2 DEF Store, TypeOK
    <3>3. p \in hub'
      BY <1>2 DEF Claim, Heartbeat
    <3> QED
      BY <3>1, <3>2, <3>3 DEF WriterWatches, NoAlarm
  <2> QED
    BY <1>2, <2>1, <2>2 DEF Claim, Heartbeat
<1>3. ASSUME NEW c \in Clients, NEW p \in Processes, Release(c, p)
      PROVE  WriterWatches'
  BY <1>3 DEF Release, WriterWatches, HasRow, NoRow
<1>4. ASSUME NEW p \in Processes, OpenHub(p)
      PROVE  WriterWatches'
  BY <1>4, ExpireKeepsWatch DEF OpenHub, WriterWatches
<1>5. ASSUME NEW p \in Processes, AlarmFires(p)
      PROVE  WriterWatches'
  BY <1>5 DEF AlarmFires, WriterWatches, HasRow, TypeOK
<1>6. ASSUME NEW p \in Processes, AlarmRuns(p)
      PROVE  WriterWatches'
  <2>1. HasRow /\ writer # None =>
          /\ writer \in hub
          /\ writer = p \/ writer \in firing
                        \/ /\ alarm[writer] # NoAlarm
                           /\ backoff[writer] = 0 => alarm[writer] <= row.expires
    BY DEF WriterWatches
  <2>2. ExpireIfStale(p) /\ hub' = hub /\ p \in firing
    BY <1>6 DEF AlarmRuns
  <2>3. \A q \in Processes : q # p => (q \in firing' <=> q \in firing) /\ backoff'[q] = backoff[q]
    BY <1>6 DEF AlarmRuns, TypeOK
  <2>4. CASE UNCHANGED <<row, writer, alarm>> /\ ~HasRow
    BY <2>4 DEF WriterWatches, HasRow
  <2>5. CASE writer' = None
    BY <2>5 DEF WriterWatches
  <2>6. CASE /\ ~Expired(p) /\ HasRow
             /\ alarm' = [alarm EXCEPT ![p] = row.expires]
             /\ UNCHANGED <<row, seen, writer>>
    <3>1. row.expires \in Nat
      BY DEF TypeOK, Rows
    <3>2. CASE writer' = p
      BY <2>1, <2>2, <2>6, <3>1, <3>2 DEF WriterWatches, HasRow, TypeOK, NoAlarm
    <3>3. CASE writer' # p
      BY <2>1, <2>2, <2>3, <2>6, <3>1, <3>3 DEF WriterWatches, HasRow, TypeOK
    <3> QED
      BY <3>2, <3>3
  <2> QED
    BY <2>2, <2>4, <2>5, <2>6 DEF ExpireIfStale
<1>7. ASSUME NEW p \in Processes, AlarmFails(p)
      PROVE  WriterWatches'
  <2>1. NextBackoff(backoff[p]) \in 1 .. TTL
    BY BackoffBounds DEF TypeOK
  <2>2. Clock(p) + NextBackoff(backoff[p]) \in Nat
    BY <2>1, ClockBounds, TimeAssumption DEF TypeOK
  <2>3. CASE writer = p
    BY <1>7, <2>1, <2>2, <2>3 DEF AlarmFails, WriterWatches, HasRow, TypeOK, NoAlarm
  <2>4. CASE writer # p
    BY <1>7, <2>4 DEF AlarmFails, WriterWatches, HasRow, TypeOK
  <2> QED
    BY <2>3, <2>4
<1>8. ASSUME NEW p \in Processes, Evict(p)
      PROVE  WriterWatches'
  BY <1>8 DEF Evict, WriterWatches, HasRow
<1>9. ASSUME NEW p \in Processes, Crash(p)
      PROVE  WriterWatches'
  BY <1>9 DEF Crash, WriterWatches, HasRow, TypeOK
<1>10. ASSUME NEW p \in Processes, SweepList(p) \/ SweepFails(p)
       PROVE  WriterWatches'
  BY <1>10 DEF SweepList, SweepFails, WriterWatches, HasRow
<1>11. ASSUME NEW p \in Processes, SweepFree(p)
       PROVE  WriterWatches'
  BY <1>11, ExpireKeepsWatch DEF SweepFree, WriterWatches
<1>12. CASE UNCHANGED vars
  BY <1>12 DEF vars, WriterWatches, HasRow
<1> QED
  BY <1>1, <1>2, <1>3, <1>4, <1>5, <1>6, <1>7, <1>8, <1>9, <1>10, <1>11, <1>12
     DEF Next, ClientStep, HubStep, SweepStep

\* The hub that stored the current expiry keeps watching it (armed alarm, eviction
\* guard, retry after a failed expiry write) until the lease is freed.
THEOREM LeaseWatched == Spec => []WriterWatches
<1>1. Init => TypeOK /\ WriterWatches
  BY InitTyped DEF Init, WriterWatches
<1>2. TypeOK /\ WriterWatches /\ [Next]_vars => (TypeOK /\ WriterWatches)'
  BY TypeStep, WatchStep
<1> QED
  BY <1>1, <1>2, PTL DEF Spec

-----------------------------------------------------------------------------
\* Every write that changes the holder (claim, release, expiry by an alarm, an opened hub or a
\* sweeper) says so in its frame; a heartbeat, which says nothing, is the holder's own.
LEMMA AnnouncedStep ==
  ASSUME HolderAnnounced, [Next]_vars
  PROVE  HolderAnnounced'
<1> USE DEF HolderAnnounced
<1>1. CASE ClientStep
  <2>1. ASSUME NEW c \in Clients, NEW p \in Processes, Claim(c, p) PROVE seen' = row'.holder
    BY <2>1 DEF Claim, Store, StoreUnknown
  <2>2. ASSUME NEW c \in Clients, NEW p \in Processes, Heartbeat(c, p) PROVE seen' = row'.holder
    BY <2>2 DEF Heartbeat, Store, StoreUnknown
  <2>3. ASSUME NEW c \in Clients, NEW p \in Processes, Release(c, p) PROVE seen' = row'.holder
    BY <2>3 DEF Release, NoRow
  <2> QED
    BY <1>1, <2>1, <2>2, <2>3 DEF ClientStep
<1>2. ASSUME NEW p \in Processes, ExpireIfStale(p)
      PROVE  seen' = row'.holder
  BY <1>2 DEF ExpireIfStale, NoRow
<1>3. ASSUME NEW p \in Processes, OpenHub(p) \/ AlarmRuns(p) \/ SweepFree(p)
      PROVE  seen' = row'.holder
  BY <1>2, <1>3 DEF OpenHub, AlarmRuns, SweepFree
<1>4. ASSUME NEW p \in Processes,
             AlarmFires(p) \/ AlarmFails(p) \/ Evict(p) \/ Crash(p) \/ SweepList(p) \/ SweepFails(p)
      PROVE  seen' = row'.holder
  BY <1>4 DEF AlarmFires, AlarmFails, Evict, Crash, SweepList, SweepFails
<1>5. CASE Tick \/ UNCHANGED vars
  BY <1>5 DEF Tick, vars
<1> QED
  BY <1>1, <1>3, <1>4, <1>5 DEF Next, HubStep, SweepStep

\* A watcher that re-reads on each frame always shows the stored holder (lease.changed).
THEOREM LeaseAnnounced == Spec => []HolderAnnounced
<1>1. Init => HolderAnnounced
  BY DEF Init, HolderAnnounced, NoRow
<1> QED
  BY <1>1, AnnouncedStep, PTL DEF Spec
=============================================================================
