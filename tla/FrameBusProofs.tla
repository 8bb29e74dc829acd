--------------------------- MODULE FrameBusProofs ---------------------------
(***************************************************************************)
(* The frame bus for any number of processes, sockets, writers, commits    *)
(* and losses: no frame goes missing silently, and the bus implements the  *)
(* stream of frames that the web client is written against.                *)
(*                                                                         *)
(* Both rest on what is on the wire: the notifications on their way to a   *)
(* process are exactly the last commits, in order and with the send time   *)
(* of each (WireIsTail), because they are published under the row lock     *)
(* with the revision after the last commit (HeldIsNext) and a commit       *)
(* reaches every connected listener.  What a socket of a listening process *)
(* is not going to receive any more it has received, or its process        *)
(* dropped it for its age (GotOrDropped).                                  *)
(***************************************************************************)
EXTENDS FrameBus, SequenceTheorems, TLAPS

Frames == [rev : Nat, t : Nat]

\* The bus is well typed; listeners are processes that have started.
BusTyped ==
  /\ time \in Nat /\ rev \in 0 .. MaxRev
  /\ active \subseteq Writers
  /\ held \in [Writers -> Seq(Frames)]
  /\ wire \in [Processes -> Seq(Frames)]
  /\ up \in SUBSET Processes
  /\ booted \in [Processes -> Nat \cup {NotBooted}]
  /\ at \in [Sockets -> Processes \cup {NoProcess}]
  /\ got \in [Sockets -> Seq(Nat)]
  /\ since \in [Sockets -> Nat]
  /\ sent \in Seq(Nat) /\ Len(sent) = rev
  /\ missed \subseteq Sockets

\* No frame is sent ahead of every clock: the send time is one process's clock.
InTime(f) == f.t <= time + MaxAge

\* One writer at a time; the frame it holds is numbered after the last commit.
HeldIsNext ==
  /\ \A v, w \in active : v = w
  /\ \A w \in Writers :
       held[w] # <<>> =>
         /\ w \in active /\ Len(held[w]) = 1 /\ rev < MaxRev
         /\ held[w][1].rev = rev + 1 /\ InTime(held[w][1])

\* What is on its way to a listener: the last commits, in commit order.
TailOf(p) ==
  /\ p \notin up => wire[p] = <<>>
  /\ Len(wire[p]) <= rev
  /\ \A i \in 1 .. Len(wire[p]) :
       /\ wire[p][i].rev = rev - Len(wire[p]) + i
       /\ wire[p][i].t = sent[rev - Len(wire[p]) + i]
       /\ InTime(wire[p][i])

WireIsTail == \A p \in Processes : TailOf(p)

\* Sockets are attached to processes that listened once, and missed frames while attached.
Attached ==
  /\ \A p \in up : booted[p] # NotBooted
  /\ \A s \in Sockets : at[s] # NoProcess => booted[at[s]] # NotBooted
  /\ \A s \in Sockets : since[s] <= rev
  /\ \A s \in missed : at[s] # NoProcess

\* What a socket will not receive any more, it has received, or it was dropped for its age.
GotOrDropped ==
  \A s \in Sockets :
    at[s] \in up =>
      \A r \in since[s] + 1 .. rev - Len(wire[at[s]]) :
        \/ \E i \in 1 .. Len(got[s]) : got[s][i] = r
        \/ Dropped(at[s], r)

\* The inductive invariant.
BusInv == BusTyped /\ HeldIsNext /\ WireIsTail /\ Attached /\ GotOrDropped

-----------------------------------------------------------------------------
(* Sequences *)

\* Appending one element (got, sent).
LEMMA AppendIs ==
  ASSUME NEW S, NEW q \in Seq(S), NEW e \in S
  PROVE  /\ Append(q, e) \in Seq(S) /\ Len(Append(q, e)) = Len(q) + 1 /\ Len(q) \in Nat
         /\ Append(q, e)[Len(q) + 1] = e /\ \A i \in 1 .. Len(q) : Append(q, e)[i] = q[i]
OBVIOUS

\* A notification put behind those on their way (COMMIT).
LEMMA ConcatIs ==
  ASSUME NEW S, NEW q \in Seq(S), NEW h \in Seq(S), Len(h) = 1
  PROVE  /\ q \o h \in Seq(S) /\ Len(q \o h) = Len(q) + 1 /\ Len(q) \in Nat
         /\ (q \o h)[Len(q) + 1] = h[1] /\ \A i \in 1 .. Len(q) : (q \o h)[i] = q[i]
<1>1. Len(q) \in Nat
  OBVIOUS
<1> DEFINE c == q \o h
<1>2. /\ c \in Seq(S)
      /\ Len(c) = Len(q) + Len(h)
      /\ \A i \in 1 .. Len(q) + Len(h) : c[i] = IF i <= Len(q) THEN q[i] ELSE h[i - Len(q)]
  BY ConcatProperties, Zenon
<1> HIDE DEF c
<1>3. c[Len(q) + 1] = h[1]
  <2>1. Len(q) + 1 \in 1 .. Len(q) + Len(h) /\ ~(Len(q) + 1 <= Len(q)) /\ Len(q) + 1 - Len(q) = 1
    BY <1>1
  <2> QED BY <1>2, <2>1
<1>4. \A i \in 1 .. Len(q) : c[i] = q[i]
  BY <1>1, <1>2
<1> QED BY <1>1, <1>2, <1>3, <1>4 DEF c

\* The next notification taken off the wire.
LEMMA TailIs ==
  ASSUME NEW S, NEW q \in Seq(S), q # <<>>
  PROVE  /\ Tail(q) \in Seq(S) /\ Len(Tail(q)) = Len(q) - 1 /\ Len(q) \in Nat \ {0}
         /\ Head(q) = q[1] /\ q[1] \in S /\ \A i \in 1 .. Len(q) - 1 : Tail(q)[i] = q[i + 1]
OBVIOUS

\* The clocks of the processes: natural numbers, at most the age limit apart.
LEMMA ClockIs ==
  ASSUME time \in Nat, NEW p \in Processes
  PROVE  Clock(p) \in Nat /\ time <= Clock(p) /\ Clock(p) <= time + MaxAge
         /\ MaxAge \in Nat /\ NotBooted = -1
BY BusAssumption DEF BusAssumption, Clock, NotBooted

-----------------------------------------------------------------------------
(* The invariant *)

\* The invariant holds when no process has started.
LEMMA BusInvInit == BusInit => BusInv
<1> SUFFICES ASSUME BusInit PROVE BusInv
  OBVIOUS
<1>1. BusTyped
  BY BusAssumption DEF BusAssumption, BusInit, BusTyped, NotBooted
<1>2. WireIsTail
  <2>1. \A p \in Processes : wire[p] = <<>> /\ Len(wire[p]) = 0
    BY DEF BusInit
  <2> QED BY <2>1 DEF BusInit, WireIsTail, TailOf
<1>3. HeldIsNext /\ Attached
  BY BusAssumption DEF BusAssumption, BusInit, HeldIsNext, Attached, NotBooted, NoProcess
<1>4. GotOrDropped
  BY DEF BusInit, GotOrDropped
<1> QED BY <1>1, <1>2, <1>3, <1>4 DEF BusInv

\* Where neither commits, wires, listeners nor sockets change, what is known of them stays.
LEMMA QuietKept ==
  ASSUME BusInv, BusTyped', time' >= time,
         UNCHANGED <<rev, wire, up, booted, at, got, since, sent, missed>>
  PROVE  WireIsTail' /\ Attached' /\ GotOrDropped'
<1> USE DEF BusInv
<1>1. WireIsTail'
  <2>1. ASSUME NEW p \in Processes, NEW i \in 1 .. Len(wire[p]) PROVE InTime(wire[p][i])'
    <3>1. wire[p][i] \in Frames
      BY DEF BusTyped
    <3>2. wire[p][i].t <= time + MaxAge
      BY DEF WireIsTail, TailOf, InTime
    <3>3. wire[p][i].t \in Nat /\ MaxAge \in Nat
      BY <3>1, BusAssumption DEF BusAssumption, Frames
    <3> QED BY <3>2, <3>3 DEF InTime, BusTyped
  <2> QED BY <2>1 DEF WireIsTail, TailOf
<1>2. Attached'
  BY DEF Attached
<1>3. ASSUME NEW p \in Processes, NEW r \in 1 .. rev, Dropped(p, r) PROVE Dropped(p, r)'
  <2>1. Clock(p)' >= Clock(p) /\ Clock(p)' \in Nat /\ Clock(p) \in Nat
    BY BusAssumption DEF BusAssumption, BusTyped, Clock
  <2>2. sent[r] \in Nat /\ MaxAge \in Nat
    BY BusAssumption DEF BusAssumption, BusTyped
  <2> QED BY <1>3, <2>1, <2>2 DEF Dropped
<1>4. GotOrDropped'
  <2> SUFFICES ASSUME NEW s \in Sockets, at[s] \in up, NEW r \in since[s] + 1 .. rev - Len(wire[at[s]]),
                      ~\E i \in 1 .. Len(got[s]) : got[s][i] = r
               PROVE  Dropped(at[s], r)'
    BY DEF GotOrDropped
  <2>1. r \in 1 .. rev /\ at[s] \in Processes
    BY DEF BusTyped
  <2>2. Dropped(at[s], r)
    BY DEF GotOrDropped
  <2> QED BY <1>3, <2>1, <2>2
<1> QED BY <1>1, <1>2, <1>4

\* Time passes, or a writer begins, publishes or fails: nothing on the wire changes
\* (transaction, sealFrame and its NOTIFY).
LEMMA WriterKept ==
  ASSUME BusInv,
         Tick \/ \E w \in Writers : Begin(w) \/ Abort(w) \/ \E p \in Processes : Publish(w, p)
  PROVE  BusInv'
<1> USE DEF BusInv
<1>1. CASE Tick
  <2>1. BusTyped'
    BY <1>1 DEF Tick, BusTyped
  <2>2. HeldIsNext'
    <3>1. ASSUME NEW w \in Writers, held[w] # <<>> PROVE InTime(held[w][1])'
      <4>1. held[w][1] \in Frames /\ held[w][1].t <= time + MaxAge
        BY <3>1 DEF HeldIsNext, BusTyped, InTime
      <4> QED BY <1>1, <4>1, BusAssumption DEF BusAssumption, Tick, InTime, BusTyped, Frames
    <3> QED BY <1>1, <3>1 DEF Tick, HeldIsNext
  <2> QED BY <1>1, <2>1, <2>2, QuietKept DEF Tick, BusTyped
<1>2. ASSUME NEW w \in Writers, Begin(w) \/ Abort(w) PROVE BusInv'
  <2>1. held' = [held EXCEPT ![w] = <<>>] /\ active' \in {{w}, active \ {w}}
        /\ UNCHANGED <<time, rev, wire, up, booted, at, got, since, sent, missed>>
    BY <1>2 DEF Begin, Abort
  <2>2. BusTyped'
    <3>1. held' \in [Writers -> Seq(Frames)]
      BY <2>1, EmptySeq DEF BusTyped
    <3> QED BY <2>1, <3>1 DEF BusTyped
  <2>3. ASSUME NEW v \in Writers, held'[v] # <<>> PROVE v # w /\ held'[v] = held[v]
    BY <2>1, <2>3 DEF BusTyped
  <2>4. active' = active \ {w} \/ \A v \in Writers : held'[v] = <<>>
    BY <1>2, <2>3 DEF Begin, Abort, HeldIsNext
  <2>5. HeldIsNext'
    BY <2>1, <2>3, <2>4 DEF HeldIsNext, InTime
  <2> QED BY <2>1, <2>2, <2>5, QuietKept DEF BusTyped
<1>3. ASSUME NEW w \in Writers, NEW p \in Processes, Publish(w, p) PROVE BusInv'
  <2> DEFINE f == [rev |-> rev + 1, t |-> Clock(p)]
  <2>1. /\ held' = [held EXCEPT ![w] = <<f>>] /\ w \in active /\ rev < MaxRev
        /\ UNCHANGED <<time, rev, active, wire, up, booted, at, got, since, sent, missed>>
    BY <1>3 DEF Publish
  <2>2. f \in Frames /\ f.t <= time + MaxAge /\ f.rev = rev + 1
    BY ClockIs DEF Frames, BusTyped
  <2> HIDE DEF f
  <2>3. <<f>> \in Seq(Frames) /\ Len(<<f>>) = 1 /\ <<f>>[1] = f
    BY <2>2
  <2>4. BusTyped'
    <3>1. held' \in [Writers -> Seq(Frames)]
      BY <2>1, <2>3 DEF BusTyped
    <3> QED BY <2>1, <3>1 DEF BusTyped
  <2>5. HeldIsNext'
    <3>1. held'[w] = <<f>> /\ \A v \in Writers : v # w => held'[v] = held[v]
      BY <2>1 DEF BusTyped
    <3> QED BY <2>1, <2>2, <2>3, <3>1 DEF HeldIsNext, InTime
  <2> QED BY <2>1, <2>4, <2>5, QuietKept DEF BusTyped
<1> QED BY <1>1, <1>2, <1>3

\* COMMIT puts one more notification on every connected wire.
LEMMA CommitWires ==
  ASSUME BusInv, NEW w \in Writers, Commit(w), NEW p \in up
  PROVE  /\ p \in Processes /\ wire'[p] \in Seq(Frames) /\ Len(wire'[p]) = Len(wire[p]) + 1 /\ Len(wire[p]) \in Nat
         /\ wire'[p][Len(wire[p]) + 1] = held[w][1] /\ \A i \in 1 .. Len(wire[p]) : wire'[p][i] = wire[p][i]
<1>1. held[w] \in Seq(Frames) /\ Len(held[w]) = 1
  <2>1. held[w] \in Seq(Frames)
    BY DEF BusInv, BusTyped
  <2>2. held[w] # <<>>
    BY Zenon DEF Commit
  <2> QED BY <2>1, <2>2 DEF BusInv, HeldIsNext
<1>2. p \in Processes /\ wire'[p] = wire[p] \o held[w] /\ wire[p] \in Seq(Frames)
  BY DEF BusInv, BusTyped, Commit
<1> DEFINE h == held[w]
           q == wire[p]
<1>3. q \in Seq(Frames) /\ h \in Seq(Frames) /\ Len(h) = 1 /\ p \in Processes /\ wire'[p] = q \o h
  BY <1>1, <1>2
<1> HIDE DEF h, q
<1>4. /\ q \o h \in Seq(Frames) /\ Len(q \o h) = Len(q) + 1 /\ Len(q) \in Nat
      /\ (q \o h)[Len(q) + 1] = h[1] /\ \A i \in 1 .. Len(q) : (q \o h)[i] = q[i]
  BY <1>3, ConcatIs
<1> QED BY <1>3, <1>4 DEF h, q

\* COMMIT: the frame becomes the last one on every connected wire.
LEMMA CommitKept ==
  ASSUME BusInv, NEW w \in Writers, Commit(w)
  PROVE  BusInv'
<1> USE DEF BusInv
<1> DEFINE h == held[w]
<1>1. /\ h # <<>> /\ h \in Seq(Frames) /\ Len(h) = 1 /\ h[1] \in Frames /\ Head(h) = h[1]
      /\ h[1].rev = rev + 1 /\ InTime(h[1]) /\ rev < MaxRev /\ w \in active
  BY DEF Commit, HeldIsNext, BusTyped
<1>2. /\ rev' = rev + 1 /\ sent' = Append(sent, h[1].t) /\ rev \in Nat
      /\ active' = active \ {w} /\ held' = [held EXCEPT ![w] = <<>>]
      /\ wire' = [p \in Processes |-> IF p \in up THEN wire[p] \o h ELSE wire[p]]
      /\ UNCHANGED <<time, up, booted, at, got, since, missed>>
  BY <1>1 DEF Commit, BusTyped
<1>3. h[1].t \in Nat /\ h[1].rev \in Nat
  BY <1>1 DEF Frames
<1> HIDE DEF h
<1>4. /\ sent' \in Seq(Nat) /\ Len(sent') = rev' /\ sent'[rev + 1] = h[1].t
      /\ \A r \in 1 .. rev : sent'[r] = sent[r]
  <2>1. sent \in Seq(Nat) /\ Len(sent) = rev
    BY DEF BusTyped
  <2> DEFINE q == Append(sent, h[1].t)
  <2>2. /\ q \in Seq(Nat) /\ Len(q) = Len(sent) + 1 /\ q[Len(sent) + 1] = h[1].t
        /\ \A i \in 1 .. Len(sent) : q[i] = sent[i]
    BY <2>1, <1>3, AppendIs
  <2>3. sent' = q
    BY <1>2
  <2> HIDE DEF q
  <2> QED BY <2>1, <2>2, <2>3, <1>2
<1>5. ASSUME NEW p \in up
      PROVE  /\ p \in Processes /\ wire'[p] \in Seq(Frames) /\ Len(wire'[p]) = Len(wire[p]) + 1 /\ Len(wire[p]) \in Nat
             /\ wire'[p][Len(wire[p]) + 1] = h[1] /\ \A i \in 1 .. Len(wire[p]) : wire'[p][i] = wire[p][i]
  BY CommitWires DEF h
<1>6. ASSUME NEW p \in Processes, p \notin up
      PROVE  wire'[p] = <<>> /\ wire[p] = <<>> /\ Len(<<>>) = 0
  <2>1. wire'[p] = wire[p] /\ wire[p] = <<>>
    BY <1>2, <1>6 DEF WireIsTail, TailOf
  <2> QED BY <2>1
<1>7. BusTyped'
  <2>1. rev' \in 0 .. MaxRev
    BY <1>1, <1>2, BusAssumption DEF BusAssumption
  <2>2. held' \in [Writers -> Seq(Frames)]
    BY <1>2, EmptySeq DEF BusTyped
  <2>3. wire' \in [Processes -> Seq(Frames)]
    BY <1>2, <1>5, <1>6 DEF BusTyped
  <2> QED BY <1>2, <1>4, <2>1, <2>2, <2>3 DEF BusTyped
<1>8. HeldIsNext'
  <2>1. active' = {} /\ \A v \in Writers : held'[v] = <<>>
    BY <1>1, <1>2 DEF HeldIsNext, BusTyped
  <2> QED BY <2>1 DEF HeldIsNext
<1>9. WireIsTail'
  <2> SUFFICES ASSUME NEW p \in Processes PROVE TailOf(p)'
    BY DEF WireIsTail
  <2>1. CASE p \notin up
    <3>1. wire'[p] = <<>> /\ Len(wire'[p]) = 0
      BY <2>1, <1>6
    <3> QED BY <2>1, <3>1, <1>2 DEF TailOf
  <2>2. CASE p \in up
    <3> DEFINE n == Len(wire[p])
    <3>1. n \in Nat /\ rev \in Nat /\ n <= rev /\ Len(wire'[p]) = n + 1
      BY <2>2, <1>2, <1>5 DEF WireIsTail, TailOf
    <3>2. ASSUME NEW i \in 1 .. n + 1
          PROVE  /\ wire'[p][i].rev = rev - n + i /\ wire'[p][i].t = sent'[rev - n + i]
                 /\ InTime(wire'[p][i])
      <4>1. CASE i = n + 1
        <5>1. wire'[p][n + 1] = h[1]
          BY <2>2, <1>5
        <5>2. rev - n + i = rev + 1
          <6> HIDE DEF n
          <6> QED BY <3>1, <4>1
        <5>3. wire'[p][i].rev = rev + 1 /\ wire'[p][i].t = h[1].t /\ InTime(wire'[p][i])
          BY <4>1, <5>1, <1>1
        <5>4. sent'[rev - n + i] = h[1].t
          BY <5>2, <1>4, Zenon
        <5> QED BY <5>2, <5>3, <5>4, Zenon
      <4>2. CASE i \in 1 .. n
        <5>1. wire'[p][i] = wire[p][i]
          BY <2>2, <4>2, <1>5
        <5>2. wire[p][i].rev = rev - n + i /\ wire[p][i].t = sent[rev - n + i] /\ InTime(wire[p][i])
          BY <4>2 DEF WireIsTail, TailOf
        <5>3. rev - n + i \in 1 .. rev
          BY <3>1, <4>2, <1>2
        <5> QED BY <5>1, <5>2, <5>3, <1>4
      <4> QED BY <3>1, <4>1, <4>2
    <3>3. rev' - (n + 1) = rev - n /\ n + 1 <= rev'
      BY <3>1, <1>2
    <3>4. \A i \in 1 .. n + 1 : InTime(wire'[p][i]) <=> InTime(wire[p][i])'
      BY <1>2 DEF InTime
    <3>5. Len(wire'[p]) <= rev'
      BY <3>1, <3>3
    <3>6. ASSUME NEW i \in 1 .. Len(wire'[p])
          PROVE  /\ wire'[p][i].rev = rev' - Len(wire'[p]) + i
                 /\ wire'[p][i].t = sent'[rev' - Len(wire'[p]) + i]
                 /\ InTime(wire[p][i])'
      <4>1. i \in 1 .. n + 1 /\ rev' - Len(wire'[p]) + i = rev - n + i
        BY <3>1, <3>3
      <4> QED BY <4>1, <3>2, <3>4
    <3> QED BY <2>2, <3>5, <3>6, <1>2 DEF TailOf
  <2> QED BY <2>1, <2>2
<1>10. Attached'
  <2>1. \A s \in Sockets : since[s] <= rev + 1
    BY <1>2 DEF Attached, BusTyped
  <2> QED BY <1>2, <2>1 DEF Attached
<1>11. GotOrDropped'
  <2> SUFFICES ASSUME NEW s \in Sockets, at[s] \in up, NEW r \in since[s] + 1 .. rev' - Len(wire'[at[s]]),
                      ~\E i \in 1 .. Len(got[s]) : got[s][i] = r
               PROVE  Dropped(at[s], r)'
    BY <1>2 DEF GotOrDropped
  <2>1. r \in since[s] + 1 .. rev - Len(wire[at[s]]) /\ r \in 1 .. rev
    <3> DEFINE n == Len(wire[at[s]])
               m == Len(wire'[at[s]])
    <3>1. m = n + 1 /\ n \in Nat
      BY <1>5
    <3>2. since[s] \in Nat /\ r \in since[s] + 1 .. rev' - m
      BY DEF BusTyped
    <3> HIDE DEF n, m
    <3>3. r \in since[s] + 1 .. rev - n /\ r \in 1 .. rev
      BY <3>1, <3>2, <1>2
    <3> QED BY <3>3 DEF n
  <2>2. Dropped(at[s], r)
    BY <2>1 DEF GotOrDropped
  <2>3. sent'[r] = sent[r]
    BY <2>1, <1>4
  <2> QED BY <2>2, <2>3, <1>2 DEF Dropped, Clock
<1> QED BY <1>7, <1>8, <1>9, <1>10, <1>11

\* Listeners come and go, sockets close: what the remaining sockets of the remaining
\* listeners are due stays what it was.
LEMMA SocketsKept ==
  ASSUME BusInv, UNCHANGED <<time, rev, active, held, got, since, sent>>,
         \A p \in Processes : (p \notin up' => wire'[p] = <<>>) /\ wire'[p] \in {wire[p], <<>>},
         \A s \in Sockets :
           at'[s] \in up' => /\ at'[s] = at[s] /\ at[s] \in up
                            /\ booted'[at[s]] = booted[at[s]] /\ wire'[at[s]] = wire[at[s]]
  PROVE  HeldIsNext' /\ WireIsTail' /\ GotOrDropped'
<1> USE DEF BusInv
<1>1. HeldIsNext'
  BY DEF HeldIsNext, InTime
<1>2. WireIsTail'
  <2> SUFFICES ASSUME NEW p \in Processes PROVE TailOf(p)'
    BY DEF WireIsTail
  <2>1. CASE wire'[p] = <<>>
    <3>1. Len(wire'[p]) = 0 /\ rev \in Nat
      BY <2>1 DEF BusTyped
    <3> QED BY <2>1, <3>1 DEF TailOf
  <2>2. CASE wire'[p] = wire[p] /\ wire[p] # <<>>
    BY <2>2 DEF WireIsTail, TailOf, InTime
  <2> QED BY <2>1, <2>2
<1>3. GotOrDropped'
  <2> SUFFICES ASSUME NEW s \in Sockets, NEW p \in up', at'[s] = p,
                      NEW r \in since[s] + 1 .. rev - Len(wire'[p]),
                      ~\E i \in 1 .. Len(got[s]) : got[s][i] = r
               PROVE  Dropped(p, r)'
    BY DEF GotOrDropped, Dropped, Clock
  <2>1. p = at[s] /\ at[s] \in up /\ wire'[p] = wire[p] /\ booted'[p] = booted[p]
    OBVIOUS
  <2>2. Dropped(p, r)
    BY <2>1 DEF GotOrDropped
  <2> QED BY <2>1, <2>2 DEF Dropped, Clock
<1> QED BY <1>1, <1>2, <1>3

\* LISTEN succeeds for the first time or after a loss, when it closes the sockets.
LEMMA ListenKept ==
  ASSUME BusInv, NEW p \in Processes, Listen(p)
  PROVE  BusInv'
<1> USE DEF BusInv
<1>1. /\ p \notin up /\ up' = up \cup {p} /\ missed' = missed \ {s \in Sockets : at'[s] = NoProcess}
      /\ UNCHANGED <<time, rev, active, held, wire, got, since, sent>>
  BY DEF Listen
<1>2. NoProcess \notin Processes
  BY BusAssumption DEF BusAssumption
<1>3. CASE booted[p] = NotBooted
  <2>1. booted' = [booted EXCEPT ![p] = Clock(p)] /\ at' = at
    BY <1>3 DEF Listen
  <2>2. Clock(p) \in Nat /\ Clock(p) # NotBooted
    BY ClockIs DEF BusTyped
  <2>3. \A s \in Sockets : at[s] # p
    BY <1>2, <1>3 DEF Attached
  <2>4. BusTyped'
    BY <1>1, <2>1, <2>2 DEF BusTyped
  <2>5. Attached'
    BY <1>1, <2>1, <2>2, <2>3 DEF Attached, BusTyped
  <2>6. \A q \in Processes : (q \notin up' => wire'[q] = <<>>) /\ wire'[q] \in {wire[q], <<>>}
    BY <1>1 DEF WireIsTail, TailOf
  <2>7. \A s \in Sockets :
          at'[s] \in up' => /\ at'[s] = at[s] /\ at[s] \in up
                           /\ booted'[at[s]] = booted[at[s]] /\ wire'[at[s]] = wire[at[s]]
    BY <1>1, <2>1, <2>3 DEF BusTyped
  <2> QED BY <1>1, <2>4, <2>5, <2>6, <2>7, SocketsKept
<1>4. CASE booted[p] # NotBooted
  <2>1. at' = [s \in Sockets |-> IF at[s] = p THEN NoProcess ELSE at[s]] /\ booted' = booted
    BY <1>4 DEF Listen
  <2>2. BusTyped'
    BY <1>1, <2>1 DEF BusTyped
  <2>3. Attached'
    BY <1>1, <1>4, <2>1 DEF Attached, BusTyped
  <2>4. \A q \in Processes : (q \notin up' => wire'[q] = <<>>) /\ wire'[q] \in {wire[q], <<>>}
    BY <1>1 DEF WireIsTail, TailOf
  <2>5. \A s \in Sockets :
          at'[s] \in up' => /\ at'[s] = at[s] /\ at[s] \in up
                           /\ booted'[at[s]] = booted[at[s]] /\ wire'[at[s]] = wire[at[s]]
    BY <1>1, <1>2, <2>1 DEF BusTyped
  <2> QED BY <1>1, <2>2, <2>3, <2>4, <2>5, SocketsKept
<1> QED BY <1>3, <1>4

\* The listener's connection is lost, or the process dies: what was on its way is gone.
LEMMA LossKept ==
  ASSUME BusInv, NEW p \in Processes, ListenerLost(p) \/ ProcessDies(p)
  PROVE  BusInv'
<1> USE DEF BusInv
<1>1. /\ up' = up \ {p} /\ wire' = [wire EXCEPT ![p] = <<>>]
      /\ UNCHANGED <<time, rev, active, held, got, since, sent>>
  BY DEF ListenerLost, ProcessDies
<1>2. NoProcess \notin Processes
  BY BusAssumption DEF BusAssumption
<1>3. /\ \A q \in Processes : q # p => booted'[q] = booted[q]
      /\ \A s \in Sockets : at'[s] = at[s] \/ at'[s] = NoProcess
      /\ booted' \in [Processes -> Nat \cup {NotBooted}] /\ at' \in [Sockets -> Processes \cup {NoProcess}]
      /\ missed' \subseteq Sockets
  BY DEF ListenerLost, ProcessDies, BusTyped
<1>4. wire' \in [Processes -> Seq(Frames)] /\ wire'[p] = <<>> /\ \A q \in Processes : q # p => wire'[q] = wire[q]
  BY <1>1, EmptySeq DEF BusTyped
<1>5. BusTyped'
  BY <1>1, <1>3, <1>4 DEF BusTyped
<1>6. Attached'
  <2>1. CASE ListenerLost(p)
    BY <2>1 DEF ListenerLost, Attached
  <2>2. CASE ProcessDies(p)
    BY <2>2, <1>3 DEF ProcessDies, Attached, BusTyped, SocketsOf
  <2> QED BY <2>1, <2>2
<1>7. \A q \in Processes : (q \notin up' => wire'[q] = <<>>) /\ wire'[q] \in {wire[q], <<>>}
  BY <1>1, <1>4 DEF WireIsTail, TailOf
<1>8. \A s \in Sockets :
        at'[s] \in up' => /\ at'[s] = at[s] /\ at[s] \in up
                         /\ booted'[at[s]] = booted[at[s]] /\ wire'[at[s]] = wire[at[s]]
  BY <1>1, <1>2, <1>3, <1>4 DEF BusTyped
<1> QED BY <1>1, <1>5, <1>6, <1>7, <1>8, SocketsKept

\* A socket attaches: it is due the frames committed from now on.
LEMMA AttachKept ==
  ASSUME BusInv, NEW s \in Sockets, NEW p \in Processes, Attach(s, p)
  PROVE  BusInv'
<1> USE DEF BusInv
<1>1. /\ at[s] = NoProcess /\ booted[p] # NotBooted /\ at' = [at EXCEPT ![s] = p]
      /\ got' = [got EXCEPT ![s] = <<>>] /\ since' = [since EXCEPT ![s] = rev]
      /\ UNCHANGED <<time, rev, active, held, wire, up, booted, sent, missed>>
  BY DEF Attach
<1>2. BusTyped'
  <2>1. got' \in [Sockets -> Seq(Nat)]
    BY <1>1, EmptySeq DEF BusTyped
  <2> QED BY <1>1, <2>1 DEF BusTyped
<1>3. HeldIsNext' /\ WireIsTail'
  BY <1>1 DEF HeldIsNext, WireIsTail, TailOf, InTime
<1>4. Attached'
  BY <1>1 DEF Attached, BusTyped
<1>5. GotOrDropped'
  <2> SUFFICES ASSUME NEW u \in Sockets, NEW q \in up, at'[u] = q,
                      NEW r \in since'[u] + 1 .. rev - Len(wire[q]),
                      ~\E i \in 1 .. Len(got'[u]) : got'[u][i] = r
               PROVE  Dropped(q, r)'
    BY <1>1 DEF GotOrDropped, Dropped, Clock
  <2>1. u # s
    <3>1. wire[q] \in Seq(Frames) /\ rev \in Nat
      BY DEF BusTyped
    <3>2. Len(wire[q]) \in Nat
      BY <3>1
    <3>3. since'[u] # rev
      BY <3>1, <3>2
    <3> QED BY <3>3, <1>1 DEF BusTyped
  <2>2. q = at[u] /\ got'[u] = got[u] /\ since'[u] = since[u]
    BY <1>1, <2>1 DEF BusTyped
  <2>3. Dropped(q, r)
    BY <2>2 DEF GotOrDropped
  <2> QED BY <1>1, <2>3 DEF Dropped, Clock
<1> QED BY <1>2, <1>3, <1>4, <1>5

\* A socket closes.
LEMMA DetachKept ==
  ASSUME BusInv, NEW s \in Sockets, Detach(s)
  PROVE  BusInv'
<1> USE DEF BusInv
<1>1. /\ at' = [at EXCEPT ![s] = NoProcess] /\ missed' = missed \ {s}
      /\ UNCHANGED <<time, rev, active, held, wire, up, booted, got, since, sent>>
  BY DEF Detach
<1>2. BusTyped'
  BY <1>1 DEF BusTyped
<1>3. Attached'
  BY <1>1 DEF Attached, BusTyped
<1>4. \A q \in Processes : (q \notin up' => wire'[q] = <<>>) /\ wire'[q] \in {wire[q], <<>>}
  BY <1>1 DEF WireIsTail, TailOf
<1>5. \A u \in Sockets :
        at'[u] \in up' => /\ at'[u] = at[u] /\ at[u] \in up
                         /\ booted'[at[u]] = booted[at[u]] /\ wire'[at[u]] = wire[at[u]]
  BY <1>1, BusAssumption DEF BusAssumption, BusTyped
<1> QED BY <1>1, <1>2, <1>3, <1>4, <1>5, SocketsKept

\* The listener hands over the next notification: it leaves the wire and is received by
\* every socket there, or it is dropped for its age.
LEMMA ReceiveKept ==
  ASSUME BusInv, NEW p \in Processes, Receive(p)
  PROVE  BusInv'
<1> USE DEF BusInv
<1> DEFINE n == Len(wire[p])
           f == wire[p][1]
<1>1. /\ wire[p] # <<>> /\ Head(wire[p]) = f /\ f \in Frames /\ n \in Nat \ {0} /\ p \in up
      /\ wire' = [wire EXCEPT ![p] = Tail(wire[p])] /\ Tail(wire[p]) \in Seq(Frames)
      /\ Len(Tail(wire[p])) = n - 1 /\ \A i \in 1 .. n - 1 : Tail(wire[p])[i] = wire[p][i + 1]
  <2>1. wire[p] # <<>> /\ wire' = [wire EXCEPT ![p] = Tail(wire[p])] /\ wire[p] \in Seq(Frames)
    BY DEF Receive, BusTyped
  <2>2. p \in up
    BY <2>1 DEF WireIsTail, TailOf
  <2> QED BY <2>1, <2>2, TailIs
<1>2. UNCHANGED <<time, rev, active, held, up, booted, at, since, sent>>
  BY DEF Receive
<1>3. f.rev = rev - n + 1 /\ f.t = sent[rev - n + 1] /\ InTime(f) /\ n <= rev /\ rev \in Nat
  <2>1. 1 \in 1 .. n
    BY <1>1
  <2>2. rev \in Nat
    BY DEF BusTyped
  <2>3. TailOf(p)
    BY DEF WireIsTail
  <2> QED BY <2>1, <2>2, <2>3 DEF TailOf
<1>4. f.rev \in Nat /\ f.t \in Nat
  BY <1>1 DEF Frames
<1>5. \/ /\ Admits(p, f.t) /\ missed' = missed
         /\ got' = [s \in Sockets |-> IF at[s] = p THEN Append(got[s], f.rev) ELSE got[s]]
      \/ /\ ~Admits(p, f.t) /\ missed' = missed \cup SocketsOf(p) /\ got' = got
  BY <1>1 DEF Receive
<1>6. wire'[p] = Tail(wire[p]) /\ \A q \in Processes : q # p => wire'[q] = wire[q]
  BY <1>1 DEF BusTyped
<1> HIDE DEF f
<1>7. \A s \in Sockets : got'[s] \in Seq(Nat) /\ \A r : (\E i \in 1 .. Len(got[s]) : got[s][i] = r)
                                                  => \E i \in 1 .. Len(got'[s]) : got'[s][i] = r
  <2> TAKE s \in Sockets
  <2>1. got[s] \in Seq(Nat)
    BY DEF BusTyped
  <2>2. CASE got'[s] = got[s]
    BY <2>1, <2>2
  <2>3. CASE got'[s] = Append(got[s], f.rev)
    <3>1. /\ got'[s] \in Seq(Nat) /\ Len(got'[s]) = Len(got[s]) + 1 /\ Len(got[s]) \in Nat
          /\ \A i \in 1 .. Len(got[s]) : got'[s][i] = got[s][i]
      BY <2>1, <2>3, <1>4, AppendIs
    <3>2. ASSUME NEW i \in 1 .. Len(got[s]) PROVE i \in 1 .. Len(got'[s]) /\ got'[s][i] = got[s][i]
      BY <3>1
    <3> QED BY <3>1, <3>2, Zenon
  <2> QED BY <1>5, <2>2, <2>3
<1>8. BusTyped'
  <2>1. got' \in [Sockets -> Seq(Nat)]
    <3>1. DOMAIN got' = Sockets /\ got' = [s \in Sockets |-> got'[s]]
      BY <1>5 DEF BusTyped
    <3> QED BY <3>1, <1>7
  <2>2. wire' \in [Processes -> Seq(Frames)]
    BY <1>1 DEF BusTyped
  <2>3. missed' \subseteq Sockets
    BY <1>5 DEF BusTyped, SocketsOf
  <2> QED BY <1>2, <2>1, <2>2, <2>3 DEF BusTyped
<1>9. HeldIsNext'
  BY <1>2 DEF HeldIsNext, InTime
<1>10. WireIsTail'
  <2> SUFFICES ASSUME NEW q \in Processes PROVE TailOf(q)'
    BY DEF WireIsTail
  <2>1. CASE q # p
    BY <2>1, <1>2, <1>6 DEF WireIsTail, TailOf, InTime
  <2>2. CASE q = p
    <3>1. Len(wire'[p]) = n - 1
      BY <1>1, <1>6
    <3>3. n - 1 <= rev /\ rev' = rev
      <4> HIDE DEF n
      <4> QED BY <1>1, <1>2, <1>3
    <3>2. ASSUME NEW i \in 1 .. Len(wire'[p])
          PROVE  /\ wire'[p][i].rev = rev' - Len(wire'[p]) + i
                 /\ wire'[p][i].t = sent'[rev' - Len(wire'[p]) + i]
                 /\ InTime(wire[p][i])'
      <4> DEFINE j == i + 1
      <4>1. i \in 1 .. n - 1 /\ j \in 1 .. n /\ rev' - Len(wire'[p]) + i = rev - n + j
        <5>1. i \in 1 .. n - 1 /\ n \in Nat \ {0} /\ rev \in Nat
          BY <3>1, <1>1, <1>3
        <5>2. rev' - Len(wire'[p]) = rev - (n - 1)
          BY <3>1, <3>3
        <5> HIDE DEF n
        <5>3. rev - (n - 1) + i = rev - n + (i + 1) /\ i + 1 \in 1 .. n
          BY <5>1
        <5> QED BY <5>1, <5>2, <5>3
      <4>2. wire'[p][i] = wire[p][j]
        BY <4>1, <1>1, <1>6
      <4>3. wire[p][j].rev = rev - n + j /\ wire[p][j].t = sent[rev - n + j] /\ InTime(wire[p][j])
        BY <4>1 DEF WireIsTail, TailOf
      <4> HIDE DEF j, n
      <4>4. InTime(wire[p][i])'
        BY <4>2, <4>3, <1>2 DEF InTime
      <4> QED BY <4>1, <4>2, <4>3, <4>4, <1>2
    <3> QED BY <2>2, <3>1, <3>2, <3>3, <1>1, <1>2 DEF TailOf
  <2> QED BY <2>1, <2>2
<1>11. Attached'
  <2>1. \A s \in missed' : at[s] # NoProcess
    BY <1>5, BusAssumption DEF BusAssumption, Attached, SocketsOf
  <2> QED BY <1>2, <2>1 DEF Attached
<1>12. GotOrDropped'
  <2> SUFFICES ASSUME NEW s \in Sockets, NEW q \in up, at[s] = q,
                      NEW r \in since[s] + 1 .. rev - Len(wire'[q]),
                      ~\E i \in 1 .. Len(got'[s]) : got'[s][i] = r
               PROVE  Dropped(q, r)
    BY <1>2 DEF GotOrDropped, Dropped, Clock
  <2>1. ~\E i \in 1 .. Len(got[s]) : got[s][i] = r
    BY <1>7
  <2>2. CASE r \in since[s] + 1 .. rev - Len(wire[q])
    BY <2>1, <2>2 DEF GotOrDropped
  <2>3. CASE r \notin since[s] + 1 .. rev - Len(wire[q])
    <3>1. q = p
      BY <2>3, <1>6 DEF BusTyped
    <3>2. r = rev - n + 1
      <4>1. Len(wire'[p]) = n - 1 /\ since[s] \in Nat
        BY <1>1, <1>6 DEF BusTyped
      <4>2. r \in since[s] + 1 .. rev - (n - 1) /\ r \notin since[s] + 1 .. rev - n
        BY <4>1, <3>1, <2>3
      <4> HIDE DEF n
      <4> QED BY <4>1, <4>2, <1>1, <1>3
    <3>3. got'[s] # Append(got[s], f.rev)
      <4>1. got[s] \in Seq(Nat)
        BY DEF BusTyped
      <4>2. /\ Len(Append(got[s], f.rev)) = Len(got[s]) + 1 /\ Len(got[s]) \in Nat
            /\ Append(got[s], f.rev)[Len(got[s]) + 1] = f.rev
        BY <4>1, <1>4, AppendIs
      <4>3. SUFFICES ASSUME got'[s] = Append(got[s], f.rev) PROVE FALSE
        OBVIOUS
      <4>4. Len(got[s]) + 1 \in 1 .. Len(got'[s]) /\ got'[s][Len(got[s]) + 1] = r
        <5>1. Len(got[s]) + 1 \in 1 .. Len(got[s]) + 1 /\ f.rev = r
          BY <4>2, <3>2, <1>3
        <5> QED BY <5>1, <4>2, <4>3
      <4> QED BY <4>4
    <3>4. ~Admits(p, f.t)
      BY <1>5, <3>1, <3>3
    <3>5. /\ f.t <= time + MaxAge /\ Clock(p) \in Nat /\ time <= Clock(p) /\ MaxAge \in Nat /\ time \in Nat
          /\ booted[p] \in Nat
      BY <1>1, <1>3, ClockIs DEF InTime, BusTyped, Attached
    <3>6. f.t < booted[p] \/ f.t + MaxAge < Clock(p)
      BY <3>4, <3>5, <1>4 DEF Admits
    <3> QED BY <3>1, <3>2, <3>6, <1>3 DEF Dropped
  <2> QED BY <2>2, <2>3
<1> QED BY <1>8, <1>9, <1>10, <1>11, <1>12

\* Every step keeps the invariant.
LEMMA BusInvKept == BusInv /\ [BusNext]_busVars => BusInv'
<1> SUFFICES ASSUME BusInv, [BusNext]_busVars PROVE BusInv'
  OBVIOUS
<1>1. CASE UNCHANGED busVars
  <2>1. BusTyped' /\ HeldIsNext'
    BY <1>1 DEF busVars, BusInv, BusTyped, HeldIsNext, InTime
  <2> QED BY <1>1, <2>1, QuietKept DEF busVars, BusInv, BusTyped
<1>2. CASE BusNext
  BY <1>2, WriterKept, CommitKept, ListenKept, LossKept, ReceiveKept, AttachKept, DetachKept DEF BusNext
<1> QED BY <1>1, <1>2

\* The revision, the wires and what every socket received agree in every reachable state.
THEOREM BusInvariant == BusSpec => []BusInv
<1> QED BY BusInvInit, BusInvKept, PTL DEF BusSpec

-----------------------------------------------------------------------------
(* No silent gap *)

\* What a socket has not received is on the wire of its process, with its number, or was
\* dropped there for its age.
LEMMA InvNoSilentGap == BusInv => NoSilentGap
<1> SUFFICES ASSUME BusInv, NEW s \in Sockets, at[s] \in up, NEW r \in since[s] + 1 .. rev
             PROVE  \/ \E i \in 1 .. Len(got[s]) : got[s][i] = r
                    \/ \E i \in 1 .. Len(wire[at[s]]) : wire[at[s]][i].rev = r
                    \/ Dropped(at[s], r)
  BY DEF NoSilentGap
<1> DEFINE n == Len(wire[at[s]])
<1>1. at[s] \in Processes /\ wire[at[s]] \in Seq(Frames) /\ since[s] \in Nat /\ rev \in Nat
  BY DEF BusInv, BusTyped
<1>2. n \in Nat /\ n <= rev /\ \A i \in 1 .. n : wire[at[s]][i].rev = rev - n + i
  <2>1. TailOf(at[s])
    BY <1>1 DEF BusInv, WireIsTail
  <2>2. n \in Nat
    BY <1>1
  <2> QED BY <2>1, <2>2, Zenon DEF TailOf
<1>3. CASE r \in since[s] + 1 .. rev - n
  BY <1>3 DEF BusInv, GotOrDropped
<1>4. CASE r \notin since[s] + 1 .. rev - n
  <2> DEFINE i == r - (rev - n)
  <2>1. i \in 1 .. n /\ rev - n + i = r
    <3> HIDE DEF n
    <3> QED BY <1>1, <1>2, <1>4
  <2>2. wire[at[s]][i].rev = r
    BY <1>2, <2>1
  <2> QED BY <2>1, <2>2
<1> QED BY <1>3, <1>4

\* No frame goes missing silently, whatever transactions retry or fail, listeners are lost,
\* processes die and sockets move: attach, the bus callback and the close on re-listen.
THEOREM BusNoSilentGap == BusSpec => []NoSilentGap
<1> QED BY BusInvariant, InvNoSilentGap, PTL

-----------------------------------------------------------------------------
(* The stream of each socket *)

\* The next frame a process is due is the one after those neither on its wire nor committed
\* later: the revision less the notifications on their way.
NextIsFirst ==
  \A p \in Processes :
    /\ NextDue(p) = rev - Len(wire[p]) + 1
    /\ NextDue(p) \in 1 .. rev + 1 /\ Len(wire[p]) \in Nat /\ rev \in Nat

\* The wire of a process starts with the frame it is due.
LEMMA NextIs == BusInv => NextIsFirst
<1> SUFFICES ASSUME BusInv, NEW p \in Processes
             PROVE  /\ NextDue(p) = rev - Len(wire[p]) + 1
                    /\ NextDue(p) \in 1 .. rev + 1 /\ Len(wire[p]) \in Nat /\ rev \in Nat
  BY DEF NextIsFirst
<1>1. wire[p] \in Seq(Frames) /\ rev \in Nat /\ TailOf(p)
  BY DEF BusInv, BusTyped, WireIsTail
<1>2. CASE wire[p] = <<>>
  <2>1. Len(wire[p]) = 0
    BY <1>2
  <2> QED BY <1>1, <1>2, <2>1 DEF NextDue
<1>3. CASE wire[p] # <<>>
  <2> DEFINE n == Len(wire[p])
  <2>1. n \in Nat \ {0} /\ Head(wire[p]) = wire[p][1] /\ 1 \in 1 .. n
    BY <1>1, <1>3, TailIs
  <2>2. n <= rev /\ wire[p][1].rev = rev - n + 1
    BY <1>1, <2>1 DEF TailOf
  <2>3. NextDue(p) = rev - n + 1
    BY <1>3, <2>1, <2>2 DEF NextDue
  <2> HIDE DEF n
  <2>4. rev - n + 1 \in 1 .. rev + 1
    BY <1>1, <2>1, <2>2
  <2> QED BY <1>1, <2>1, <2>3, <2>4 DEF n
<1> QED BY <1>2, <1>3

\* No socket is attached, and none is due anything, before a process has started.
LEMMA StreamStarts == BusInit => Stream!StreamInit
BY DEF BusInit, Stream!StreamInit

\* Where the revision, the wires, listeners and sockets stay, so do the streams.
LEMMA StreamQuiet ==
  ASSUME UNCHANGED <<rev, wire, up, at, missed>>
  PROVE  UNCHANGED Stream!stream
BY DEF Stream!stream, NextDue

\* COMMIT is the commit of the stream: every connected wire gets the frame, so what each
\* socket is due next stays the same.
LEMMA StreamCommits ==
  ASSUME BusInv, BusInv', NEW w \in Writers, Commit(w)
  PROVE  Stream!Commit
<1>1. rev < MaxRev /\ rev' = rev + 1 /\ rev \in Nat /\ UNCHANGED <<up, at, missed>>
  BY DEF Commit, BusInv, HeldIsNext, BusTyped
<1>2. ASSUME NEW p \in up PROVE NextDue(p)' = NextDue(p)
  <2>1. p \in Processes /\ Len(wire'[p]) = Len(wire[p]) + 1
    BY CommitWires DEF BusInv, BusTyped
  <2>2. NextDue(p) = rev - Len(wire[p]) + 1 /\ Len(wire[p]) \in Nat
    BY <2>1, NextIs DEF NextIsFirst
  <2>3. NextIsFirst'
    BY NextIs, PTL
  <2>4. NextDue(p)' = rev' - Len(wire'[p]) + 1
    BY <2>1, <2>3 DEF NextIsFirst
  <2> QED BY <1>1, <2>1, <2>2, <2>4
<1> QED BY <1>1, <1>2 DEF Stream!Commit

\* Sockets S close in every way a process closes them: they leave the stream, the others
\* keep their place in it.
LEMMA StreamCloses ==
  ASSUME BusInv, NEW S \in SUBSET Sockets, \A s \in S : at[s] # NoProcess,
         rev' = rev, missed' = missed \ S,
         at' = [s \in Sockets |-> IF s \in S THEN NoProcess ELSE at[s]],
         \A s \in Sockets \ S : at[s] # NoProcess =>
           (at[s] \in up' <=> at[s] \in up) /\ wire'[at[s]] = wire[at[s]],
         up \cup up' \subseteq Processes
  PROVE  Stream!Close(S)
<1>1. NoProcess \notin up /\ NoProcess \notin up'
  BY BusAssumption DEF BusAssumption
<1>2. {s \in Sockets : at'[s] # NoProcess} = {s \in Sockets : at[s] # NoProcess} \ S
  OBVIOUS
<1>3. {s \in Sockets : at'[s] # NoProcess /\ at'[s] \notin up'}
        = {s \in Sockets : at[s] # NoProcess /\ at[s] \notin up} \ S
  OBVIOUS
<1>4. ASSUME NEW s \in Sockets
      PROVE  (IF at[s] \in up THEN NextDue(at[s]) ELSE 0)'
               = IF s \in S THEN 0 ELSE IF at[s] \in up THEN NextDue(at[s]) ELSE 0
  <2>1. CASE s \in S
    BY <1>1, <2>1
  <2>2. CASE s \notin S /\ at[s] = NoProcess
    BY <1>1, <2>2
  <2>3. CASE s \notin S /\ at[s] # NoProcess
    <3>1. at'[s] = at[s] /\ wire'[at[s]] = wire[at[s]] /\ (at[s] \in up' <=> at[s] \in up)
      BY <2>3
    <3> QED BY <2>3, <3>1 DEF NextDue
  <2> QED BY <2>1, <2>2, <2>3
<1> QED BY <1>1, <1>2, <1>3, <1>4 DEF Stream!Close, Stream!Undue, NextDue

\* A step of a listener is a step of the stream of its sockets: they are closed on re-listen
\* and on death, broken by a loss.
LEMMA StreamOfListener ==
  ASSUME BusInv, NEW p \in Processes, Listen(p) \/ ListenerLost(p) \/ ProcessDies(p)
  PROVE  [Stream!StreamNext]_Stream!stream
<1> USE DEF BusInv
<1>1. up \subseteq Processes /\ NoProcess \notin Processes
  BY BusAssumption DEF BusAssumption, BusTyped
<1> PICK S \in SUBSET Sockets : S = SocketsOf(p)
  BY DEF SocketsOf
<1>8. \A u \in S : at[u] = p /\ at[u] # NoProcess
  BY <1>1 DEF SocketsOf
<1>9. \A u \in Sockets \ S : at[u] # p /\ (at[u] # NoProcess => at[u] \in Processes)
  BY DEF SocketsOf, BusTyped
<1>2. CASE Listen(p) /\ booted[p] = NotBooted
  <2>1. p \notin up /\ up' = up \cup {p} /\ at' = at /\ UNCHANGED <<rev, wire>>
    BY <1>2 DEF Listen
  <2>2. missed' = missed
    BY <1>2 DEF Listen, Attached
  <2>3. \A u \in Sockets : at[u] # p
    BY <1>1, <1>2 DEF Attached
  <2>4. \A u \in Sockets : at'[u] \in up' <=> at[u] \in up
    BY <2>1, <2>3
  <2>5. UNCHANGED Stream!stream
    BY <2>1, <2>2, <2>4 DEF Stream!stream, NextDue
  <2> QED BY <2>5
<1>3. CASE Listen(p) /\ booted[p] # NotBooted
  <2>1. /\ p \notin up /\ up' = up \cup {p} /\ UNCHANGED <<rev, wire>>
        /\ at' = [u \in Sockets |-> IF u \in S THEN NoProcess ELSE at[u]]
    BY <1>3 DEF Listen, SocketsOf
  <2>2. missed' = missed \ S
    <3>1. missed' = missed \ {u \in Sockets : at'[u] = NoProcess} /\ missed \subseteq Sockets
      BY <1>3 DEF Listen, BusTyped
    <3>2. \A u \in missed : at'[u] = NoProcess <=> u \in S
      BY <2>1, <3>1 DEF Attached
    <3> QED BY <3>1, <3>2
  <2>3. Stream!Close(S)
    <3>1. \A u \in Sockets \ S : at[u] # NoProcess =>
            (at[u] \in up' <=> at[u] \in up) /\ wire'[at[u]] = wire[at[u]]
      BY <1>9, <2>1
    <3>2. up \cup up' \subseteq Processes /\ rev' = rev
      BY <1>1, <2>1
    <3> QED BY <1>8, <2>1, <2>2, <3>1, <3>2, StreamCloses
  <2> QED BY <1>8, <2>3 DEF Stream!StreamNext
<1>4. CASE ListenerLost(p)
  <2>1. /\ p \in up /\ up' = up \ {p} /\ wire' = [wire EXCEPT ![p] = <<>>]
        /\ UNCHANGED <<rev, at, missed>>
    BY <1>4 DEF ListenerLost
  <2>2. \A q \in Processes : q # p => wire'[q] = wire[q]
    BY <2>1 DEF BusTyped
  <2>3. {u \in Sockets : at[u] # NoProcess /\ at[u] \notin up'}
          = {u \in Sockets : at[u] # NoProcess /\ at[u] \notin up} \cup S
    BY <1>1, <2>1 DEF SocketsOf
  <2>4. ASSUME NEW u \in Sockets
        PROVE  (IF at[u] \in up THEN NextDue(at[u]) ELSE 0)'
                 = IF u \in S THEN 0 ELSE IF at[u] \in up THEN NextDue(at[u]) ELSE 0
    BY <1>1, <2>1, <2>2 DEF SocketsOf, NextDue
  <2>5. Stream!Break(S)
    BY <1>1, <2>1, <2>3, <2>4 DEF Stream!Break, Stream!Undue, SocketsOf
  <2> QED BY <1>8, <2>5 DEF Stream!StreamNext
<1>5. CASE ProcessDies(p)
  <2>1. /\ up' = up \ {p} /\ wire' = [wire EXCEPT ![p] = <<>>] /\ missed' = missed \ S
        /\ at' = [u \in Sockets |-> IF u \in S THEN NoProcess ELSE at[u]] /\ rev' = rev
    BY <1>5 DEF ProcessDies, SocketsOf
  <2>2. \A q \in Processes : q # p => wire'[q] = wire[q] /\ (q \in up' <=> q \in up)
    BY <2>1 DEF BusTyped
  <2>3. Stream!Close(S)
    <3>1. \A u \in Sockets \ S : at[u] # NoProcess =>
            (at[u] \in up' <=> at[u] \in up) /\ wire'[at[u]] = wire[at[u]]
      BY <1>9, <2>2
    <3>2. up \cup up' \subseteq Processes /\ rev' = rev
      BY <1>1, <2>1
    <3> QED BY <1>8, <2>1, <3>1, <3>2, StreamCloses
  <2> QED BY <1>8, <2>3 DEF Stream!StreamNext
<1> QED BY <1>2, <1>3, <1>4, <1>5

\* A socket attaches at the next frame due, or broken; it closes.
LEMMA StreamOfSocket ==
  ASSUME BusInv, NEW s \in Sockets, Detach(s) \/ \E p \in Processes : Attach(s, p)
  PROVE  [Stream!StreamNext]_Stream!stream
<1> USE DEF BusInv
<1>1. up \subseteq Processes /\ NoProcess \notin Processes
  BY BusAssumption DEF BusAssumption, BusTyped
<1>2. CASE Detach(s)
  <2>1. /\ at[s] # NoProcess /\ missed' = missed \ {s} /\ UNCHANGED <<rev, wire, up>>
        /\ at' = [u \in Sockets |-> IF u \in {s} THEN NoProcess ELSE at[u]]
    BY <1>2 DEF Detach, BusTyped
  <2>2. Stream!Close({s})
    BY <1>1, <2>1, StreamCloses
  <2> QED BY <2>2 DEF Stream!StreamNext
<1>3. ASSUME NEW p \in Processes, Attach(s, p) PROVE [Stream!StreamNext]_Stream!stream
  <2> PICK n : n = IF p \in up THEN NextDue(p) ELSE 0
    OBVIOUS
  <2>1. at[s] = NoProcess /\ at' = [at EXCEPT ![s] = p] /\ UNCHANGED <<rev, wire, up, missed>>
    BY <1>3 DEF Attach
  <2>2. at'[s] = p /\ \A u \in Sockets : u # s => at'[u] = at[u]
    BY <2>1 DEF BusTyped
  <2>3. n \in 0 .. rev + 1 /\ (n = 0 <=> p \notin up)
    BY NextIs DEF NextIsFirst
  <2>4. {u \in Sockets : at'[u] # NoProcess} = {u \in Sockets : at[u] # NoProcess} \cup {s}
    BY <1>1, <2>2
  <2>5. {u \in Sockets : at'[u] # NoProcess /\ at'[u] \notin up}
          = {u \in Sockets : at[u] # NoProcess /\ at[u] \notin up} \cup {u \in {s} : p \notin up}
    BY <1>1, <2>1, <2>2
  <2>6. ASSUME NEW u \in Sockets
        PROVE  (IF at[u] \in up THEN NextDue(at[u]) ELSE 0)'
                 = IF u = s THEN n ELSE IF at[u] \in up THEN NextDue(at[u]) ELSE 0
    BY <2>1, <2>2 DEF NextDue
  <2>7. Stream!Attach(s, n)
    BY <2>1, <2>3, <2>4, <2>5, <2>6 DEF Stream!Attach
  <2> QED BY <2>3, <2>7, Zenon DEF Stream!StreamNext
<1> QED BY <1>2, <1>3

\* The bus callback hands the sockets of one process the frame they are due, or drops it there.
LEMMA StreamReceives ==
  ASSUME BusInv, BusInv', NEW p \in Processes, Receive(p)
  PROVE  [Stream!StreamNext]_Stream!stream
<1>1. /\ wire[p] # <<>> /\ wire' = [wire EXCEPT ![p] = Tail(wire[p])] /\ UNCHANGED <<rev, up, at>>
      /\ \/ missed' = missed
         \/ missed' = missed \cup SocketsOf(p)
  BY DEF Receive
<1>2. p \in up /\ up \subseteq Processes /\ NoProcess \notin up
  BY <1>1, BusAssumption DEF BusAssumption, BusInv, BusTyped, WireIsTail, TailOf
<1>3. wire'[p] = Tail(wire[p]) /\ \A q \in Processes : q # p => wire'[q] = wire[q]
  BY <1>1 DEF BusInv, BusTyped
<1>4. NextDue(p)' = NextDue(p) + 1 /\ NextDue(p) <= rev
  <2> DEFINE n == Len(wire[p])
             m == Len(wire'[p])
  <2>1. n \in Nat \ {0} /\ m = n - 1
    BY <1>1, <1>3, TailIs DEF BusInv, BusTyped
  <2>2. NextDue(p) = rev - n + 1 /\ rev \in Nat
    BY NextIs DEF NextIsFirst
  <2>3. NextIsFirst'
    BY NextIs, PTL
  <2>4. NextDue(p)' = rev' - m + 1
    BY <2>3 DEF NextIsFirst
  <2> HIDE DEF n, m
  <2> QED BY <1>1, <2>1, <2>2, <2>4
<1> PICK S \in SUBSET Sockets : S = SocketsOf(p)
  BY DEF SocketsOf
<1>5. \A s \in Sockets : s \in S <=> at[s] = p
  BY DEF SocketsOf
<1>6. \A s \in S : Stream!Due(s)
  BY <1>2, <1>4, <1>5 DEF Stream!Due
<1>7. ASSUME NEW s \in Sockets
      PROVE  (IF at[s] \in up THEN NextDue(at[s]) ELSE 0)'
               = IF s \in S THEN (IF at[s] \in up THEN NextDue(at[s]) ELSE 0) + 1
                             ELSE IF at[s] \in up THEN NextDue(at[s]) ELSE 0
  <2>1. CASE s \in S
    <3>1. at[s] = p /\ at'[s] = p /\ p \in up'
      BY <1>1, <1>2, <1>5, <2>1
    <3> QED BY <1>2, <1>4, <2>1, <3>1 DEF NextDue
  <2>2. CASE s \notin S
    BY <1>1, <1>2, <1>3, <1>5, <2>2 DEF NextDue
  <2> QED BY <2>1, <2>2
<1>8. Stream!Deliver(S) \/ Stream!Drop(S)
  BY <1>1, <1>6, <1>7 DEF Stream!Deliver, Stream!Drop, Stream!Advanced
<1> QED BY <1>8 DEF Stream!StreamNext

\* Every step of the bus is a step of the stream or leaves it alone.
LEMMA StreamSteps == BusInv /\ BusInv' /\ [BusNext]_busVars => [Stream!StreamNext]_Stream!stream
<1> SUFFICES ASSUME BusInv, BusInv', [BusNext]_busVars PROVE [Stream!StreamNext]_Stream!stream
  OBVIOUS
<1>1. CASE UNCHANGED busVars
  BY <1>1, StreamQuiet DEF busVars
<1>2. CASE Tick \/ \E w \in Writers : Begin(w) \/ Abort(w) \/ \E p \in Processes : Publish(w, p)
  <2>1. UNCHANGED <<rev, wire, up, at, missed>>
    BY <1>2 DEF Tick, Begin, Abort, Publish
  <2> QED BY <2>1, StreamQuiet
<1>3. CASE \E w \in Writers : Commit(w)
  BY <1>3, StreamCommits DEF Stream!StreamNext
<1>4. ASSUME NEW p \in Processes, Listen(p) \/ ListenerLost(p) \/ ProcessDies(p)
      PROVE  [Stream!StreamNext]_Stream!stream
  BY <1>4, StreamOfListener
<1>5. ASSUME NEW p \in Processes, Receive(p) PROVE [Stream!StreamNext]_Stream!stream
  BY <1>5, StreamReceives
<1>6. ASSUME NEW s \in Sockets, Detach(s) \/ \E p \in Processes : Attach(s, p)
      PROVE  [Stream!StreamNext]_Stream!stream
  BY <1>6, StreamOfSocket
<1> QED BY <1>1, <1>2, <1>3, <1>4, <1>5, <1>6 DEF BusNext

\* The bus implements the stream that the web client is written against (sealFrame and NOTIFY
\* in the transaction, the bus callback, the close on re-listen): each socket is due every
\* frame committed since it attached, once and in order, until it is closed.
THEOREM BusImplementsStream == BusSpec => StreamImplemented
<1> QED BY StreamStarts, StreamSteps, BusInvariant, PTL DEF BusSpec, StreamImplemented, Stream!StreamSpec

=============================================================================
