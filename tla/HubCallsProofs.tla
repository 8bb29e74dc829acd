--------------------------- MODULE HubCallsProofs ---------------------------
(***************************************************************************)
(* The slots and the hubs for every number of slots, callers, sessions and *)
(* tries: each slot is in one place, no connection is handed out with an   *)
(* open transaction, every answer tells the truth, and a shutdown closes   *)
(* the adapter last.                                                       *)
(***************************************************************************)
EXTENDS HubCalls, FiniteSetTheorems, SequenceTheorems, TLAPS

-----------------------------------------------------------------------------
(* Sequences without repetition *)

\* Appending a new element (Array.push of a slot, a waiter or a call).
LEMMA AppendFacts ==
  ASSUME NEW S, NEW q \in Seq(S), NEW e \in S
  PROVE  /\ Append(q, e) \in Seq(S) /\ Append(q, e) # <<>>
         /\ Entries(Append(q, e)) = Entries(q) \cup {e}
         /\ Distinct(q) /\ e \notin Entries(q) => Distinct(Append(q, e))
<1>1. Append(q, e) \in Seq(S) /\ DOMAIN q = 1 .. Len(q)
      /\ DOMAIN Append(q, e) = 1 .. Len(q) + 1 /\ Len(q) \in Nat
  OBVIOUS
<1>2. Append(q, e)[Len(q) + 1] = e /\ \A i \in 1 .. Len(q) : Append(q, e)[i] = q[i]
  OBVIOUS
<1>3. Entries(Append(q, e)) = Entries(q) \cup {e}
  BY <1>1, <1>2 DEF Entries
<1>4. ASSUME Distinct(q), e \notin Entries(q) PROVE Distinct(Append(q, e))
  BY <1>1, <1>2, <1>4 DEF Entries, Distinct
<1> QED
  BY <1>1, <1>2, <1>3, <1>4

\* Taking the first element (Array.shift).
LEMMA TailFacts ==
  ASSUME NEW S, NEW q \in Seq(S), q # <<>>
  PROVE  /\ Tail(q) \in Seq(S) /\ Head(q) \in S /\ Head(q) \in Entries(q)
         /\ Entries(q) = Entries(Tail(q)) \cup {Head(q)}
         /\ Distinct(q) => Distinct(Tail(q)) /\ Head(q) \notin Entries(Tail(q))
<1>1. /\ DOMAIN q = 1 .. Len(q) /\ Len(q) \in Nat \ {0} /\ Tail(q) \in Seq(S)
      /\ DOMAIN Tail(q) = 1 .. Len(q) - 1 /\ Head(q) = q[1] /\ Head(q) \in S
  OBVIOUS
<1>2. \A i \in 1 .. Len(q) - 1 : Tail(q)[i] = q[i + 1]
  OBVIOUS
<1>3. Entries(q) = Entries(Tail(q)) \cup {Head(q)}
  <2>1. ASSUME NEW i \in DOMAIN q PROVE q[i] \in Entries(Tail(q)) \cup {Head(q)}
    <3>1. CASE i = 1
      BY <3>1, <1>1
    <3>2. CASE i # 1
      <4>1. i - 1 \in 1 .. Len(q) - 1 /\ Tail(q)[i - 1] = q[i]
        BY <3>2, <1>1, <1>2
      <4> QED
        BY <4>1, <1>1 DEF Entries
    <3> QED
      BY <3>1, <3>2
  <2>2. ASSUME NEW i \in DOMAIN Tail(q) PROVE Tail(q)[i] \in Entries(q)
    BY <1>1, <1>2 DEF Entries
  <2>3. Head(q) \in Entries(q)
    BY <1>1 DEF Entries
  <2>4. Entries(q) \subseteq Entries(Tail(q)) \cup {Head(q)}
    BY <2>1 DEF Entries
  <2>5. Entries(Tail(q)) \subseteq Entries(q)
    BY <2>2 DEF Entries
  <2> QED
    BY <2>3, <2>4, <2>5
<1>4. ASSUME Distinct(q) PROVE Distinct(Tail(q)) /\ Head(q) \notin Entries(Tail(q))
  BY <1>1, <1>2, <1>4 DEF Entries, Distinct
<1> QED
  BY <1>1, <1>3, <1>4

\* A line of one call is empty once that call leaves.
LEMMA SingleTail ==
  ASSUME NEW S, NEW q \in Seq(S), Len(q) = 1
  PROVE  Tail(q) = <<>>
<1>1. Tail(q) \in Seq(S) /\ Len(Tail(q)) = 0
  OBVIOUS
<1> QED
  BY <1>1, EmptySeq

\* Taking one element out (Array.splice of a waiter whose deadline passed).
LEMMA SpliceFacts ==
  ASSUME NEW S, NEW q \in Seq(S), NEW i \in DOMAIN q, Distinct(q)
  PROVE  LET r == [j \in 1 .. Len(q) - 1 |-> IF j < i THEN q[j] ELSE q[j + 1]]
         IN  r \in Seq(S) /\ Distinct(r) /\ Entries(r) = Entries(q) \ {q[i]}
<1> DEFINE r == [j \in 1 .. Len(q) - 1 |-> IF j < i THEN q[j] ELSE q[j + 1]]
<1>1. DOMAIN q = 1 .. Len(q) /\ Len(q) \in Nat \ {0} /\ \A j \in 1 .. Len(q) : q[j] \in S
  OBVIOUS
<1>2. r \in Seq(S) /\ Len(r) = Len(q) - 1 /\ DOMAIN r = 1 .. Len(q) - 1
  <2>1. Len(q) - 1 \in Nat /\ \A j \in 1 .. Len(q) - 1 : r[j] \in S
    BY <1>1
  <2>2. r \in [1 .. Len(q) - 1 -> S]
    BY <2>1
  <2> QED
    BY <2>1, <2>2
<1>3. \A j \in 1 .. Len(q) - 1 : r[j] = IF j < i THEN q[j] ELSE q[j + 1]
  BY <1>2
<1> HIDE DEF r
<1>4. Distinct(r)
  <2> SUFFICES ASSUME NEW j \in DOMAIN r, NEW k \in DOMAIN r, r[j] = r[k] PROVE j = k
    BY DEF Distinct
  <2>1. ASSUME NEW m \in DOMAIN r
        PROVE  \E n \in DOMAIN q : r[m] = q[n] /\ n = IF m < i THEN m ELSE m + 1
    BY <1>1, <1>2, <1>3
  <2>2. PICK a \in DOMAIN q : r[j] = q[a] /\ a = IF j < i THEN j ELSE j + 1
    BY <2>1
  <2>3. PICK b \in DOMAIN q : r[k] = q[b] /\ b = IF k < i THEN k ELSE k + 1
    BY <2>1
  <2>4. a = b
    BY <2>2, <2>3 DEF Distinct
  <2> QED
    BY <2>2, <2>3, <2>4, <1>1, <1>2
<1>5. ASSUME NEW j \in DOMAIN r PROVE r[j] \in Entries(q) \ {q[i]}
  <2>1. PICK n \in DOMAIN q : r[j] = q[n] /\ n # i
    BY <1>1, <1>2, <1>3
  <2> QED
    BY <2>1 DEF Distinct, Entries
<1>6. ASSUME NEW k \in DOMAIN q, k # i PROVE q[k] \in Entries(r)
  <2>1. CASE k < i
    BY <2>1, <1>1, <1>2, <1>3 DEF Entries
  <2>2. CASE k > i
    <3>1. k - 1 \in DOMAIN r /\ r[k - 1] = q[k]
      BY <2>2, <1>1, <1>2, <1>3
    <3> QED
      BY <3>1 DEF Entries
  <2> QED
    BY <2>1, <2>2, <1>6, <1>1
<1>7. Entries(r) = Entries(q) \ {q[i]}
  BY <1>5, <1>6 DEF Entries
<1> QED
  BY <1>2, <1>4, <1>7 DEF r

\* The empty queue has no entries.
LEMMA EmptyFacts ==
  ASSUME NEW S PROVE <<>> \in Seq(S) /\ Entries(<<>>) = {} /\ Distinct(<<>>)
  BY DEF Entries, Distinct

-----------------------------------------------------------------------------
(* The slots *)

SlotFacts == PoolTypeOK /\ SlotsExact /\ CleanHandOver

\* What a step that moves slots and waiters changes.
Moved == <<free, waiters, phase, on, link>>

\* Handing a slot over keeps every slot in one place and clean (release, after a confirmed end
\* or with the fresh connection of recycle).
LEMMA ReleaseKeeps ==
  ASSUME SlotFacts, PoolTypeOK', NEW c \in Callers, phase[c] \in Running,
         NEW then \in Answers \cup {"backoff"}, ReleaseSlot(c, then),
         link'[on[c]] = "clean", \A s \in Slots : s # on[c] => link'[s] = link[s]
  PROVE  SlotsExact' /\ CleanHandOver'
<1> USE PoolAssumption
<1>1. on[c] \in Slots /\ on[c] # Nobody
  BY DEF SlotFacts, SlotsExact, PoolTypeOK
<1>2. then \notin Running /\ then # "waiting" /\ "begin" \in Running /\ "waiting" \notin Running
  BY DEF Answers, Running
<1>3. free \in Seq(Slots) /\ waiters \in Seq(Callers) /\ DOMAIN phase = Callers
      /\ on \in [Callers -> Slots \cup {Nobody}]
  BY DEF SlotFacts, PoolTypeOK
<1>4. CASE waiters # <<>>
  <2> DEFINE h == Head(waiters)
  <2>1. /\ Tail(waiters) \in Seq(Callers) /\ h \in Callers /\ h \in Entries(waiters)
        /\ Entries(waiters) = Entries(Tail(waiters)) \cup {h}
        /\ Distinct(Tail(waiters)) /\ h \notin Entries(Tail(waiters))
    BY <1>3, <1>4, TailFacts DEF SlotFacts, SlotsExact
  <2>2. phase[h] = "waiting" /\ on[h] = Nobody /\ h # c
    BY <2>1, <1>2, <1>3 DEF SlotFacts, SlotsExact
  <2> HIDE DEF h
  <2>3. /\ phase' = [phase EXCEPT ![c] = then, ![h] = "begin"]
        /\ on' = [on EXCEPT ![c] = Nobody, ![h] = on[c]]
        /\ waiters' = Tail(waiters) /\ free' = free /\ free = <<>>
    BY <1>4 DEF ReleaseSlot, h, SlotFacts, SlotsExact
  <2>4. /\ phase'[c] = then /\ phase'[h] = "begin" /\ on'[c] = Nobody /\ on'[h] = on[c]
        /\ \A d \in Callers : d # c /\ d # h => phase'[d] = phase[d] /\ on'[d] = on[d]
    BY <2>1, <2>2, <2>3, <1>3
  <2>10. \A d \in Callers : on'[d] # Nobody <=> phase'[d] \in Running
    BY <1>3, <1>1, <1>2, <2>1, <2>2, <2>3, <2>4, EmptyFacts DEF SlotFacts, SlotsExact
  <2>11. \A d, e \in Callers : on'[d] # Nobody /\ on'[d] = on'[e] => d = e
    BY <1>3, <1>1, <1>2, <2>1, <2>2, <2>3, <2>4, EmptyFacts DEF SlotFacts, SlotsExact
  <2>12. \A d \in Callers : on'[d] \notin Entries(free')
    BY <1>3, <1>1, <1>2, <2>1, <2>2, <2>3, <2>4, EmptyFacts DEF SlotFacts, SlotsExact
  <2>13. \A s \in Slots : s \in Entries(free') \/ link'[s] = "gone" \/ \E d \in Callers : on'[d] = s
    BY <1>3, <1>1, <1>2, <2>1, <2>2, <2>3, <2>4, EmptyFacts DEF SlotFacts, SlotsExact
  <2>14. Entries(waiters') = {d \in Callers : phase'[d] = "waiting"}
    BY <1>3, <1>1, <1>2, <2>1, <2>2, <2>3, <2>4, EmptyFacts DEF SlotFacts, SlotsExact
  <2>15. Distinct(free') /\ Distinct(waiters') /\ (waiters' # <<>> => free' = <<>>)
    BY <1>3, <1>1, <1>2, <2>1, <2>2, <2>3, <2>4, EmptyFacts DEF SlotFacts, SlotsExact
  <2>16. CleanHandOver'
    BY <1>3, <1>1, <1>2, <2>1, <2>2, <2>3, <2>4, EmptyFacts DEF SlotFacts, SlotsExact, CleanHandOver
  <2> QED
    BY <2>10, <2>11, <2>12, <2>13, <2>14, <2>15, <2>16 DEF SlotsExact
<1>5. CASE waiters = <<>>
  <2>1. /\ phase' = [phase EXCEPT ![c] = then] /\ on' = [on EXCEPT ![c] = Nobody]
        /\ free' = Append(free, on[c]) /\ waiters' = waiters
    BY <1>5 DEF ReleaseSlot
  <2>2. on[c] \notin Entries(free) /\ Distinct(free)
    BY DEF SlotFacts, SlotsExact
  <2>3. Entries(free') = Entries(free) \cup {on[c]} /\ Distinct(free')
    BY <1>1, <1>3, <2>1, <2>2, AppendFacts
  <2>4. /\ phase'[c] = then /\ on'[c] = Nobody
        /\ \A d \in Callers : d # c => phase'[d] = phase[d] /\ on'[d] = on[d]
    BY <2>1, <1>3
  <2>4a. Nobody \notin Entries(free)
    BY <1>3 DEF Entries
  <2>5. Nobody \notin Entries(free')
    BY <1>1, <2>3, <2>4a
  <2>10. \A d \in Callers : on'[d] # Nobody <=> phase'[d] \in Running
    BY <1>3, <1>1, <1>2, <1>5, <2>1, <2>2, <2>3, <2>4, EmptyFacts DEF SlotFacts, SlotsExact
  <2>11. \A d, e \in Callers : on'[d] # Nobody /\ on'[d] = on'[e] => d = e
    BY <1>3, <1>1, <1>2, <1>5, <2>1, <2>2, <2>3, <2>4, EmptyFacts DEF SlotFacts, SlotsExact
  <2>12. \A d \in Callers : on'[d] \notin Entries(free')
    BY <1>3, <1>1, <1>2, <1>5, <2>1, <2>2, <2>3, <2>4, <2>5, EmptyFacts DEF SlotFacts, SlotsExact
  <2>13. \A s \in Slots : s \in Entries(free') \/ link'[s] = "gone" \/ \E d \in Callers : on'[d] = s
    BY <1>3, <1>1, <1>2, <1>5, <2>1, <2>2, <2>3, <2>4, EmptyFacts DEF SlotFacts, SlotsExact
  <2>14. Entries(waiters') = {d \in Callers : phase'[d] = "waiting"}
    BY <1>3, <1>1, <1>2, <1>5, <2>1, <2>2, <2>3, <2>4, EmptyFacts DEF SlotFacts, SlotsExact
  <2>15. Distinct(free') /\ Distinct(waiters') /\ (waiters' # <<>> => free' = <<>>)
    BY <1>3, <1>1, <1>2, <1>5, <2>1, <2>2, <2>3, <2>4, EmptyFacts DEF SlotFacts, SlotsExact
  <2>16. CleanHandOver'
    BY <1>3, <1>1, <1>2, <1>5, <2>1, <2>2, <2>3, <2>4, EmptyFacts DEF SlotFacts, SlotsExact, CleanHandOver
  <2> QED
    BY <2>10, <2>11, <2>12, <2>13, <2>14, <2>15, <2>16 DEF SlotsExact
<1> QED
  BY <1>4, <1>5

\* Handing a slot over is well typed.
LEMMA ReleaseTyped ==
  ASSUME SlotFacts, NEW c \in Callers, phase[c] \in Running,
         NEW then \in Answers \cup {"backoff"}, ReleaseSlot(c, then)
  PROVE  /\ free' \in Seq(Slots) /\ waiters' \in Seq(Callers)
         /\ phase' \in [Callers -> {"idle"} \cup Waiting \cup Running \cup Answers]
         /\ on' \in [Callers -> Slots \cup {Nobody}]
<1>1. on[c] \in Slots
  BY DEF SlotFacts, SlotsExact, PoolTypeOK
<1>2. /\ free \in Seq(Slots) /\ waiters \in Seq(Callers)
      /\ phase \in [Callers -> {"idle"} \cup Waiting \cup Running \cup Answers]
      /\ on \in [Callers -> Slots \cup {Nobody}]
  BY DEF SlotFacts, PoolTypeOK
<1>3. then \in Waiting \cup Answers /\ "begin" \in Running
  BY DEF Waiting, Running
<1>4. CASE waiters # <<>>
  <2>1. Tail(waiters) \in Seq(Callers) /\ Head(waiters) \in Callers
    BY <1>2, <1>4, TailFacts
  <2> QED
    BY <1>1, <1>2, <1>3, <1>4, <2>1 DEF ReleaseSlot
<1>5. CASE waiters = <<>>
  BY <1>1, <1>2, <1>3, <1>5, AppendFacts DEF ReleaseSlot
<1> QED
  BY <1>4, <1>5

\* A fresh connection in the slot, or after close no slot, is well typed.
LEMMA RecycleTyped ==
  ASSUME SlotFacts, NEW c \in Callers, phase[c] \in Running,
         NEW then \in Answers \cup {"backoff"}, Recycle(c, then)
  PROVE  /\ free' \in Seq(Slots) /\ waiters' \in Seq(Callers)
         /\ phase' \in [Callers -> {"idle"} \cup Waiting \cup Running \cup Answers]
         /\ on' \in [Callers -> Slots \cup {Nobody}]
         /\ link' \in [Slots -> {"clean", "open", "gone"}]
<1>1. /\ free \in Seq(Slots) /\ waiters \in Seq(Callers)
      /\ phase \in [Callers -> {"idle"} \cup Waiting \cup Running \cup Answers]
      /\ on \in [Callers -> Slots \cup {Nobody}]
      /\ link \in [Slots -> {"clean", "open", "gone"}]
  BY DEF SlotFacts, PoolTypeOK
<1>2. then \in Waiting \cup Answers
  BY DEF Waiting
<1>3. CASE closed
  BY <1>1, <1>2, <1>3 DEF Recycle
<1>4. CASE ~closed
  BY <1>1, <1>4, ReleaseTyped DEF Recycle
<1> QED
  BY <1>3, <1>4

\* Replacing a connection keeps every slot in one place and clean (recycle).
LEMMA RecycleKeeps ==
  ASSUME SlotFacts, PoolTypeOK', NEW c \in Callers, phase[c] \in Running,
         NEW then \in Answers \cup {"backoff"}, Recycle(c, then)
  PROVE  SlotsExact' /\ CleanHandOver'
<1> USE PoolAssumption
<1>1. on[c] \in Slots /\ on[c] # Nobody
  BY DEF SlotFacts, SlotsExact, PoolTypeOK
<1>2. then \notin Running /\ then # "waiting" /\ then # "begin"
      /\ "waiting" \notin Running
  BY DEF Answers, Running
<1>3. DOMAIN phase = Callers /\ DOMAIN on = Callers /\ DOMAIN link = Slots
      /\ free \in Seq(Slots)
  BY DEF SlotFacts, PoolTypeOK
<1>4. CASE ~closed
  <2>1. ReleaseSlot(c, then) /\ link'[on[c]] = "clean"
        /\ \A s \in Slots : s # on[c] => link'[s] = link[s]
    BY <1>1, <1>3, <1>4 DEF Recycle
  <2> QED
    BY <2>1, ReleaseKeeps
<1>5. CASE closed
  <2>1. /\ phase' = [phase EXCEPT ![c] = then] /\ on' = [on EXCEPT ![c] = Nobody]
        /\ link' = [link EXCEPT ![on[c]] = "gone"] /\ free' = free /\ waiters' = waiters
    BY <1>5 DEF Recycle
  <2>2. /\ phase'[c] = then /\ on'[c] = Nobody /\ link'[on[c]] = "gone"
        /\ \A d \in Callers : d # c => phase'[d] = phase[d] /\ on'[d] = on[d]
        /\ \A s \in Slots : s # on[c] => link'[s] = link[s]
    BY <1>1, <1>3, <2>1
  <2>3. Nobody \notin Entries(free) /\ on[c] \notin Entries(free)
    BY <1>3 DEF Entries, SlotFacts, SlotsExact
  <2>4. SlotsExact'
    BY <1>1, <1>2, <2>1, <2>2, <2>3 DEF SlotFacts, SlotsExact
  <2>5. CleanHandOver'
    BY <1>1, <1>2, <2>1, <2>2, <2>3 DEF SlotFacts, SlotsExact, CleanHandOver
  <2> QED
    BY <2>4, <2>5
<1> QED
  BY <1>4, <1>5

\* A step of the call that keeps its slot, and every queue (BEGIN answered, the body's end, the
\* server's COMMIT).
LEMMA HoldKeeps ==
  ASSUME SlotFacts, NEW c \in Callers, phase[c] \in Running,
         NEW p \in Running \ {"begin"},
         \/ phase' = [phase EXCEPT ![c] = p]
         \/ phase' = phase /\ phase[c] # "begin",
         \A s \in Slots : s # on[c] => link'[s] = link[s],
         link'[on[c]] # "gone" \/ link' = link,
         UNCHANGED <<free, waiters, on>>
  PROVE  SlotsExact' /\ CleanHandOver'
<1>1. on[c] \in Slots /\ on[c] # Nobody /\ DOMAIN phase = Callers
  BY PoolAssumption DEF SlotFacts, SlotsExact, PoolTypeOK
<1>2. p \in Running /\ p # "waiting" /\ p # "begin" /\ "waiting" \notin Running
  BY DEF Running
<1>3. /\ phase'[c] \in Running /\ phase'[c] # "begin" /\ phase'[c] # "waiting"
      /\ \A d \in Callers : d # c => phase'[d] = phase[d]
  BY <1>1, <1>2
<1>4. on[c] \notin Entries(free) /\ \A d \in Callers : on[d] = on[c] => d = c
  BY <1>1 DEF SlotFacts, SlotsExact
<1>5. \A s \in Slots : s \in Entries(free') \/ link'[s] = "gone" \/ \E d \in Callers : on'[d] = s
  BY <1>1 DEF SlotFacts, SlotsExact
<1>6. SlotsExact'
  BY <1>1, <1>2, <1>3, <1>5 DEF SlotFacts, SlotsExact
<1>7. CleanHandOver'
  BY <1>1, <1>3, <1>4 DEF SlotFacts, CleanHandOver
<1> QED
  BY <1>6, <1>7

-----------------------------------------------------------------------------
\* Taking a slot or a place in the queue (acquire).
LEMMA AcquireKeeps ==
  ASSUME SlotFacts, NEW c \in Callers, phase[c] \in {"idle", "backoff"}, Acquire(c)
  PROVE  SlotFacts'
<1> USE PoolAssumption
<1>1. /\ free \in Seq(Slots) /\ waiters \in Seq(Callers)
      /\ phase \in [Callers -> {"idle"} \cup Waiting \cup Running \cup Answers]
      /\ on \in [Callers -> Slots \cup {Nobody}] /\ tries \in [Callers -> Nat]
  BY DEF SlotFacts, PoolTypeOK
<1>2. "begin" \in Running /\ "waiting" \in Waiting /\ "waiting" \notin Running
      /\ phase[c] \notin Running /\ phase[c] # "waiting" /\ phase[c] # "begin"
  BY DEF Running, Waiting
<1>3. on[c] = Nobody /\ c \notin Entries(waiters)
  BY <1>1, <1>2 DEF SlotFacts, SlotsExact
<1>4. tries' \in [Callers -> Nat] /\ UNCHANGED <<link, lock, orphan, applied, closed>>
  BY <1>1 DEF Acquire
<1>5. CASE free # <<>>
  <2>1. /\ free' = Tail(free) /\ on' = [on EXCEPT ![c] = Head(free)]
        /\ phase' = [phase EXCEPT ![c] = "begin"] /\ waiters' = waiters
    BY <1>5 DEF Acquire
  <2>2. /\ Tail(free) \in Seq(Slots) /\ Head(free) \in Slots /\ Head(free) \in Entries(free)
        /\ Entries(free) = Entries(Tail(free)) \cup {Head(free)}
        /\ Distinct(Tail(free)) /\ Head(free) \notin Entries(Tail(free))
    BY <1>1, <1>5, TailFacts DEF SlotFacts, SlotsExact
  <2>3. /\ phase'[c] = "begin" /\ on'[c] = Head(free)
        /\ \A d \in Callers : d # c => phase'[d] = phase[d] /\ on'[d] = on[d]
    BY <1>1, <2>1
  <2>4. PoolTypeOK'
    BY <1>1, <1>2, <1>4, <2>1, <2>2 DEF SlotFacts, PoolTypeOK
  <2>5. /\ \A d \in Callers : on[d] # Head(free)
        /\ waiters = <<>>
        /\ link[Head(free)] = "clean"
    BY <1>5, <2>2 DEF SlotFacts, SlotsExact, CleanHandOver
  <2>6. /\ \A d \in Callers : on'[d] # Nobody <=> phase'[d] \in Running
        /\ \A d, e \in Callers : on'[d] # Nobody /\ on'[d] = on'[e] => d = e
    BY <1>2, <2>2, <2>3, <2>5 DEF SlotFacts, SlotsExact
  <2>7. \A d \in Callers : on'[d] \notin Entries(free')
    BY <2>1, <2>2, <2>3 DEF SlotFacts, SlotsExact
  <2>7a. \A s \in Slots : s \in Entries(free') \/ link'[s] = "gone" \/ \E d \in Callers : on'[d] = s
    <3> SUFFICES ASSUME NEW s \in Slots
                 PROVE  s \in Entries(free') \/ link'[s] = "gone" \/ \E d \in Callers : on'[d] = s
      OBVIOUS
    <3>1. CASE s = Head(free)
      BY <3>1, <2>3
    <3>2. CASE s \in Entries(free) /\ s # Head(free)
      BY <3>2, <2>1, <2>2
    <3>3. CASE link[s] = "gone"
      BY <3>3, <1>4
    <3>4. CASE \E d \in Callers : on[d] = s
      <4>1. PICK d \in Callers : on[d] = s
        BY <3>4
      <4>2. d # c
        BY <4>1, <1>3
      <4> QED
        BY <4>1, <4>2, <2>3
    <3> QED
      BY <3>1, <3>2, <3>3, <3>4 DEF SlotFacts, SlotsExact
  <2>8. /\ Entries(waiters') = {d \in Callers : phase'[d] = "waiting"}
        /\ Distinct(free') /\ Distinct(waiters') /\ (waiters' # <<>> => free' = <<>>)
    BY <1>2, <2>1, <2>2, <2>3, <2>5 DEF SlotFacts, SlotsExact
  <2>9. CleanHandOver'
    BY <1>4, <2>1, <2>2, <2>3, <2>5 DEF SlotFacts, CleanHandOver
  <2> QED
    BY <2>4, <2>6, <2>7, <2>7a, <2>8, <2>9 DEF SlotFacts, SlotsExact
<1>6. CASE free = <<>>
  <2>1. /\ waiters' = Append(waiters, c) /\ phase' = [phase EXCEPT ![c] = "waiting"]
        /\ free' = free /\ on' = on
    BY <1>6 DEF Acquire
  <2>2. /\ Append(waiters, c) \in Seq(Callers)
        /\ Entries(Append(waiters, c)) = Entries(waiters) \cup {c} /\ Distinct(Append(waiters, c))
    BY <1>1, <1>3, AppendFacts DEF SlotFacts, SlotsExact
  <2>3. phase'[c] = "waiting" /\ \A d \in Callers : d # c => phase'[d] = phase[d]
    BY <1>1, <2>1
  <2>4. PoolTypeOK'
    BY <1>1, <1>2, <1>4, <2>1, <2>2 DEF SlotFacts, PoolTypeOK
  <2>5. SlotsExact'
    BY <1>2, <1>3, <1>4, <1>6, <2>1, <2>2, <2>3 DEF SlotFacts, SlotsExact
  <2>6. CleanHandOver'
    BY <1>4, <2>1, <2>3 DEF SlotFacts, CleanHandOver
  <2> QED
    BY <2>4, <2>5, <2>6 DEF SlotFacts
<1> QED
  BY <1>5, <1>6

\* A call that ends without ever holding a slot.
LEMMA RefuseKeeps ==
  ASSUME SlotFacts, NEW c \in Callers, phase[c] \in {"idle", "backoff"}, Refuse(c)
  PROVE  SlotFacts'
<1>1. /\ phase' = [phase EXCEPT ![c] = "failed"]
      /\ UNCHANGED <<free, waiters, on, link, lock, orphan, applied, tries, closed>>
  BY DEF Refuse
<1>2. phase \in [Callers -> {"idle"} \cup Waiting \cup Running \cup Answers] /\ "failed" \in Answers
  BY DEF SlotFacts, PoolTypeOK, Answers
<1>3. /\ phase'[c] = "failed" /\ "failed" \notin Running /\ phase[c] \notin Running
      /\ phase[c] # "waiting" /\ \A d \in Callers : d # c => phase'[d] = phase[d]
  BY <1>1, <1>2 DEF Running
<1>4. PoolTypeOK'
  BY <1>1, <1>2 DEF SlotFacts, PoolTypeOK
<1>5. SlotsExact'
  BY <1>1, <1>3 DEF SlotFacts, SlotsExact
<1>6. CleanHandOver'
  BY <1>1, <1>3 DEF SlotFacts, CleanHandOver
<1> QED
  BY <1>4, <1>5, <1>6 DEF SlotFacts

\* A waiter whose deadline passes leaves the queue, and no slot is granted to it.
LEMMA ExpireKeeps ==
  ASSUME SlotFacts, NEW c \in Callers, QueueExpires(c)
  PROVE  SlotFacts'
<1>1. PICK i \in DOMAIN waiters :
        /\ waiters[i] = c
        /\ waiters' = [j \in 1 .. Len(waiters) - 1 |-> IF j < i THEN waiters[j] ELSE waiters[j + 1]]
  BY DEF QueueExpires
<1>2. /\ phase' = [phase EXCEPT ![c] = "failed"]
      /\ UNCHANGED <<free, on, link, lock, orphan, applied, tries, closed>>
  BY DEF QueueExpires
<1>3. /\ waiters \in Seq(Callers) /\ Distinct(waiters) /\ "failed" \in Answers
      /\ phase \in [Callers -> {"idle"} \cup Waiting \cup Running \cup Answers]
  BY DEF SlotFacts, PoolTypeOK, SlotsExact, Answers
<1>4. waiters' \in Seq(Callers) /\ Distinct(waiters') /\ Entries(waiters') = Entries(waiters) \ {c}
  BY <1>1, <1>3, SpliceFacts
<1>5. c \in Entries(waiters) /\ waiters # <<>>
  BY <1>1, EmptyFacts DEF Entries
<1>6. /\ phase'[c] = "failed" /\ "failed" \notin Running /\ "waiting" \notin Running
      /\ \A d \in Callers : d # c => phase'[d] = phase[d]
  BY <1>2, <1>3 DEF Running
<1>7. PoolTypeOK'
  BY <1>2, <1>3, <1>4 DEF SlotFacts, PoolTypeOK
<1>8. phase[c] = "waiting" /\ free = <<>>
  BY <1>5 DEF SlotFacts, SlotsExact
<1>9. SlotsExact'
  BY <1>2, <1>4, <1>6, <1>8 DEF SlotFacts, SlotsExact
<1>10. CleanHandOver'
  BY <1>2, <1>6 DEF SlotFacts, CleanHandOver
<1> QED
  BY <1>7, <1>9, <1>10 DEF SlotFacts

\* A slot whose transaction ended on a clean connection is handed over (release).
LEMMA EndKeeps ==
  ASSUME SlotFacts, NEW c \in Callers, phase[c] \in Running, link[on[c]] = "clean" \/ link' = [link EXCEPT ![on[c]] = "clean"],
         NEW then \in Answers \cup {"backoff"}, ReleaseSlot(c, then),
         link' = link \/ link' = [link EXCEPT ![on[c]] = "clean"],
         lock' \in [Sessions -> Callers \cup {Nobody}],
         UNCHANGED <<orphan, applied, tries, closed>>
  PROVE  SlotFacts'
<1>1. link \in [Slots -> {"clean", "open", "gone"}] /\ on[c] \in Slots
  BY DEF SlotFacts, SlotsExact, PoolTypeOK
<1>2. link' \in [Slots -> {"clean", "open", "gone"}]
  BY <1>1
<1>3. link'[on[c]] = "clean" /\ \A s \in Slots : s # on[c] => link'[s] = link[s]
  BY <1>1
<1>4. PoolTypeOK'
  BY <1>2, ReleaseTyped DEF SlotFacts, PoolTypeOK
<1> QED
  BY <1>3, <1>4, ReleaseKeeps DEF SlotFacts

\* A slot whose transaction has no confirmed end is handed over with a fresh connection.
LEMMA ReplaceKeeps ==
  ASSUME SlotFacts, NEW c \in Callers, phase[c] \in Running,
         NEW then \in Answers \cup {"backoff"}, Recycle(c, then),
         lock' \in [Sessions -> Callers \cup {Nobody}],
         orphan' \in [Callers -> {"none", "open", "sent"}],
         UNCHANGED <<applied, tries, closed>>
  PROVE  SlotFacts'
<1>1. PoolTypeOK'
  BY RecycleTyped DEF SlotFacts, PoolTypeOK
<1> QED
  BY <1>1, RecycleKeeps DEF SlotFacts

\* Releasing a row lock is well typed.
LEMMA UnlockedTyped ==
  ASSUME PoolTypeOK, NEW c \in Callers
  PROVE  Unlocked(c) \in [Sessions -> Callers \cup {Nobody}]
  BY PoolAssumption DEF PoolTypeOK, Unlocked

\* Every step of a call on the pool keeps the slots in place and clean.
LEMMA SlotStep ==
  ASSUME SlotFacts, NEW c \in Callers, Start(c) \/ Step(c)
  PROVE  SlotFacts'
<1> USE PoolAssumption
<1>0. PoolTypeOK /\ Unlocked(c) \in [Sessions -> Callers \cup {Nobody}]
      /\ SessionOf[c] \in Sessions
  BY UnlockedTyped DEF SlotFacts
<1>1. ASSUME NEW p \in {"body", "rollback", "rewind", "commit"}
      PROVE  p \in Running \ {"begin"} /\ p \in Running
  BY DEF Running
<1>2. ASSUME NEW p \in {"ok", "failed", "unknown", "backoff"}
      PROVE  p \in Answers \cup {"backoff"}
  BY DEF Answers
<1>3. ASSUME NEW p \in {"begin", "body", "rollback", "rewind", "commit"}, phase[c] = p
      PROVE  phase[c] \in Running /\ on[c] \in Slots
  BY <1>3 DEF Running, SlotFacts, SlotsExact, PoolTypeOK
<1>4. AfterRollback(c) \in Answers \cup {"backoff"}
  BY DEF AfterRollback, Answers
<1>5. CASE Start(c)
  BY <1>5, AcquireKeeps, RefuseKeeps DEF Start
<1>6. CASE Retry(c)
  BY <1>6, AcquireKeeps, RefuseKeeps DEF Retry
<1>7. CASE QueueExpires(c)
  BY <1>7, ExpireKeeps
<1>8. CASE BeginOk(c)
  <2>1. phase[c] \in Running /\ on[c] \in Slots
    BY <1>3, <1>8 DEF BeginOk
  <2>2. link'[on[c]] = "open" /\ \A s \in Slots : s # on[c] => link'[s] = link[s]
    BY <1>0, <1>8, <2>1 DEF BeginOk, PoolTypeOK
  <2>3. PoolTypeOK'
    BY <1>0, <1>1, <1>8, <2>1 DEF BeginOk, PoolTypeOK
  <2> QED
    BY <1>1, <1>8, <2>1, <2>2, <2>3, HoldKeeps DEF BeginOk, SlotFacts
<1>9. CASE BeginRefused(c)
  <2>1. phase[c] \in Running /\ on[c] \in Slots
    BY <1>3, <1>9 DEF BeginRefused
  <2>2. link'[on[c]] = "open" /\ \A s \in Slots : s # on[c] => link'[s] = link[s]
    BY <1>0, <1>9, <2>1 DEF BeginRefused, PoolTypeOK
  <2>3. PoolTypeOK'
    BY <1>0, <1>1, <1>9, <2>1 DEF BeginRefused, PoolTypeOK
  <2> QED
    BY <1>1, <1>9, <2>1, <2>2, <2>3, HoldKeeps DEF BeginRefused, SlotFacts
<1>10. CASE BeginFails(c)
  <2>1. phase[c] \in Running /\ Recycle(c, "failed") /\ UNCHANGED <<applied, tries, closed>>
    BY <1>3, <1>10 DEF BeginFails
  <2>2. lock' \in [Sessions -> Callers \cup {Nobody}] /\ orphan' \in [Callers -> {"none", "open", "sent"}]
    <3>1. \/ UNCHANGED <<lock, orphan>>
          \/ /\ lock' = [lock EXCEPT ![SessionOf[c]] = c]
             /\ orphan' = [orphan EXCEPT ![c] = "open"]
      BY <1>10 DEF BeginFails
    <3>2. lock' = lock \/ lock' = [lock EXCEPT ![SessionOf[c]] = c]
      BY <3>1
    <3>3. orphan' = orphan \/ orphan' = [orphan EXCEPT ![c] = "open"]
      BY <3>1
    <3>4. lock' \in [Sessions -> Callers \cup {Nobody}]
      BY <1>0, <3>2 DEF PoolTypeOK
    <3>5. orphan' \in [Callers -> {"none", "open", "sent"}]
      BY <1>0, <3>3 DEF PoolTypeOK
    <3> QED
      BY <3>4, <3>5
  <2> QED
    BY <1>2, <2>1, <2>2, ReplaceKeeps
<1>11. CASE BodyEnds(c) \/ BodyFails(c)
  <2>1. phase[c] \in Running /\ on[c] \in Slots
    BY <1>3, <1>11 DEF BodyEnds, BodyFails
  <2>2. PICK p \in {"rollback", "commit"} : phase' = [phase EXCEPT ![c] = p]
    BY <1>11 DEF BodyEnds, BodyFails
  <2>3. UNCHANGED <<free, waiters, on, link, lock, orphan, applied, tries, closed>>
    BY <1>11 DEF BodyEnds, BodyFails
  <2>4. PoolTypeOK'
    BY <1>0, <1>1, <2>2, <2>3 DEF PoolTypeOK
  <2> QED
    BY <1>1, <2>1, <2>2, <2>3, <2>4, HoldKeeps DEF SlotFacts
<1>12. CASE Deadlocked(c)
  <2>1. phase[c] \in Running /\ on[c] \in Slots
    BY <1>3, <1>12 DEF Deadlocked
  <2>2. PoolTypeOK'
    BY <1>0, <1>1, <1>12 DEF Deadlocked, PoolTypeOK
  <2> QED
    BY <1>1, <1>12, <2>1, <2>2, HoldKeeps DEF Deadlocked, SlotFacts
<1>13. CASE BodyLost(c)
  <2>1. phase[c] \in Running /\ Recycle(c, "failed") /\ UNCHANGED <<applied, tries, closed>>
    BY <1>3, <1>13 DEF BodyLost
  <2>2. lock' \in [Sessions -> Callers \cup {Nobody}] /\ orphan' \in [Callers -> {"none", "open", "sent"}]
    BY <1>0, <1>13 DEF BodyLost, Abandoned, PoolTypeOK
  <2> QED
    BY <1>2, <2>1, <2>2, ReplaceKeeps
<1>14. CASE RolledBack(c)
  <2>1. phase[c] \in Running /\ on[c] \in Slots
    BY <1>3, <1>14 DEF RolledBack
  <2> QED
    BY <1>0, <1>4, <1>14, <2>1, EndKeeps DEF RolledBack
<1>15. CASE RollbackFails(c)
  <2>1. phase[c] \in Running /\ Recycle(c, AfterRollback(c)) /\ UNCHANGED <<applied, tries, closed>>
    BY <1>3, <1>15 DEF RollbackFails
  <2>2. lock' \in [Sessions -> Callers \cup {Nobody}] /\ orphan' \in [Callers -> {"none", "open", "sent"}]
    BY <1>0, <1>15 DEF RollbackFails, Abandoned, PoolTypeOK
  <2> QED
    BY <1>4, <2>1, <2>2, ReplaceKeeps
<1>16. CASE BackendCommits(c)
  <2>1. phase[c] \in Running /\ on[c] \in Slots /\ phase[c] # "begin"
    BY <1>3, <1>16 DEF BackendCommits
  <2>2. link'[on[c]] = "clean" /\ \A s \in Slots : s # on[c] => link'[s] = link[s]
    BY <1>0, <1>16, <2>1 DEF BackendCommits, PoolTypeOK
  <2>3. PoolTypeOK'
    BY <1>0, <1>16, <2>1 DEF BackendCommits, PoolTypeOK
  <2> QED
    BY <1>1, <1>16, <2>1, <2>2, <2>3, HoldKeeps DEF BackendCommits, SlotFacts
<1>17. CASE CommitOk(c)
  <2>1. phase[c] \in Running
    BY <1>3, <1>17 DEF CommitOk
  <2> QED
    BY <1>0, <1>2, <1>17, <2>1, EndKeeps DEF CommitOk, PoolTypeOK
<1>18. CASE CommitRefused(c)
  <2>1. phase[c] \in Running /\ lock' = Unlocked(c) /\ UNCHANGED <<orphan, applied, tries, closed>>
    BY <1>3, <1>18 DEF CommitRefused
  <2>2. ASSUME NEW p \in {"failed", "backoff"}, Recycle(c, p) PROVE SlotFacts'
    BY <1>0, <1>2, <2>1, <2>2, ReplaceKeeps DEF PoolTypeOK
  <2>3. ASSUME link' = [link EXCEPT ![on[c]] = "clean"], ReleaseSlot(c, "failed") PROVE SlotFacts'
    BY <1>0, <1>2, <2>1, <2>3, EndKeeps
  <2> QED
    BY <1>18, <2>2, <2>3 DEF CommitRefused
<1>19. CASE CommitLost(c)
  <2>1. phase[c] \in Running /\ Recycle(c, "unknown") /\ UNCHANGED <<lock, applied, tries, closed>>
    BY <1>3, <1>19 DEF CommitLost
  <2>2. lock' \in [Sessions -> Callers \cup {Nobody}] /\ orphan' \in [Callers -> {"none", "open", "sent"}]
    BY <1>0, <1>19 DEF CommitLost, PoolTypeOK
  <2> QED
    BY <1>2, <2>1, <2>2, ReplaceKeeps
<1>20. CASE OrphanEnds(c)
  <2>1. UNCHANGED <<free, waiters, phase, on, link, tries, closed>>
    BY <1>20 DEF OrphanEnds
  <2>2. orphan' \in [Callers -> {"none", "open", "sent"}] /\ lock' \in [Sessions -> Callers \cup {Nobody}]
    BY <1>0, <1>20 DEF OrphanEnds, PoolTypeOK
  <2>3. applied' = applied \/ applied' = [applied EXCEPT ![c] = applied[c] + 1]
    BY <1>20 DEF OrphanEnds
  <2>3a. applied \in [Callers -> Nat] /\ applied[c] + 1 \in Nat
    BY <1>0 DEF PoolTypeOK
  <2>4. applied' \in [Callers -> Nat]
    BY <2>3, <2>3a
  <2>5. PoolTypeOK'
    BY <1>0, <2>1, <2>2, <2>4 DEF PoolTypeOK
  <2> QED
    BY <2>1, <2>5 DEF SlotFacts, SlotsExact, CleanHandOver
<1> QED
  BY <1>5, <1>6, <1>7, <1>8, <1>9, <1>10, <1>11, <1>12, <1>13, <1>14, <1>15, <1>16, <1>17, <1>18, <1>19, <1>20 DEF Step

\* Closing the pool empties the queue, and ending it ends every connection.
LEMMA CloseStep ==
  ASSUME SlotFacts, ClosePool \/ EndPool
  PROVE  SlotFacts'
<1> USE PoolAssumption
<1>1. CASE ClosePool
  <2>1. /\ phase' = [c \in Callers |-> IF phase[c] = "waiting" THEN "failed" ELSE phase[c]]
        /\ waiters' = <<>> /\ closed' = TRUE /\ UNCHANGED <<free, on, link, lock, orphan, applied, tries>>
    BY <1>1 DEF ClosePool
  <2>2. /\ "failed" \in Answers /\ "failed" \notin Running /\ "waiting" \notin Running
        /\ phase \in [Callers -> {"idle"} \cup Waiting \cup Running \cup Answers]
    BY DEF Answers, Running, SlotFacts, PoolTypeOK
  <2>3. PoolTypeOK'
    BY <2>1, <2>2, EmptyFacts DEF SlotFacts, PoolTypeOK
  <2>4. SlotsExact'
    BY <2>1, <2>2, EmptyFacts DEF SlotFacts, SlotsExact
  <2>5. CleanHandOver'
    BY <2>1 DEF SlotFacts, CleanHandOver
  <2> QED
    BY <2>3, <2>4, <2>5 DEF SlotFacts
<1>2. CASE EndPool
  <2>1. /\ link' = [s \in Slots |-> "gone"] /\ free' = <<>>
        /\ UNCHANGED <<waiters, phase, on, lock, orphan, applied, tries, closed>>
        /\ \A c \in Callers : phase[c] \notin Running \cup Waiting
    BY <1>2 DEF EndPool
  <2>2. "begin" \in Running
    BY DEF Running
  <2>3. PoolTypeOK'
    BY <2>1, EmptyFacts DEF SlotFacts, PoolTypeOK
  <2>4. SlotsExact'
    BY <2>1, EmptyFacts DEF SlotFacts, SlotsExact
  <2>5. CleanHandOver'
    BY <2>1, <2>2, EmptyFacts DEF SlotFacts, CleanHandOver
  <2> QED
    BY <2>3, <2>4, <2>5 DEF SlotFacts
<1> QED
  BY <1>1, <1>2

\* The adapter starts with every slot free and clean.
LEMMA SlotInit == PoolInit => SlotFacts
<1> SUFFICES ASSUME PoolInit PROVE SlotFacts
  OBVIOUS
<1> USE PoolAssumption
<1>1. /\ free \in [1 .. Cardinality(Slots) -> Slots] /\ Entries(free) = Slots /\ Distinct(free)
      /\ waiters = <<>> /\ phase = [c \in Callers |-> "idle"]
      /\ on = [c \in Callers |-> Nobody] /\ link = [s \in Slots |-> "clean"]
  BY DEF PoolInit
<1>2. free \in Seq(Slots)
  BY <1>1, FS_CardinalityType
<1>3. "idle" \notin Running /\ "begin" \in Running
  BY DEF Running
<1>1a. /\ lock = [r \in Sessions |-> Nobody] /\ orphan = [c \in Callers |-> "none"]
       /\ applied = [c \in Callers |-> 0] /\ tries = [c \in Callers |-> 0] /\ closed = FALSE
  BY DEF PoolInit
<1>4. PoolTypeOK
  <2>1. waiters \in Seq(Callers)
    BY <1>1
  <2>2. /\ phase \in [Callers -> {"idle"} \cup Waiting \cup Running \cup Answers]
        /\ on \in [Callers -> Slots \cup {Nobody}] /\ link \in [Slots -> {"clean", "open", "gone"}]
    BY <1>1
  <2>3. /\ lock \in [Sessions -> Callers \cup {Nobody}] /\ orphan \in [Callers -> {"none", "open", "sent"}]
        /\ applied \in [Callers -> Nat] /\ tries \in [Callers -> Nat] /\ closed \in BOOLEAN
    BY <1>1a
  <2> QED
    BY <1>2, <2>1, <2>2, <2>3 DEF PoolTypeOK
<1>5. SlotsExact
  BY <1>1, <1>3, EmptyFacts DEF SlotsExact
<1>6. CleanHandOver
  BY <1>1 DEF CleanHandOver
<1> QED
  BY <1>4, <1>5, <1>6 DEF SlotFacts

\* The pool is well typed, each slot is in one place and the queue holds exactly the waiting
\* calls (PostgresCatalogStore.acquire, release, recycle), and a connection is handed out only
\* clean ("never hands out a connection whose transaction may still be open").
THEOREM SlotsStayExact == PoolSpec => [](PoolTypeOK /\ SlotsExact /\ CleanHandOver)
<1>1. SlotFacts /\ [PoolNext]_poolVars => SlotFacts'
  <2> SUFFICES ASSUME SlotFacts, [PoolNext]_poolVars PROVE SlotFacts'
    OBVIOUS
  <2>1. CASE UNCHANGED poolVars
    BY <2>1 DEF poolVars, SlotFacts, PoolTypeOK, SlotsExact, CleanHandOver
  <2> QED
    BY <2>1, SlotStep, CloseStep DEF PoolNext
<1>2. SlotFacts => PoolTypeOK /\ SlotsExact /\ CleanHandOver
  BY DEF SlotFacts
<1> QED
  BY SlotInit, <1>1, <1>2, PTL DEF PoolSpec

-----------------------------------------------------------------------------
(* The answers *)

\* How often a call's write was applied, and whether a COMMIT of it is still out, at each point of
\* the call.  What AnswerTruthful says of the answered calls rests on it.
CallState(c) ==
  /\ phase[c] \in {"idle", "waiting", "backoff", "begin", "body", "rollback", "rewind"} =>
       applied[c] = 0 /\ orphan[c] = "none"
  /\ phase[c] = "body" => link[on[c]] = "open"
  /\ phase[c] = "commit" =>
       /\ orphan[c] = "none"
       /\ \/ link[on[c]] = "open" /\ applied[c] = 0
          \/ link[on[c]] = "clean" /\ applied[c] = 1
  /\ phase[c] = "ok" => applied[c] = 1 /\ orphan[c] = "none"
  /\ phase[c] = "failed" => applied[c] = 0 /\ orphan[c] # "sent"
  /\ phase[c] = "unknown" => \/ applied[c] \in {0, 1} /\ orphan[c] = "none"
                             \/ applied[c] = 0 /\ orphan[c] = "sent"

CallFacts == \A c \in Callers : CallState(c)

\* The other calls' states do not depend on a step that hands c's slot over.
LEMMA OthersKeep ==
  ASSUME SlotFacts, CallFacts, NEW c \in Callers, phase[c] \in Running,
         NEW then \in Answers \cup {"backoff"}, ReleaseSlot(c, then) \/ Recycle(c, then),
         \A s \in Slots : s # on[c] => link'[s] = link[s],
         \A d \in Callers : d # c => applied'[d] = applied[d] /\ orphan'[d] = orphan[d]
  PROVE  phase'[c] = then /\ \A d \in Callers : d # c => CallState(d)'
<1> USE PoolAssumption
<1>1. on[c] \in Slots /\ on[c] # Nobody /\ "commit" \in Running /\ "body" \in Running /\ "waiting" \notin Running
  BY DEF SlotFacts, SlotsExact, PoolTypeOK, Running
<1>2. /\ phase \in [Callers -> {"idle"} \cup Waiting \cup Running \cup Answers]
      /\ on \in [Callers -> Slots \cup {Nobody}] /\ waiters \in Seq(Callers)
  BY DEF SlotFacts, PoolTypeOK
<1>3. /\ phase'[c] = then
      /\ \A d \in Callers : d # c =>
           (phase'[d] = phase[d] /\ on'[d] = on[d]) \/ (phase[d] = "waiting" /\ phase'[d] = "begin")
  <2>1. CASE phase' = [phase EXCEPT ![c] = then] /\ on' = [on EXCEPT ![c] = Nobody]
    <3>1. phase'[c] = then /\ \A d \in Callers : d # c => phase'[d] = phase[d] /\ on'[d] = on[d]
      BY <1>2, <2>1
    <3> QED
      BY <3>1
  <2>2. CASE /\ waiters # <<>>
             /\ phase' = [phase EXCEPT ![c] = then, ![Head(waiters)] = "begin"]
             /\ on' = [on EXCEPT ![c] = Nobody, ![Head(waiters)] = on[c]]
    <3> DEFINE h == Head(waiters)
    <3>1. h \in Callers /\ h \in Entries(waiters)
      BY <1>2, <2>2, TailFacts
    <3>2. phase[h] = "waiting" /\ h # c
      BY <1>1, <3>1 DEF SlotFacts, SlotsExact
    <3> HIDE DEF h
    <3>3. /\ phase' = [phase EXCEPT ![c] = then, ![h] = "begin"]
          /\ on' = [on EXCEPT ![c] = Nobody, ![h] = on[c]]
      BY <2>2 DEF h
    <3>4. /\ phase'[c] = then /\ phase'[h] = "begin"
          /\ \A d \in Callers : d # c /\ d # h => phase'[d] = phase[d] /\ on'[d] = on[d]
      BY <1>2, <3>1, <3>2, <3>3
    <3> QED
      BY <3>2, <3>4
  <2> QED
    BY <2>1, <2>2 DEF ReleaseSlot, Recycle
<1> SUFFICES ASSUME NEW d \in Callers, d # c PROVE CallState(d)'
  BY <1>3
<1>4. CallState(d)
  BY DEF CallFacts
<1>5. CASE phase[d] = "waiting" /\ phase'[d] = "begin"
  BY <1>4, <1>5 DEF CallState
<1>6. CASE phase'[d] = phase[d] /\ on'[d] = on[d]
  <2>1. CASE phase[d] \in {"body", "commit"}
    <3>1. on[d] \in Slots /\ on[d] # on[c]
      BY <1>1, <2>1 DEF SlotFacts, SlotsExact, PoolTypeOK
    <3> QED
      BY <1>4, <1>6, <2>1, <3>1 DEF CallState
  <2>2. CASE phase[d] \notin {"body", "commit"}
    BY <1>4, <1>6, <2>2 DEF CallState
  <2> QED
    BY <2>1, <2>2
<1> QED
  BY <1>3, <1>5, <1>6

\* A step that changes one call, whose slot it keeps, leaves the others as they are.
LEMMA OneKeeps ==
  ASSUME SlotFacts, CallFacts, NEW c \in Callers, on' = on,
         \A d \in Callers : d # c => phase'[d] = phase[d] /\ applied'[d] = applied[d]
                                     /\ orphan'[d] = orphan[d],
         \A s \in Slots : s # on[c] => link'[s] = link[s],
         CallState(c)'
  PROVE  CallFacts'
<1> SUFFICES ASSUME NEW d \in Callers, d # c PROVE CallState(d)'
  BY DEF CallFacts
<1>1. CallState(d)
  BY DEF CallFacts
<1>2. CASE phase[d] \in {"body", "commit"}
  <2>1. on[d] \in Slots /\ on[d] # on[c]
    BY <1>2 DEF SlotFacts, SlotsExact, PoolTypeOK, Running
  <2> QED
    BY <1>1, <1>2, <2>1 DEF CallState
<1>3. CASE phase[d] \notin {"body", "commit"}
  BY <1>1, <1>3 DEF CallState
<1> QED
  BY <1>2, <1>3

\* A step that hands c's slot over keeps what is known of every call.
LEMMA HandOverKeeps ==
  ASSUME SlotFacts, CallFacts, NEW c \in Callers, phase[c] \in Running,
         NEW then \in Answers \cup {"backoff"}, ReleaseSlot(c, then) \/ Recycle(c, then),
         \A s \in Slots : s # on[c] => link'[s] = link[s],
         \A d \in Callers : d # c => applied'[d] = applied[d] /\ orphan'[d] = orphan[d],
         phase'[c] = then => CallState(c)'
  PROVE  CallFacts'
  BY OthersKeep DEF CallFacts

\* A connection put into c's slot changes no other slot.
LEMMA RecycleElsewhere ==
  ASSUME SlotFacts, NEW c \in Callers, NEW then, Recycle(c, then)
  PROVE  \A s \in Slots : s # on[c] => link'[s] = link[s]
  BY DEF Recycle, SlotFacts, PoolTypeOK

\* Every step of a call keeps what is known of every call.
LEMMA CallStep ==
  ASSUME SlotFacts, CallFacts, NEW c \in Callers, Start(c) \/ Step(c)
  PROVE  CallFacts'
<1> USE PoolAssumption
<1>0. /\ CallState(c) /\ PoolTypeOK
      /\ phase \in [Callers -> {"idle"} \cup Waiting \cup Running \cup Answers]
      /\ link \in [Slots -> {"clean", "open", "gone"}]
      /\ applied \in [Callers -> Nat] /\ orphan \in [Callers -> {"none", "open", "sent"}]
  BY DEF CallFacts, SlotFacts, PoolTypeOK
<1>1. ASSUME phase[c] \in {"begin", "body", "rollback", "rewind", "commit"}
      PROVE  phase[c] \in Running /\ on[c] \in Slots
  BY <1>1 DEF Running, SlotFacts, SlotsExact, PoolTypeOK
<1>2. {"ok", "failed", "unknown", "backoff"} \subseteq Answers \cup {"backoff"}
  BY DEF Answers
<1>3. AfterRollback(c) \in {"failed", "backoff"}
  BY DEF AfterRollback
<1>5. CASE Acquire(c) /\ phase[c] \in {"idle", "backoff"}
  <2>1. /\ UNCHANGED <<link, orphan, applied>> /\ phase'[c] \in {"begin", "waiting"}
        /\ \A d \in Callers : d # c => phase'[d] = phase[d] /\ on'[d] = on[d]
    <3>1. on \in [Callers -> Slots \cup {Nobody}]
      BY <1>0 DEF PoolTypeOK
    <3> QED
      BY <1>0, <1>5, <3>1 DEF Acquire
  <2>2. CallState(c)'
    BY <1>0, <1>5, <2>1 DEF CallState
  <2>3. \A d \in Callers : d # c => CallState(d)'
    BY <2>1 DEF CallFacts, CallState
  <2> QED
    BY <2>2, <2>3 DEF CallFacts
<1>6. CASE Refuse(c) /\ phase[c] \in {"idle", "backoff"}
  <2>1. CallState(c)'
    BY <1>0, <1>6 DEF Refuse, CallState
  <2> QED
    BY <1>0, <1>6, <2>1, OneKeeps DEF Refuse
<1>7. CASE QueueExpires(c)
  <2>1. phase[c] = "waiting"
    BY <1>7 DEF QueueExpires, SlotFacts, SlotsExact, Entries
  <2>2. CallState(c)'
    BY <1>0, <1>7, <2>1 DEF QueueExpires, CallState
  <2> QED
    BY <1>0, <1>7, <2>2, OneKeeps DEF QueueExpires
<1>8. CASE BeginOk(c) \/ BeginRefused(c) \/ BodyEnds(c) \/ BodyFails(c) \/ Deadlocked(c)
  <2>1. /\ phase[c] \in {"begin", "body"} /\ UNCHANGED <<on, applied, orphan>>
        /\ \/ phase' = [phase EXCEPT ![c] = "body"] /\ link' = [link EXCEPT ![on[c]] = "open"]
           \/ phase' = [phase EXCEPT ![c] = "rollback"]
              /\ (link' = [link EXCEPT ![on[c]] = "open"] \/ link' = link)
           \/ phase' = [phase EXCEPT ![c] = "rewind"] /\ link' = link
           \/ phase' = [phase EXCEPT ![c] = "commit"] /\ link' = link /\ phase[c] = "body"
    BY <1>8 DEF BeginOk, BeginRefused, BodyEnds, BodyFails, Deadlocked
  <2>2. on[c] \in Slots
    BY <1>1, <2>1
  <2>3. /\ \A d \in Callers : d # c => phase'[d] = phase[d]
        /\ \A s \in Slots : s # on[c] => link'[s] = link[s]
    BY <1>0, <2>1, <2>2
  <2>4. \/ phase'[c] = "body" /\ link'[on[c]] = "open"
        \/ phase'[c] \in {"rollback", "rewind"}
        \/ phase'[c] = "commit" /\ phase[c] = "body" /\ link' = link
    <3>1. CASE phase' = [phase EXCEPT ![c] = "body"] /\ link' = [link EXCEPT ![on[c]] = "open"]
      BY <1>0, <2>2, <3>1
    <3>2. CASE \E p \in {"rollback", "rewind"} : phase' = [phase EXCEPT ![c] = p]
      BY <1>0, <3>2
    <3>3. CASE phase' = [phase EXCEPT ![c] = "commit"] /\ link' = link /\ phase[c] = "body"
      BY <1>0, <3>3
    <3> QED
      BY <2>1, <3>1, <3>2, <3>3
  <2>5. phase[c] = "body" => link[on[c]] = "open"
    BY <1>0 DEF CallState
  <2>5a. on' = on /\ applied'[c] = 0 /\ orphan'[c] = "none" /\ applied[c] = 0
    BY <1>0, <2>1 DEF CallState
  <2>6. CallState(c)'
    BY <2>4, <2>5, <2>5a DEF CallState
  <2> QED
    BY <2>1, <2>3, <2>6, OneKeeps
<1>20. CASE OrphanEnds(c)
  <2>1. /\ UNCHANGED <<phase, on, link>> /\ orphan[c] # "none" /\ orphan'[c] = "none"
        /\ \A d \in Callers : d # c => orphan'[d] = orphan[d] /\ applied'[d] = applied[d]
        /\ applied'[c] = applied[c] \/ (orphan[c] = "sent" /\ applied'[c] = applied[c] + 1)
    BY <1>0, <1>20 DEF OrphanEnds
  <2>2. phase[c] \in {"failed", "unknown"}
    BY <1>0, <2>1 DEF CallState, Waiting, Running, Answers
  <2>3. CallState(c)'
    BY <1>0, <2>1, <2>2 DEF CallState
  <2> QED
    BY <1>0, <2>1, <2>3, OneKeeps
<1>16. CASE BackendCommits(c)
  <2>1. phase[c] = "commit" /\ on[c] \in Slots /\ link[on[c]] = "open"
    BY <1>1, <1>16 DEF BackendCommits
  <2>2. /\ UNCHANGED <<phase, on, orphan>> /\ link'[on[c]] = "clean" /\ applied'[c] = applied[c] + 1
        /\ \A s \in Slots : s # on[c] => link'[s] = link[s]
        /\ \A d \in Callers : d # c => applied'[d] = applied[d]
    BY <1>0, <1>16, <2>1 DEF BackendCommits
  <2>3. CallState(c)'
    BY <1>0, <2>1, <2>2 DEF CallState
  <2> QED
    BY <1>0, <2>2, <2>3, OneKeeps
<1>9. CASE BeginFails(c)
  <2>1. /\ phase[c] \in Running /\ phase[c] = "begin" /\ Recycle(c, "failed") /\ applied' = applied
        /\ \A d \in Callers : d # c => orphan'[d] = orphan[d]
        /\ orphan'[c] \in {"none", "open"}
    BY <1>0, <1>1, <1>9 DEF BeginFails, CallState
  <2>2. phase'[c] = "failed" => CallState(c)'
    BY <1>0, <2>1 DEF CallState
  <2> QED
    BY <1>2, <2>1, <2>2, RecycleElsewhere, HandOverKeeps
<1>10. CASE BodyLost(c)
  <2>1. /\ phase[c] \in Running /\ phase[c] = "body" /\ Recycle(c, "failed") /\ applied' = applied
        /\ \A d \in Callers : d # c => orphan'[d] = orphan[d]
        /\ orphan'[c] \in {"none", "open"}
    BY <1>0, <1>1, <1>10 DEF BodyLost, Abandoned, CallState
  <2>2. phase'[c] = "failed" => CallState(c)'
    BY <1>0, <2>1 DEF CallState
  <2> QED
    BY <1>2, <2>1, <2>2, RecycleElsewhere, HandOverKeeps
<1>11. CASE RollbackFails(c)
  <2>1. /\ phase[c] \in Running /\ phase[c] \in {"rollback", "rewind"}
        /\ Recycle(c, AfterRollback(c)) /\ applied' = applied
        /\ \A d \in Callers : d # c => orphan'[d] = orphan[d]
        /\ orphan'[c] \in {"none", "open"} /\ (phase[c] = "rewind" => orphan'[c] = "none")
    BY <1>0, <1>1, <1>11 DEF RollbackFails, Abandoned, CallState
  <2>2. phase[c] # "rewind" => AfterRollback(c) = "failed"
    BY DEF AfterRollback
  <2>3. phase'[c] = AfterRollback(c) => CallState(c)'
    BY <1>0, <1>3, <2>1, <2>2 DEF CallState
  <2> QED
    BY <1>2, <1>3, <2>1, <2>3, RecycleElsewhere, HandOverKeeps
<1>12. CASE RolledBack(c)
  <2>1. /\ phase[c] \in Running /\ phase[c] \in {"rollback", "rewind"} /\ on[c] \in Slots
        /\ ReleaseSlot(c, AfterRollback(c)) /\ applied' = applied /\ orphan' = orphan
        /\ link' = [link EXCEPT ![on[c]] = "clean"]
    BY <1>1, <1>12 DEF RolledBack
  <2>2. phase'[c] = AfterRollback(c) => CallState(c)'
    BY <1>0, <1>3, <2>1 DEF CallState
  <2>3. \A s \in Slots : s # on[c] => link'[s] = link[s]
    BY <1>0, <2>1
  <2> QED
    BY <1>2, <1>3, <2>1, <2>2, <2>3, HandOverKeeps
<1>13. CASE CommitOk(c)
  <2>1. /\ phase[c] \in Running /\ phase[c] = "commit" /\ on[c] \in Slots /\ link[on[c]] = "clean"
        /\ ReleaseSlot(c, "ok") /\ applied' = applied /\ orphan' = orphan /\ link' = link
    BY <1>1, <1>13 DEF CommitOk
  <2>2. phase'[c] = "ok" => CallState(c)'
    BY <1>0, <2>1 DEF CallState
  <2> QED
    BY <1>2, <2>1, <2>2, HandOverKeeps
<1>14. CASE CommitRefused(c)
  <2>1. /\ phase[c] \in Running /\ phase[c] = "commit" /\ on[c] \in Slots /\ link[on[c]] = "open"
        /\ applied' = applied /\ orphan' = orphan
    BY <1>1, <1>14 DEF CommitRefused
  <2>2. ASSUME NEW p \in {"failed", "backoff"}, phase'[c] = p PROVE CallState(c)'
    BY <1>0, <2>1, <2>2 DEF CallState
  <2>3. ASSUME NEW p \in {"failed", "backoff"}, Recycle(c, p) PROVE CallFacts'
    BY <1>2, <2>1, <2>2, <2>3, RecycleElsewhere, HandOverKeeps
  <2>4. ASSUME link' = [link EXCEPT ![on[c]] = "clean"], ReleaseSlot(c, "failed") PROVE CallFacts'
    <3>1. \A s \in Slots : s # on[c] => link'[s] = link[s]
      BY <1>0, <2>1, <2>4
    <3> QED
      BY <1>2, <2>1, <2>2, <2>4, <3>1, HandOverKeeps
  <2> QED
    BY <1>14, <2>3, <2>4 DEF CommitRefused
<1>15. CASE CommitLost(c)
  <2>1. /\ phase[c] \in Running /\ phase[c] = "commit" /\ Recycle(c, "unknown") /\ applied' = applied
        /\ \A d \in Callers : d # c => orphan'[d] = orphan[d]
        /\ orphan'[c] = IF link[on[c]] = "open" THEN "sent" ELSE orphan[c]
    BY <1>0, <1>1, <1>15 DEF CommitLost
  <2>2. phase'[c] = "unknown" => CallState(c)'
    BY <1>0, <2>1 DEF CallState
  <2> QED
    BY <1>2, <2>1, <2>2, RecycleElsewhere, HandOverKeeps
<1> QED
  BY <1>5, <1>6, <1>7, <1>8, <1>9, <1>10, <1>11, <1>12, <1>13, <1>14, <1>15, <1>16, <1>20
     DEF Step, Start, Retry

\* An answer tells the truth (PostgresCatalogStore.attempt and runTx): a call answered "ok" was
\* committed once, one answered with an error never was and never will be, and none twice.
THEOREM AnswersTruthful == PoolSpec => []AnswerTruthful
<1>1. PoolInit => CallFacts
  BY DEF PoolInit, CallFacts, CallState
<1>2. SlotFacts /\ CallFacts /\ [PoolNext]_poolVars => CallFacts'
  <2> SUFFICES ASSUME SlotFacts, CallFacts, [PoolNext]_poolVars PROVE CallFacts'
    OBVIOUS
  <2>1. CASE ClosePool
    BY <2>1 DEF ClosePool, CallFacts, CallState
  <2>2. CASE EndPool
    <3>1. /\ link' = [s \in Slots |-> "gone"] /\ UNCHANGED <<phase, on, orphan, applied>>
          /\ \A c \in Callers : phase[c] \notin {"body", "commit"}
      BY <2>2 DEF EndPool, Running
    <3> QED
      BY <3>1 DEF CallFacts, CallState
  <2>3. CASE UNCHANGED poolVars
    BY <2>3 DEF poolVars, CallFacts, CallState
  <2> QED
    BY <2>1, <2>2, <2>3, CallStep DEF PoolNext
<1>3. SlotFacts /\ CallFacts => AnswerTruthful
  <2> SUFFICES ASSUME SlotFacts, CallFacts, NEW c \in Callers
               PROVE  /\ applied[c] <= 1
                      /\ phase[c] = "ok" => applied[c] = 1
                      /\ phase[c] \in {"failed", "backoff"} => applied[c] = 0 /\ orphan[c] # "sent"
    BY DEF AnswerTruthful
  <2>1. CallState(c) /\ phase[c] \in {"idle"} \cup Waiting \cup Running \cup Answers
    BY DEF CallFacts, SlotFacts, PoolTypeOK
  <2>2. applied[c] \in {0, 1}
    BY <2>1 DEF CallState, Waiting, Running, Answers
  <2> QED
    BY <2>1, <2>2 DEF CallState
<1>4. PoolTypeOK /\ SlotsExact /\ CleanHandOver => SlotFacts
  BY DEF SlotFacts
<1> QED
  BY <1>1, <1>2, <1>3, <1>4, SlotsStayExact, PTL DEF PoolSpec

-----------------------------------------------------------------------------
(* The hubs *)

\* The calls of the hubs are calls of the pool: whatever the registry, the hubs' locks, eviction
\* and shutdown do, the pool sees a behaviour of its own specification.
THEOREM HubImplementsPool == HubSpec => PoolSpec
<1>1. HubInit => PoolInit
  BY DEF HubInit
<1>2. [HubNext]_hubVars => [PoolNext]_poolVars
  BY DEF HubNext, hubVars, poolVars, Get, Admit, RunCall, Leave, EvictIdle, CloseRegistry, CloseHubs,
         CloseAdapter, PoolNext
<1> QED
  BY <1>1, <1>2, PTL DEF HubSpec, PoolSpec

\* In the hubs' behaviours the slots are exact, hand-overs clean and answers truthful.
THEOREM HubsKeepPool == HubSpec => [](SlotsExact /\ CleanHandOver /\ AnswerTruthful)
  BY HubImplementsPool, SlotsStayExact, AnswersTruthful, PTL

\* What the shutdown rests on: callers wait for an opening only while there is one, an opening is
\* the only holder of its hub's lock, and a hub not in the registry has nobody in line.
HubOrder ==
  /\ \A c \in Callers : stage[c] = "opening" => hubs[SessionOf[c]] = "opening"
  /\ \A x \in Sessions : hubs[x] = "opening" => Len(line[x]) = 1 /\ Head(line[x]) \in Openers
  /\ \A o \in Openers : stage[o] \in {"new", "queued", "done"}
  /\ \A o \in Openers : stage[o] = "queued" => hubs[SessionOf[o]] = "opening"
  /\ \A x \in Sessions : hubs[x] = "absent" => line[x] = <<>>
  /\ registry = "draining" => \A x \in Sessions : hubs[x] \in {"absent", "closing"}
  /\ closed => registry = "draining" /\ \A x \in Sessions : line[x] = <<>>

HubFacts == HubTypeOK /\ HubOrder

\* A call that changes only its own stage, before or after it is in line.
LEMMA StageKeeps ==
  ASSUME HubFacts, PoolTypeOK', NEW c \in Callers \ Openers, stage[c] \in {"new", "got"},
         NEW v \in {"got", "opening", "done"}, v = "opening" => hubs[SessionOf[c]] = "opening",
         stage' = [stage EXCEPT ![c] = v], UNCHANGED <<hubs, line, registry, closed>>
  PROVE  HubFacts'
<1>1. /\ stage \in [Callers -> {"new", "opening", "got", "queued", "done"}]
      /\ stage'[c] = v /\ \A d \in Callers : d # c => stage'[d] = stage[d]
  BY DEF HubFacts, HubTypeOK
<1>2. \A x \in Sessions : Entries(line[x]) = {d \in Callers : SessionOf[d] = x /\ stage[d] = "queued"}
  BY DEF HubFacts, HubTypeOK
<1>3. \A x \in Sessions : Entries(line'[x]) = {d \in Callers : SessionOf[d] = x /\ stage'[d] = "queued"}
  BY <1>1, <1>2
<1>4. stage' \in [Callers -> {"new", "opening", "got", "queued", "done"}]
  BY <1>1
<1>5. HubTypeOK'
  BY <1>3, <1>4 DEF HubFacts, HubTypeOK
<1>6. HubOrder'
  BY <1>1, HubAssumption, PoolAssumption DEF HubFacts, HubOrder
<1> QED
  BY <1>5, <1>6 DEF HubFacts

\* The line of one session changes with the calls that are in it.
LEMMA LineTyped ==
  ASSUME HubFacts, NEW x \in Sessions, NEW q \in Seq(Callers), Distinct(q),
         line' = [line EXCEPT ![x] = q],
         Entries(q) = {d \in Callers : SessionOf[d] = x /\ stage'[d] = "queued"},
         \A d \in Callers : SessionOf[d] # x => (stage'[d] = "queued" <=> stage[d] = "queued")
  PROVE  /\ line' \in [Sessions -> Seq(Callers)] /\ line'[x] = q
         /\ \A y \in Sessions : y # x => line'[y] = line[y]
         /\ \A y \in Sessions : Distinct(line'[y])
         /\ \A y \in Sessions : Entries(line'[y]) = {d \in Callers : SessionOf[d] = y /\ stage'[d] = "queued"}
<1>1. /\ line \in [Sessions -> Seq(Callers)] /\ \A y \in Sessions : Distinct(line[y])
      /\ \A y \in Sessions : Entries(line[y]) = {d \in Callers : SessionOf[d] = y /\ stage[d] = "queued"}
  BY DEF HubFacts, HubTypeOK
<1>2. /\ line' \in [Sessions -> Seq(Callers)] /\ line'[x] = q
      /\ \A y \in Sessions : y # x => line'[y] = line[y]
  BY <1>1
<1>3. \A y \in Sessions : Distinct(line'[y])
  BY <1>1, <1>2
<1>4. ASSUME NEW y \in Sessions
      PROVE  Entries(line'[y]) = {d \in Callers : SessionOf[d] = y /\ stage'[d] = "queued"}
  <2>1. CASE y = x
    BY <1>2, <2>1
  <2>2. CASE y # x
    BY <1>1, <1>2, <2>2
  <2> QED
    BY <2>1, <2>2
<1> QED
  BY <1>2, <1>3, <1>4

\* The registry hands out a hub, an opening under way or a new opening (SessionHubRegistry.get).
LEMMA GetKeeps ==
  ASSUME HubFacts, PoolTypeOK', NEW c \in Callers, Get(c)
  PROVE  HubFacts'
<1> USE PoolAssumption, HubAssumption
<1> DEFINE x == SessionOf[c]
<1>0. /\ x \in Sessions /\ c \in Callers \ Openers /\ stage[c] = "new" /\ UNCHANGED <<registry, closed>>
      /\ stage \in [Callers -> {"new", "opening", "got", "queued", "done"}]
      /\ hubs \in [Sessions -> {"absent", "opening", "open", "closing"}]
      /\ Entries(line[x]) = {d \in Callers : SessionOf[d] = x /\ stage[d] = "queued"}
  BY DEF Get, Calls, HubFacts, HubTypeOK, poolVars
<1>1. CASE \E v \in {"got", "opening", "done"} :
             /\ v = "opening" => hubs[x] = "opening"
             /\ stage' = [stage EXCEPT ![c] = v] /\ UNCHANGED <<hubs, line>>
  BY <1>0, <1>1, StageKeeps
<1>2. ASSUME registry = "open", hubs[x] = "absent", NEW o \in Openers, SessionOf[o] = x, stage[o] = "new",
             hubs' = [hubs EXCEPT ![x] = "opening"], line' = [line EXCEPT ![x] = <<o>>],
             stage' = [stage EXCEPT ![c] = "opening", ![o] = "queued"]
      PROVE  HubFacts'
  <2>1. o # c /\ o \in Callers /\ line[x] = <<>>
    BY <1>0, <1>2 DEF HubFacts, HubOrder
  <2>2. /\ Len(<<o>>) = 1 /\ Head(<<o>>) = o /\ <<o>> # <<>>
        /\ Entries(<<o>>) = {o} /\ Distinct(<<o>>) /\ <<o>> \in Seq(Callers)
    BY <2>1 DEF Entries, Distinct
  <2> HIDE DEF x
  <2>3. /\ stage'[c] = "opening" /\ stage'[o] = "queued" /\ hubs'[x] = "opening"
        /\ \A d \in Callers : d # c /\ d # o => stage'[d] = stage[d]
        /\ \A y \in Sessions : y # x => hubs'[y] = hubs[y]
    BY <1>0, <1>2, <2>1
  <2>4. \A d \in Callers : ~(SessionOf[d] = x /\ stage[d] = "queued")
    BY <1>0, <2>1, EmptyFacts
  <2>5. Entries(<<o>>) = {d \in Callers : SessionOf[d] = x /\ stage'[d] = "queued"}
    <3>1. ASSUME NEW d \in Callers, SessionOf[d] = x, stage'[d] = "queued" PROVE d = o
      BY <2>3, <2>4, <3>1
    <3>2. o \in Callers /\ SessionOf[o] = x /\ stage'[o] = "queued"
      BY <1>2, <2>1, <2>3
    <3>3. Entries(<<o>>) = {o}
      BY <2>2
    <3> QED
      BY <3>1, <3>2, <3>3
  <2>6. \A d \in Callers : SessionOf[d] # x => (stage'[d] = "queued" <=> stage[d] = "queued")
    BY <1>0, <1>2, <2>3 DEF x
  <2>7. /\ line' \in [Sessions -> Seq(Callers)] /\ line'[x] = <<o>>
        /\ \A y \in Sessions : y # x => line'[y] = line[y]
        /\ \A y \in Sessions : Distinct(line'[y])
        /\ \A y \in Sessions : Entries(line'[y]) = {d \in Callers : SessionOf[d] = y /\ stage'[d] = "queued"}
    <3>1. line' = [line EXCEPT ![x] = <<o>>]
      BY <1>2
    <3>2. x \in Sessions /\ <<o>> \in Seq(Callers) /\ Distinct(<<o>>)
      BY <1>0, <2>2
    <3> DEFINE q == <<o>>
    <3>3. /\ line' = [line EXCEPT ![x] = q] /\ q \in Seq(Callers) /\ Distinct(q)
          /\ Entries(q) = {d \in Callers : SessionOf[d] = x /\ stage'[d] = "queued"}
      BY <3>1, <3>2, <2>5
    <3> HIDE DEF q
    <3>4. /\ line' \in [Sessions -> Seq(Callers)] /\ line'[x] = q
          /\ \A y \in Sessions : y # x => line'[y] = line[y]
          /\ \A y \in Sessions : Distinct(line'[y])
          /\ \A y \in Sessions : Entries(line'[y]) = {d \in Callers : SessionOf[d] = y /\ stage'[d] = "queued"}
      BY <3>2, <3>3, <2>6, LineTyped
    <3> QED
      BY <3>4 DEF q
  <2>8. HubTypeOK'
    BY <1>0, <1>2, <2>1, <2>7 DEF HubFacts, HubTypeOK
  <2>9. ~closed'
    BY <1>0, <1>2 DEF HubFacts, HubOrder
  <2>10. \A d \in Callers : stage'[d] = "opening" => hubs'[SessionOf[d]] = "opening"
    BY <1>0, <1>2, <2>1, <2>3 DEF HubFacts, HubOrder, x
  <2>11. \A e \in Openers : stage'[e] \in {"new", "queued", "done"}
                         /\ (stage'[e] = "queued" => hubs'[SessionOf[e]] = "opening")
    BY <1>0, <1>2, <2>1, <2>3 DEF HubFacts, HubOrder, x
  <2>12. ASSUME NEW y \in Sessions
         PROVE  /\ hubs'[y] = "opening" => Len(line'[y]) = 1 /\ Head(line'[y]) \in Openers
                /\ hubs'[y] = "absent" => line'[y] = <<>>
    <3>1. CASE y = x
      BY <1>2, <2>2, <2>3, <2>7, <3>1
    <3>2. CASE y # x
      <4>1. hubs'[y] = hubs[y] /\ line'[y] = line[y]
        BY <2>3, <2>7, <3>2
      <4>2. HubOrder
        BY DEF HubFacts
      <4> QED
        BY <4>1, <4>2 DEF HubOrder
    <3> QED
      BY <3>1, <3>2
  <2>13. registry' # "draining"
    BY <1>0, <1>2
  <2>14. HubOrder'
    BY <2>9, <2>10, <2>11, <2>12, <2>13 DEF HubOrder
  <2> QED
    BY <2>8, <2>14 DEF HubFacts
<1>3. CASE /\ registry # "open" /\ stage' = [stage EXCEPT ![c] = "done"] /\ UNCHANGED <<hubs, line>>
  BY <1>1, <1>3
<1>4. CASE /\ stage' = [stage EXCEPT ![c] = IF hubs[x] = "opening" THEN "opening" ELSE "got"]
           /\ UNCHANGED <<hubs, line>>
  BY <1>1, <1>4
<1>5. CASE /\ registry = "open" /\ hubs[x] = "absent"
           /\ \E o \in Openers :
                /\ SessionOf[o] = x /\ stage[o] = "new"
                /\ hubs' = [hubs EXCEPT ![x] = "opening"]
                /\ line' = [line EXCEPT ![x] = <<o>>]
                /\ stage' = [stage EXCEPT ![c] = "opening", ![o] = "queued"]
  BY <1>2, <1>5
<1> QED
  BY <1>3, <1>4, <1>5 DEF Get

\* A call is admitted behind the earlier ones, or refused by a closing hub (SessionHub.call).
LEMMA AdmitKeeps ==
  ASSUME HubFacts, PoolTypeOK', NEW c \in Callers, Admit(c)
  PROVE  HubFacts'
<1> USE PoolAssumption, HubAssumption
<1> DEFINE x == SessionOf[c]
<1>0. /\ x \in Sessions /\ c \in Callers \ Openers /\ stage[c] = "got"
      /\ UNCHANGED <<hubs, registry, closed>>
      /\ stage \in [Callers -> {"new", "opening", "got", "queued", "done"}]
      /\ line[x] \in Seq(Callers) /\ Distinct(line[x])
      /\ Entries(line[x]) = {d \in Callers : SessionOf[d] = x /\ stage[d] = "queued"}
  <2>1. HubTypeOK /\ HubOrder
    BY DEF HubFacts
  <2>2. stage[c] = "got" /\ UNCHANGED <<hubs, registry, closed>>
    BY DEF Admit, poolVars
  <2>3. c \notin Openers
    BY <2>1, <2>2 DEF HubOrder
  <2> QED
    BY <2>1, <2>2, <2>3 DEF HubTypeOK
<1>1. CASE stage' = [stage EXCEPT ![c] = "done"] /\ line' = line
  BY <1>0, <1>1, StageKeeps
<1>2. CASE /\ hubs[x] = "open" /\ line' = [line EXCEPT ![x] = Append(line[x], c)]
           /\ stage' = [stage EXCEPT ![c] = "queued"]
  <2> DEFINE q == Append(line[x], c)
  <2>1. q \in Seq(Callers) /\ Distinct(q) /\ Entries(q) = Entries(line[x]) \cup {c} /\ q # <<>>
    BY <1>0, AppendFacts
  <2>2. stage'[c] = "queued" /\ \A d \in Callers : d # c => stage'[d] = stage[d]
    BY <1>0, <1>2
  <2>3. line' = [line EXCEPT ![x] = q]
    BY <1>2
  <2> HIDE DEF q
  <2>4. Entries(q) = {d \in Callers : SessionOf[d] = x /\ stage'[d] = "queued"}
    BY <1>0, <2>1, <2>2
  <2>5. /\ line' \in [Sessions -> Seq(Callers)] /\ line'[x] = q
        /\ \A y \in Sessions : y # x => line'[y] = line[y]
        /\ \A y \in Sessions : Distinct(line'[y])
        /\ \A y \in Sessions : Entries(line'[y]) = {d \in Callers : SessionOf[d] = y /\ stage'[d] = "queued"}
    BY <1>0, <2>1, <2>2, <2>3, <2>4, LineTyped
  <2>6. HubTypeOK'
    BY <1>0, <1>2, <2>5 DEF HubFacts, HubTypeOK
  <2>7. ~closed
    BY <1>0, <1>2 DEF HubFacts, HubOrder
  <2> HIDE DEF x
  <2>8. HubOrder'
    BY <1>0, <1>2, <2>2, <2>5, <2>7 DEF HubFacts, HubOrder
  <2> QED
    BY <2>6, <2>8 DEF HubFacts
<1> QED
  BY <1>1, <1>2 DEF Admit

\* The lock goes to the next call, and the end of an opening to all who wait for it.
LEMMA LeaveKeeps ==
  ASSUME HubFacts, PoolTypeOK', NEW c \in Callers, Leave(c)
  PROVE  HubFacts'
<1> USE PoolAssumption, HubAssumption
<1> DEFINE x == SessionOf[c]
           q == Tail(line[x])
<1>0. /\ x \in Sessions /\ stage[c] = "queued" /\ Head(line[x]) = c
      /\ UNCHANGED <<registry, closed>>
      /\ stage \in [Callers -> {"new", "opening", "got", "queued", "done"}]
      /\ hubs \in [Sessions -> {"absent", "opening", "open", "closing"}]
      /\ line[x] \in Seq(Callers) /\ Distinct(line[x])
      /\ Entries(line[x]) = {d \in Callers : SessionOf[d] = x /\ stage[d] = "queued"}
      /\ line' = [line EXCEPT ![x] = q]
  BY DEF Leave, HubFacts, HubTypeOK, poolVars
<1>1. c \in Entries(line[x]) /\ line[x] # <<>>
  BY <1>0, EmptyFacts
<1>2. q \in Seq(Callers) /\ Distinct(q) /\ Entries(q) = Entries(line[x]) \ {c}
  BY <1>0, <1>1, TailFacts
<1>3. Len(line[x]) = 1 => q = <<>>
  BY <1>0, <1>1, SingleTail
<1>4. hubs[x] # "absent" /\ ~closed
  BY <1>0, <1>1 DEF HubFacts, HubOrder
<1> HIDE DEF q
<1>5. CASE c \in Openers
  <2>1. /\ \E h \in {"open", "absent"} : hubs' = [hubs EXCEPT ![x] = h]
        /\ stage' \in [Callers -> {"new", "opening", "got", "queued", "done"}]
        /\ stage'[c] = "done"
        /\ \A d \in Callers : d # c /\ stage[d] # "opening" => stage'[d] = stage[d]
        /\ \A d \in Callers : d \in Of(x) /\ stage[d] = "opening" => stage'[d] \in {"got", "done"}
        /\ \A d \in Callers : d # c /\ d \notin Of(x) => stage'[d] = stage[d]
    BY <1>0, <1>5 DEF Leave, Of
  <2>2. hubs[x] = "opening" /\ q = <<>>
    BY <1>0, <1>3, <1>5 DEF HubFacts, HubOrder
  <2>3. \A d \in Callers : d # c => (stage'[d] = "queued" <=> stage[d] = "queued")
    BY <1>0, <2>1 DEF Of
  <2>4. Entries(q) = {d \in Callers : SessionOf[d] = x /\ stage'[d] = "queued"}
    BY <1>0, <1>2, <2>1, <2>3
  <2>5. /\ line' \in [Sessions -> Seq(Callers)] /\ line'[x] = q
        /\ \A y \in Sessions : y # x => line'[y] = line[y]
        /\ \A y \in Sessions : Distinct(line'[y])
        /\ \A y \in Sessions : Entries(line'[y]) = {d \in Callers : SessionOf[d] = y /\ stage'[d] = "queued"}
    BY <1>0, <1>2, <2>3, <2>4, LineTyped
  <2>6. hubs' \in [Sessions -> {"absent", "opening", "open", "closing"}]
        /\ hubs'[x] \in {"open", "absent"} /\ \A y \in Sessions : y # x => hubs'[y] = hubs[y]
    BY <1>0, <2>1
  <2>7. HubTypeOK'
    BY <1>0, <2>1, <2>5, <2>6 DEF HubFacts, HubTypeOK
  <2>8. registry # "draining"
    BY <1>0, <2>2 DEF HubFacts, HubOrder
  <2> HIDE DEF x
  <2>9. \A d \in Callers : stage'[d] = "opening" => stage[d] = "opening" /\ SessionOf[d] # x
    <3> SUFFICES ASSUME NEW d \in Callers, stage'[d] = "opening"
                 PROVE  stage[d] = "opening" /\ SessionOf[d] # x
      OBVIOUS
    <3>1. d # c /\ stage[d] = "opening"
      BY <2>1
    <3>2. d \notin Openers
      BY <3>1 DEF HubFacts, HubOrder
    <3> QED
      BY <2>1, <3>1, <3>2 DEF Of, Calls
  <2>10. \A o \in Openers : stage'[o] \in {"new", "queued", "done"}
                         /\ (stage'[o] = "queued" => stage[o] = "queued" /\ SessionOf[o] # x)
    <3> SUFFICES ASSUME NEW o \in Openers
                 PROVE  /\ stage'[o] \in {"new", "queued", "done"}
                        /\ stage'[o] = "queued" => stage[o] = "queued" /\ SessionOf[o] # x
      OBVIOUS
    <3>1. o \in Callers /\ o \notin Of(x) /\ stage[o] \in {"new", "queued", "done"}
      BY DEF Of, Calls, HubFacts, HubOrder
    <3>2. o # c => stage'[o] = stage[o]
      BY <2>1, <3>1
    <3>3. stage'[o] = "queued" => SessionOf[o] # x
      BY <2>2, <2>4, <3>1, EmptyFacts
    <3> QED
      BY <2>1, <3>1, <3>2, <3>3
  <2>11. HubOrder'
    BY <1>0, <1>4, <2>2, <2>5, <2>6, <2>8, <2>9, <2>10 DEF HubFacts, HubOrder
  <2> QED
    BY <2>7, <2>11 DEF HubFacts
<1>6. CASE c \notin Openers
  <2>1. /\ stage' = [stage EXCEPT ![c] = "done"] /\ hubs' = hubs
    BY <1>6 DEF Leave
  <2>2. stage'[c] = "done" /\ \A d \in Callers : d # c => stage'[d] = stage[d]
    BY <1>0, <2>1
  <2>3. Entries(q) = {d \in Callers : SessionOf[d] = x /\ stage'[d] = "queued"}
    BY <1>0, <1>2, <2>2
  <2>4. \A d \in Callers : SessionOf[d] # x => (stage'[d] = "queued" <=> stage[d] = "queued")
    BY <1>0, <2>2
  <2>5. /\ line' \in [Sessions -> Seq(Callers)] /\ line'[x] = q
        /\ \A y \in Sessions : y # x => line'[y] = line[y]
        /\ \A y \in Sessions : Distinct(line'[y])
        /\ \A y \in Sessions : Entries(line'[y]) = {d \in Callers : SessionOf[d] = y /\ stage'[d] = "queued"}
    BY <1>0, <1>2, <2>3, <2>4, LineTyped
  <2>6. HubTypeOK'
    BY <1>0, <2>1, <2>5 DEF HubFacts, HubTypeOK
  <2>7. hubs[x] # "opening"
    BY <1>0, <1>6 DEF HubFacts, HubOrder
  <2>8. HubOrder'
    BY <1>0, <1>4, <2>1, <2>2, <2>5, <2>7 DEF HubFacts, HubOrder
  <2> QED
    BY <2>6, <2>8 DEF HubFacts
<1> QED
  BY <1>5, <1>6

\* Eviction and the steps of a shutdown.
LEMMA RegistryKeeps ==
  ASSUME HubFacts, PoolTypeOK',
         (\E x \in Sessions : EvictIdle(x)) \/ CloseRegistry \/ CloseHubs \/ CloseAdapter
  PROVE  HubFacts'
<1>0. HubTypeOK /\ HubOrder
  BY DEF HubFacts
<1>1. ASSUME NEW x \in Sessions, EvictIdle(x) PROVE HubFacts'
  <2>1. /\ hubs' = [hubs EXCEPT ![x] = "absent"] /\ line[x] = <<>> /\ hubs[x] = "open" /\ registry = "open"
        /\ UNCHANGED <<line, stage, registry, closed>>
    BY <1>1 DEF EvictIdle, poolVars
  <2>2. hubs'[x] = "absent" /\ \A y \in Sessions : y # x => hubs'[y] = hubs[y]
    BY <1>0, <2>1 DEF HubTypeOK
  <2>3. HubTypeOK'
    BY <1>0, <2>1 DEF HubTypeOK
  <2>4. HubOrder'
    BY <1>0, <2>1, <2>2, PoolAssumption, HubAssumption DEF HubOrder
  <2> QED
    BY <2>3, <2>4 DEF HubFacts
<1>2. CASE CloseRegistry
  <2>1. registry' = "closing" /\ registry = "open" /\ UNCHANGED <<hubs, line, stage, closed>>
    BY <1>2 DEF CloseRegistry, poolVars
  <2> QED
    BY <1>0, <2>1 DEF HubFacts, HubTypeOK, HubOrder
<1>3. CASE CloseHubs
  <2>1. /\ registry = "closing" /\ registry' = "draining" /\ \A x \in Sessions : hubs[x] # "opening"
        /\ hubs' = [x \in Sessions |-> IF hubs[x] = "open" THEN "closing" ELSE hubs[x]]
        /\ UNCHANGED <<line, stage, closed>>
    BY <1>3 DEF CloseHubs, poolVars
  <2>2. hubs' \in [Sessions -> {"absent", "closing"}]
        /\ \A x \in Sessions : hubs'[x] = "absent" <=> hubs[x] = "absent"
    BY <1>0, <2>1 DEF HubTypeOK
  <2>3. HubTypeOK'
    BY <1>0, <2>1, <2>2 DEF HubTypeOK
  <2>4. HubOrder'
    BY <1>0, <2>1, <2>2, PoolAssumption, HubAssumption DEF HubOrder
  <2> QED
    BY <2>3, <2>4 DEF HubFacts
<1>4. CASE CloseAdapter
  <2>1. /\ registry = "draining" /\ \A x \in Sessions : hubs[x] = "closing" => line[x] = <<>>
        /\ UNCHANGED <<hubs, line, stage, registry>>
    BY <1>4 DEF CloseAdapter
  <2>2. HubTypeOK'
    BY <1>0, <2>1 DEF HubTypeOK
  <2>3. \A x \in Sessions : line[x] = <<>>
    BY <1>0, <2>1 DEF HubOrder
  <2>4. HubOrder'
    BY <1>0, <2>1, <2>3 DEF HubOrder
  <2> QED
    BY <2>2, <2>4 DEF HubFacts
<1> QED
  BY <1>1, <1>2, <1>3, <1>4

\* Every caller, hub and line of the hubs' behaviours is well typed, and in order.
LEMMA HubStays == HubSpec => []HubFacts
<1>1. HubInit => HubFacts
  <2> SUFFICES ASSUME HubInit PROVE HubFacts
    OBVIOUS
  <2>1. PoolTypeOK /\ closed = FALSE
    BY SlotInit DEF HubInit, SlotFacts, PoolInit
  <2>2. /\ hubs = [x \in Sessions |-> "absent"] /\ line = [x \in Sessions |-> <<>>] /\ registry = "open"
        /\ stage \in [Callers -> {"new", "done"}]
    BY DEF HubInit
  <2>3. Entries(<<>>) = {} /\ Distinct(<<>>) /\ <<>> \in Seq(Callers)
    BY EmptyFacts
  <2>4. HubTypeOK
    BY <2>1, <2>2, <2>3 DEF HubTypeOK
  <2>5. HubOrder
    BY <2>1, <2>2, PoolAssumption, HubAssumption DEF HubOrder
  <2> QED
    BY <2>4, <2>5 DEF HubFacts
<1>2. HubFacts /\ PoolTypeOK' /\ [HubNext]_hubVars => HubFacts'
  <2> SUFFICES ASSUME HubFacts, PoolTypeOK', [HubNext]_hubVars PROVE HubFacts'
    OBVIOUS
  <2>1. CASE UNCHANGED <<hubs, line, stage, registry, closed>>
    BY <2>1 DEF HubFacts, HubTypeOK, HubOrder
  <2>2. ASSUME NEW c \in Callers, RunCall(c) \/ (Step(c) /\ UNCHANGED <<hubs, line, stage, registry>>)
        PROVE  UNCHANGED <<hubs, line, stage, registry, closed>>
    BY <2>2 DEF RunCall, Start, Step, Acquire, Refuse, Retry, QueueExpires, BeginOk, BeginRefused,
                BeginFails, BodyEnds, BodyFails, Deadlocked, BodyLost, RolledBack, RollbackFails,
                BackendCommits, CommitOk, CommitRefused, CommitLost, OrphanEnds
  <2>3. ASSUME EndPool /\ UNCHANGED <<hubs, line, stage, registry>>
        PROVE  UNCHANGED <<hubs, line, stage, registry, closed>>
    BY <2>3 DEF EndPool
  <2>4. CASE UNCHANGED hubVars
    BY <2>1, <2>4 DEF hubVars, poolVars
  <2> QED
    BY <2>1, <2>2, <2>3, <2>4, GetKeeps, AdmitKeeps, LeaveKeeps, RegistryKeeps DEF HubNext
<1> QED
  BY <1>1, <1>2, HubImplementsPool, SlotsStayExact, PTL DEF HubSpec

\* A shutdown cuts no admitted call short (SessionHubRegistry.closeAll, then the adapter's close).
THEOREM AdapterClosesLast == HubSpec => []ClosedLast
<1>1. HubFacts => ClosedLast
  <2> SUFFICES ASSUME HubFacts, closed, NEW c \in Callers PROVE stage[c] \notin {"opening", "queued"}
    BY DEF ClosedLast
  <2>1. HubTypeOK /\ HubOrder /\ SessionOf[c] \in Sessions
    BY PoolAssumption DEF HubFacts
  <2>2. stage[c] # "opening"
    BY <2>1 DEF HubOrder
  <2>3. Entries(line[SessionOf[c]]) = {}
    BY <2>1, EmptyFacts DEF HubOrder
  <2>4. stage[c] # "queued"
    BY <2>1, <2>3 DEF HubTypeOK
  <2> QED
    BY <2>2, <2>4
<1> QED
  BY <1>1, HubStays, PTL
=============================================================================
