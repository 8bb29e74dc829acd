----------------------------- MODULE FrameStream -----------------------------
(***************************************************************************)
(* What the session's live frames promise a socket, whichever process      *)
(* serves it: commits are numbered by the session revision; a socket is    *)
(* attached somewhere in that stream and receives every later frame once,  *)
(* in commit order, until it is closed.  Two things may go wrong, both     *)
(* visible here: a socket breaks (its process lost the channel) and is     *)
(* then closed, and a single frame may be dropped by the receiver's age    *)
(* check.  FrameBus implements this; LiveFeed builds on it.                *)
(***************************************************************************)
EXTENDS Integers

CONSTANTS Sockets,
          MaxRev      \* bound: the number of commits

VARIABLES
  rev,       \* commits so far: the session revision
  open,      \* attached sockets
  broken,    \* attached sockets whose process lost the channel
  next,      \* per socket: the next frame it is due, 0 when closed or broken
  missed     \* attached sockets that a dropped frame passed by

stream == <<rev, open, broken, next, missed>>

StreamInit ==
  /\ rev = 0
  /\ open = {}
  /\ broken = {}
  /\ next = [s \in Sockets |-> 0]
  /\ missed = {}

Commit ==
  /\ rev < MaxRev
  /\ rev' = rev + 1
  /\ UNCHANGED <<open, broken, next, missed>>

\* Sockets S are due nothing from now on.
Undue(S) == [s \in Sockets |-> IF s \in S THEN 0 ELSE next[s]]

\* A socket joins the stream at n; frames committed before it may still be on their
\* way to it.  Where the channel is lost it joins broken.
Attach(s, n) ==
  /\ s \notin open
  /\ open' = open \cup {s}
  /\ next' = [next EXCEPT ![s] = n]
  /\ broken' = IF n = 0 THEN broken \cup {s} ELSE broken
  /\ UNCHANGED <<rev, missed>>

Due(s) == s \in open /\ s \notin broken /\ next[s] <= rev

Advanced(S) == [s \in Sockets |-> IF s \in S THEN next[s] + 1 ELSE next[s]]

\* The next frame reaches the sockets of one process ...
Deliver(S) ==
  /\ \A s \in S : Due(s)
  /\ next' = Advanced(S)
  /\ UNCHANGED <<rev, open, broken, missed>>

\* ... or is dropped there.
Drop(S) ==
  /\ \A s \in S : Due(s)
  /\ next' = Advanced(S)
  /\ missed' = missed \cup S
  /\ UNCHANGED <<rev, open, broken>>

Break(S) ==
  /\ S \subseteq open
  /\ broken' = broken \cup S
  /\ next' = Undue(S)
  /\ UNCHANGED <<rev, open, missed>>

Close(S) ==
  /\ S \subseteq open
  /\ open' = open \ S
  /\ broken' = broken \ S
  /\ next' = Undue(S)
  /\ missed' = missed \ S
  /\ UNCHANGED rev

StreamNext ==
  \/ Commit
  \/ \E s \in Sockets, n \in 0 .. rev + 1 : Attach(s, n)
  \/ \E S \in SUBSET Sockets : Deliver(S) \/ Drop(S) \/ Break(S) \/ Close(S)

StreamSpec == StreamInit /\ [][StreamNext]_stream
=============================================================================
