------------------------------- MODULE FrameBus -------------------------------
(***************************************************************************)
(* The session frame bus of the server processes: a write transaction      *)
(* publishes its frames on a Postgres NOTIFY channel before it commits,    *)
(* every process listens on the channel and sends what arrives to the      *)
(* sockets attached to its own hub.                                        *)
(*                                                                         *)
(* A transaction holds the session's row lock; its body may be run again   *)
(* after a deadlock, and it may fail.  A process may lose its listener     *)
(* connection (what is sent meanwhile is gone) or die.  Receivers drop     *)
(* frames whose send time is before their own first LISTEN or too far from *)
(* their clock.  Process p's clock runs ClockOffset[p] units ahead.        *)
(***************************************************************************)
EXTENDS Integers, Sequences, FiniteSets

CONSTANTS Processes, Sockets,
          Writers,      \* write transactions, each made in some process
          ClockOffset,
          MaxAge,       \* FRAME_BUS_MAX_SKEW_MS
          MaxRev,       \* bound: commits
          MaxTime,      \* bound: true time stops here
          MaxLosses,    \* bound: listener losses and process deaths
          MaxAttaches   \* bound: socket attachments

NoProcess == "none"

ASSUME BusAssumption ==
  /\ NoProcess \notin Processes
  /\ MaxAge \in Nat
  /\ ClockOffset \in [Processes -> 0 .. MaxAge]
  /\ MaxRev \in Nat /\ MaxTime \in Nat

VARIABLES
  time,
  rev,       \* the committed revision
  active,    \* writers in a transaction: they hold the session's row lock
  held,      \* per writer: the frame its running attempt published, if any
  wire,      \* per process: notifications on their way to its listener
  up,        \* processes whose listener is connected
  booted,    \* per process: its clock at its first LISTEN, NotBooted before
  at,        \* per socket: the process it is attached to
  got,       \* per socket: the frames it received since it attached
  since,     \* history: per socket, the revision committed when it attached
  sent,      \* history: per revision, its frame's send time
  missed,    \* history: attached sockets that a dropped frame passed by
  losses, attaches

busVars == <<time, rev, active, held, wire, up, booted, at, got, since, sent, missed, losses, attaches>>

NotBooted == -1
Clock(p) == time + ClockOffset[p]
SocketsOf(p) == {s \in Sockets : at[s] = p}

-----------------------------------------------------------------------------
BusInit ==
  /\ time = 0
  /\ rev = 0
  /\ active = {}
  /\ held = [w \in Writers |-> <<>>]
  /\ wire = [p \in Processes |-> <<>>]
  /\ up = {}
  /\ booted = [p \in Processes |-> NotBooted]
  /\ at = [s \in Sockets |-> NoProcess]
  /\ got = [s \in Sockets |-> <<>>]
  /\ since = [s \in Sockets |-> 0]
  /\ sent = <<>>
  /\ missed = {}
  /\ losses = 0
  /\ attaches = 0

Tick ==
  /\ time < MaxTime
  /\ time' = time + 1
  /\ UNCHANGED <<rev, active, held, wire, up, booted, at, got, since, sent, missed, losses, attaches>>

Begin(w) ==
  /\ active \subseteq {w}
  /\ active' = {w}
  /\ held' = [held EXCEPT ![w] = <<>>]
  /\ UNCHANGED <<time, rev, wire, up, booted, at, got, since, sent, missed, losses, attaches>>

\* After the body and the projection: the frame is sealed with the advanced revision and
\* published inside the transaction.
Publish(w, p) ==
  /\ w \in active /\ held[w] = <<>> /\ rev < MaxRev
  /\ booted[p] # NotBooted
  /\ held' = [held EXCEPT ![w] = << [rev |-> rev + 1, t |-> Clock(p)] >>]
  /\ UNCHANGED <<time, rev, active, wire, up, booted, at, got, since, sent, missed, losses, attaches>>

\* COMMIT: the revision and the notifications become visible together, the
\* notifications in commit order to every connected listener.
Commit(w) ==
  /\ held[w] # <<>>
  /\ rev' = Head(held[w]).rev
  /\ sent' = Append(sent, Head(held[w]).t)
  /\ wire' = [p \in Processes |-> IF p \in up THEN wire[p] \o held[w] ELSE wire[p]]
  /\ active' = active \ {w}
  /\ held' = [held EXCEPT ![w] = <<>>]
  /\ UNCHANGED <<time, up, booted, at, got, since, missed, losses, attaches>>

\* The transaction fails: its notifications roll back with it.
Abort(w) ==
  /\ w \in active
  /\ active' = active \ {w}
  /\ held' = [held EXCEPT ![w] = <<>>]
  /\ UNCHANGED <<time, rev, wire, up, booted, at, got, since, sent, missed, losses, attaches>>

-----------------------------------------------------------------------------
\* Mutant: a re-listen keeps the sockets.
MutListenKeeps(p) ==
  /\ p \notin up
  /\ up' = up \cup {p}
  /\ booted' = IF booted[p] = NotBooted THEN [booted EXCEPT ![p] = Clock(p)] ELSE booted
  /\ UNCHANGED <<time, rev, active, held, wire, at, got, since, sent, missed, losses, attaches>>

\* LISTEN succeeds: the first time the guard starts; later, frames were lost, so
\* every socket is closed (1012).
Listen(p) ==
  /\ p \notin up
  /\ up' = up \cup {p}
  /\ IF booted[p] = NotBooted
     THEN booted' = [booted EXCEPT ![p] = Clock(p)] /\ UNCHANGED at
     ELSE at' = [s \in Sockets |-> IF at[s] = p THEN NoProcess ELSE at[s]] /\ UNCHANGED booted
  /\ missed' = missed \ {s \in Sockets : at'[s] = NoProcess}
  /\ UNCHANGED <<time, rev, active, held, wire, got, since, sent, losses, attaches>>

ListenerLost(p) ==
  /\ p \in up /\ losses < MaxLosses
  /\ losses' = losses + 1
  /\ up' = up \ {p}
  /\ wire' = [wire EXCEPT ![p] = <<>>]
  /\ UNCHANGED <<time, rev, active, held, booted, at, got, since, sent, missed, attaches>>

\* A process dies; its sockets close and its next start listens anew.
ProcessDies(p) ==
  /\ booted[p] # NotBooted /\ losses < MaxLosses
  /\ losses' = losses + 1
  /\ up' = up \ {p}
  /\ booted' = [booted EXCEPT ![p] = NotBooted]
  /\ wire' = [wire EXCEPT ![p] = <<>>]
  /\ at' = [s \in Sockets |-> IF at[s] = p THEN NoProcess ELSE at[s]]
  /\ missed' = missed \ SocketsOf(p)
  /\ UNCHANGED <<time, rev, active, held, got, since, sent, attaches>>

\* A browser's socket attaches to the session's hub of a process that listens for
\* HTTP, which it does only after its first LISTEN.
Attach(s, p) ==
  /\ at[s] = NoProcess /\ booted[p] # NotBooted /\ attaches < MaxAttaches
  /\ attaches' = attaches + 1
  /\ at' = [at EXCEPT ![s] = p]
  /\ got' = [got EXCEPT ![s] = <<>>]
  /\ since' = [since EXCEPT ![s] = rev]
  /\ UNCHANGED <<time, rev, active, held, wire, up, booted, sent, missed, losses>>

Detach(s) ==
  /\ at[s] # NoProcess
  /\ at' = [at EXCEPT ![s] = NoProcess]
  /\ missed' = missed \ {s}
  /\ UNCHANGED <<time, rev, active, held, wire, up, booted, got, since, sent, losses, attaches>>

\* The receiver's age check.
Admits(p, t) == t >= booted[p] /\ t - Clock(p) \in -MaxAge .. MaxAge

\* Mutant: a message the guard rejects is not taken off the channel.
MutReceiveStuck(p) ==
  /\ wire[p] # <<>>
  /\ Admits(p, Head(wire[p]).t)
  /\ wire' = [wire EXCEPT ![p] = Tail(@)]
  /\ got' = [s \in Sockets |-> IF at[s] = p THEN Append(got[s], Head(wire[p]).rev) ELSE got[s]]
  /\ UNCHANGED <<time, rev, active, held, up, booted, at, since, sent, missed, losses, attaches>>

\* The listener hands over the next notification: it is sent to every attached socket,
\* or dropped.
Receive(p) ==
  /\ wire[p] # <<>>
  /\ wire' = [wire EXCEPT ![p] = Tail(@)]
  /\ \/ /\ Admits(p, Head(wire[p]).t)
        /\ got' = [s \in Sockets |-> IF at[s] = p THEN Append(got[s], Head(wire[p]).rev)
                                                  ELSE got[s]]
        /\ UNCHANGED missed
     \/ /\ ~Admits(p, Head(wire[p]).t)
        /\ missed' = missed \cup SocketsOf(p)
        /\ UNCHANGED got
  /\ UNCHANGED <<time, rev, active, held, up, booted, at, since, sent, losses, attaches>>

-----------------------------------------------------------------------------
BusNext ==
  \/ Tick
  \/ \E w \in Writers : Begin(w) \/ Commit(w) \/ Abort(w) \/ \E p \in Processes : Publish(w, p)
  \/ \E p \in Processes : Listen(p) \/ ListenerLost(p) \/ ProcessDies(p) \/ Receive(p)
  \/ \E s \in Sockets : Detach(s) \/ \E p \in Processes : Attach(s, p)

BusSpec == BusInit /\ [][BusNext]_busVars

\* A listener reconnects and drains what arrives for it.
BusFairness == \A p \in Processes : WF_busVars(Listen(p)) /\ WF_busVars(Receive(p))

BusFairSpec == BusSpec /\ BusFairness

-----------------------------------------------------------------------------
Dropped(p, r) ==
  \/ sent[r] < booted[p]
  \/ sent[r] + MaxAge < Clock(p)

\* A frame never goes missing silently: every frame committed since a socket attached was
\* received, is on its way, failed the receiver's age check, or the process's listener is
\* down and the socket will be closed when it returns.
NoSilentGap ==
  \A s \in Sockets :
    at[s] \in up =>
      \A r \in since[s] + 1 .. rev :
        \/ \E i \in 1 .. Len(got[s]) : got[s][i] = r
        \/ \E i \in 1 .. Len(wire[at[s]]) : wire[at[s]][i].rev = r
        \/ Dropped(at[s], r)

\* "Every frame ... SHALL reach every socket attached to that session in any server process"
\* and a receiver drops "a message sent before its own listener first started": a frame that
\* is not older than the age limit, committed after the socket attached, is not dropped.
EveryFrameReaches ==
  \A s \in Sockets :
    at[s] \in up =>
      \A r \in since[s] + 1 .. rev :
        \/ \E i \in 1 .. Len(got[s]) : got[s][i] = r
        \/ \E i \in 1 .. Len(wire[at[s]]) : wire[at[s]][i].rev = r
        \/ sent[r] + MaxAge < Clock(at[s])

\* A socket is never left waiting: it is up to date or closed, again and again, although
\* listeners are lost with notifications on their way.
SettlesOrCloses ==
  \A s \in Sockets : []<>(at[s] = NoProcess \/ (at[s] \in up /\ wire[at[s]] = <<>>))

-----------------------------------------------------------------------------
\* The abstract stream of each socket.
NextDue(p) == IF wire[p] = <<>> THEN rev + 1 ELSE Head(wire[p]).rev

Stream == INSTANCE FrameStream WITH
  open   <- {s \in Sockets : at[s] # NoProcess},
  broken <- {s \in Sockets : at[s] # NoProcess /\ at[s] \notin up},
  next   <- [s \in Sockets |-> IF at[s] \in up THEN NextDue(at[s]) ELSE 0],
  missed <- missed

\* The bus implements the stream the web client is written against: one gapless ordered
\* stream per socket, up to an age-checked drop or a break that ends in a close.
StreamImplemented == Stream!StreamSpec
=============================================================================
