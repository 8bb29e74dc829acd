------------------------------ MODULE LiveFeed ------------------------------
(***************************************************************************)
(* The event feed of one browser tab: the events query's cache, kept up to *)
(* date by event.changed frames over the session socket (useSessionSocket).*)
(* A frame invalidates the query at once and opens a coalescing window;    *)
(* frames inside the window become one trailing invalidation; every open   *)
(* of the socket resynchronises.                                           *)
(*                                                                         *)
(* The query library restarts a fetch in flight when it is invalidated,    *)
(* but only if the query already has data; otherwise the invalidation      *)
(* joins the fetch in flight.  The server side of the socket is            *)
(* FrameStream, without its age-checked drop.                              *)
(***************************************************************************)
EXTENDS FrameStream

CONSTANTS Tab,        \* this tab's socket
          MaxDrops,   \* bound: lost connections
          MaxFails    \* bound: failed requests (each after its retry)

ASSUME FeedAssumption == Sockets = {Tab} /\ MaxRev \in Nat

VARIABLES
  conn,      \* down, connecting or open, as the tab sees it
  inbox,     \* frames on the connection, not yet handled
  data,      \* the revision the cached response shows, NoData before the first
  fetch,     \* the request in flight: idle, sent, or answered with a snapshot
  window,    \* the coalescing timer is running
  trailing,  \* a frame arrived inside the window
  joined,    \* history: an invalidation joined the fetch in flight
  failed,    \* history: the last fetch failed
  drops, fails

client == <<conn, inbox, data, fetch, window, trailing, joined, failed, drops, fails>>
vars == <<stream, client>>

NoData == -1
Idle == [phase |-> "idle", snap |-> NoData]
Sent == [phase |-> "sent", snap |-> NoData]

-----------------------------------------------------------------------------
\* The page mounts: the query fetches and the socket connects.
Init ==
  /\ StreamInit
  /\ conn = "connecting"
  /\ inbox = 0
  /\ data = NoData
  /\ fetch = Sent
  /\ window = FALSE
  /\ trailing = FALSE
  /\ joined = FALSE
  /\ failed = FALSE
  /\ drops = 0
  /\ fails = 0

\* A fresh request: it will read the feed after this moment.
Refetch ==
  /\ fetch' = Sent
  /\ joined' = FALSE
  /\ failed' = FALSE

\* Mutant: an invalidation never restarts the fetch in flight.
MutInvalidateJoins ==
  \/ fetch = Idle /\ Refetch
  \/ fetch # Idle /\ joined' = joined /\ UNCHANGED <<fetch, failed>>

\* Invalidating the query restarts it, or joins a first fetch in flight.
Invalidate ==
  \/ (data # NoData \/ fetch = Idle) /\ Refetch
  \/ (data = NoData /\ fetch # Idle) /\ joined' = TRUE /\ UNCHANGED <<fetch, failed>>

ServerCommits == Commit /\ UNCHANGED client

\* The upgrade attaches the socket before the tab sees it open.
ServerAttaches ==
  /\ conn = "connecting"
  /\ \/ \E n \in 1 .. rev + 1 : Attach(Tab, n) /\ UNCHANGED drops
     \/ Attach(Tab, 0) /\ drops < MaxDrops /\ drops' = drops + 1
  /\ UNCHANGED <<conn, inbox, data, fetch, window, trailing, joined, failed, fails>>

\* Mutant: the resync skips a feed that already shows something.
MutOpensGated ==
  /\ conn = "connecting" /\ Tab \in open
  /\ conn' = "open"
  /\ \/ data = NoData /\ Refetch
     \/ data # NoData /\ UNCHANGED <<fetch, joined, failed>>
  /\ UNCHANGED <<stream, inbox, data, window, trailing, drops, fails>>

\* onopen: the resync cancels a first fetch in flight, so it always refetches.
Opens ==
  /\ conn = "connecting" /\ Tab \in open
  /\ conn' = "open"
  /\ Refetch
  /\ UNCHANGED <<stream, inbox, data, window, trailing, drops, fails>>

FrameSent ==
  /\ Deliver({Tab})
  /\ inbox' = inbox + 1
  /\ UNCHANGED <<conn, data, fetch, window, trailing, joined, failed, drops, fails>>

ChannelLost ==
  /\ drops < MaxDrops
  /\ Tab \notin broken /\ Break({Tab})
  /\ drops' = drops + 1
  /\ UNCHANGED <<conn, inbox, data, fetch, window, trailing, joined, failed, fails>>

\* The connection ends: the server closed a broken socket (1012), or the network failed.
Disconnects ==
  /\ Close({Tab})
  /\ \/ Tab \in broken /\ UNCHANGED drops
     \/ Tab \notin broken /\ drops < MaxDrops /\ drops' = drops + 1
  /\ conn' = "down"
  /\ inbox' = 0
  /\ UNCHANGED <<data, fetch, window, trailing, joined, failed, fails>>

Reconnects ==
  /\ conn = "down"
  /\ conn' = "connecting"
  /\ UNCHANGED <<stream, inbox, data, fetch, window, trailing, joined, failed, drops, fails>>

\* onEventChanged: the leading frame invalidates, the rest mark the trailing one.
FrameHandled ==
  /\ conn = "open" /\ inbox > 0
  /\ inbox' = inbox - 1
  /\ window' = TRUE
  /\ \/ ~window /\ Invalidate /\ UNCHANGED trailing
     \/ window /\ trailing' = TRUE /\ UNCHANGED <<fetch, joined, failed>>
  /\ UNCHANGED <<stream, conn, data, drops, fails>>

\* onEventsWindowEnd.
WindowEnds ==
  /\ window
  /\ window' = trailing
  /\ trailing' = FALSE
  /\ \/ trailing /\ Invalidate
     \/ ~trailing /\ UNCHANGED <<fetch, joined, failed>>
  /\ UNCHANGED <<stream, conn, inbox, data, drops, fails>>

-----------------------------------------------------------------------------
\* The server answers from one snapshot of the session.
FetchAnswered ==
  /\ fetch = Sent
  /\ fetch' = [phase |-> "answered", snap |-> rev]
  /\ UNCHANGED <<stream, conn, inbox, data, window, trailing, joined, failed, drops, fails>>

Resolved ==
  /\ fetch.phase = "answered"
  /\ data' = fetch.snap
  /\ fetch' = Idle
  /\ UNCHANGED <<stream, conn, inbox, window, trailing, joined, failed, drops, fails>>

FetchFails ==
  /\ fetch # Idle /\ fails < MaxFails
  /\ fails' = fails + 1
  /\ fetch' = Idle
  /\ failed' = TRUE
  /\ UNCHANGED <<stream, conn, inbox, data, window, trailing, joined, drops>>

\* The window regains focus: an idle query refetches.
Refocused ==
  /\ fetch = Idle
  /\ Refetch
  /\ UNCHANGED <<stream, conn, inbox, data, window, trailing, drops, fails>>

Next ==
  \/ ServerCommits \/ ServerAttaches \/ FrameSent \/ ChannelLost
  \/ Opens \/ Disconnects \/ Reconnects \/ FrameHandled \/ WindowEnds
  \/ FetchAnswered \/ Resolved \/ FetchFails \/ Refocused

Spec == Init /\ [][Next]_vars

\* Timers fire, frames and answers arrive, and a broken socket is closed.  Nobody has
\* to come back to the window.
Fairness ==
  /\ WF_vars(ServerAttaches) /\ WF_vars(Opens) /\ WF_vars(Reconnects)
  /\ WF_vars(FrameSent) /\ WF_vars(FrameHandled) /\ WF_vars(WindowEnds)
  /\ WF_vars(FetchAnswered) /\ WF_vars(Resolved)
  /\ WF_vars(Tab \in broken /\ Disconnects)

FairSpec == Spec /\ Fairness

-----------------------------------------------------------------------------
\* A trailing refetch always has its timer, and nothing shown is ahead of the server.
TypeOK ==
  /\ rev \in 0 .. MaxRev
  /\ open \subseteq Sockets /\ broken \subseteq open /\ missed = {}
  /\ next \in [Sockets -> Nat]
  /\ conn \in {"down", "connecting", "open"}
  /\ inbox \in Nat
  /\ data \in Nat \cup {NoData}
  /\ fetch \in {Idle, Sent} \cup [phase : {"answered"}, snap : Nat]
  /\ window \in BOOLEAN /\ trailing \in BOOLEAN
  /\ trailing => window
  /\ data <= rev /\ fetch.snap <= rev
  /\ joined \in BOOLEAN /\ failed \in BOOLEAN

Waking ==
  \/ conn # "open" \/ Tab \in broken
  \/ next[Tab] <= rev \/ inbox > 0 \/ trailing

\* A feed that shows less than the committed events always has something to wake it: a
\* frame still on its way, a window with a trailing refetch, a connection to reopen, or a
\* fetch that will read the current state.  The exceptions are a failed request and an
\* invalidation that joined the first fetch.
StaleHasWake ==
  \/ data = rev \/ Waking
  \/ fetch = Sent \/ fetch = [phase |-> "answered", snap |-> rev]
  \/ joined \/ failed

\* Once the session goes quiet the feed shows its final state, through reconnects, lost
\* channels and bursts, unless the last fetch failed or an invalidation joined a first fetch.
QuietConverges == []<>(data = rev \/ joined \/ failed)
=============================================================================
