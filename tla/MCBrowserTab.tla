---------------------------- MODULE MCBrowserTab ----------------------------
(***************************************************************************)
(* Two pages of the browser, of which a behaviour shows one: the event     *)
(* feed (three commits, two lost connections, one failed request) and a    *)
(* batch import (one file in two parts; three sessions and three uploads   *)
(* to name, as many as the runs need).                                     *)
(***************************************************************************)
EXTENDS LiveFeed, BatchImport, TLC

CONSTANTS tabA, s1, s2, s3, u1, u2, u3, p1, p2

MCSockets == {tabA}
MCSessions == {s1, s2, s3}
MCUploads == {u1, u2, u3}
MCParts == {p1, p2}

VARIABLE side

\* A page that shows all there is.
FeedShown ==
  /\ rev = 0 /\ open = {Tab} /\ broken = {} /\ missed = {} /\ next = [s \in Sockets |-> 1]
  /\ conn = "open" /\ inbox = 0 /\ data = 0 /\ fetch = Idle /\ window = FALSE /\ trailing = FALSE
  /\ joined = FALSE /\ failed = FALSE /\ drops = 0 /\ fails = 0

SidesInit ==
  /\ ImportInit
  /\ (side = "feed" /\ Init) \/ (side = "import" /\ FeedShown)

SidesNext ==
  \/ side = "feed" /\ Next /\ UNCHANGED <<side, importVars>>
  \/ side = "import" /\ ImportNext /\ UNCHANGED <<side, vars>>

\* A page that shows all there is and an import that has not begun have nothing fair to do.
SidesSpec ==
  /\ SidesInit /\ [][SidesNext]_<<side, vars, importVars>>
  /\ Fairness /\ ImportFairness
=============================================================================
