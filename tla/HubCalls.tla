------------------------------- MODULE HubCalls -------------------------------
(***************************************************************************)
(* The session hubs of one process and the calls made to them.             *)
(*                                                                         *)
(* A hub is opened by the first caller that asks for it, once for all who  *)
(* ask meanwhile, with a transaction of its own; its calls then run one at *)
(* a time in order of arrival, each as one transaction on the slots of     *)
(* SlotPool.  An idle hub is evicted.  A shutdown lets the openings finish *)
(* and the admitted calls drain, and closes the adapter last.              *)
(***************************************************************************)
EXTENDS SlotPool

CONSTANTS Openers,   \* the callers that open a hub; one opens it once
          Casts      \* bound: the sets of callers of which one shows up

ASSUME HubAssumption == Openers \subseteq Writing /\ Casts \subseteq SUBSET Callers

VARIABLES
  hubs,    \* per session: its hub in the registry
  line,    \* per session: the hub's FIFO lock, its holder first
  stage,   \* per caller: what it waits for outside the pool
  registry \* open, closing (it waits for openings) or draining (it waits for the hubs)

hubVars == <<hubs, line, stage, registry, poolVars>>

Calls == Callers \ Openers
Of(x) == {c \in Calls : SessionOf[c] = x}

-----------------------------------------------------------------------------
HubInit ==
  /\ PoolInit
  /\ hubs = [x \in Sessions |-> "absent"]
  /\ line = [x \in Sessions |-> <<>>]
  /\ \E cast \in Casts : stage = [c \in Callers |-> IF c \in cast THEN "new" ELSE "done"]
  /\ registry = "open"

\* SessionHubRegistry.get: the open hub, the opening under way, or a new opening.
Get(c) ==
  LET x == SessionOf[c]
  IN /\ c \in Calls /\ stage[c] = "new"
     /\ \/ /\ registry # "open"
           /\ stage' = [stage EXCEPT ![c] = "done"]
           /\ UNCHANGED <<hubs, line>>
        \/ /\ registry = "open" /\ hubs[x] # "absent"
           /\ stage' = [stage EXCEPT ![c] = IF hubs[x] = "opening" THEN "opening" ELSE "got"]
           /\ UNCHANGED <<hubs, line>>
        \/ /\ registry = "open" /\ hubs[x] = "absent"
           /\ \E o \in Openers :
                /\ SessionOf[o] = x /\ stage[o] = "new"
                /\ hubs' = [hubs EXCEPT ![x] = "opening"]
                /\ line' = [line EXCEPT ![x] = <<o>>]
                /\ stage' = [stage EXCEPT ![c] = "opening", ![o] = "queued"]
     /\ UNCHANGED <<registry, poolVars>>

\* SessionHub.call: refused on a closing hub, else admitted behind the earlier calls.
Admit(c) ==
  LET x == SessionOf[c]
  IN /\ stage[c] = "got"
     /\ IF hubs[x] = "open"
        THEN /\ line' = [line EXCEPT ![x] = Append(@, c)]
             /\ stage' = [stage EXCEPT ![c] = "queued"]
        ELSE /\ stage' = [stage EXCEPT ![c] = "done"]
             /\ UNCHANGED line
     /\ UNCHANGED <<hubs, registry, poolVars>>

\* The lock's holder runs its transaction.
RunCall(c) ==
  /\ stage[c] = "queued" /\ Head(line[SessionOf[c]]) = c
  /\ Start(c)
  /\ UNCHANGED <<hubs, line, stage, registry>>

\* Mutant: a call that fails keeps the lock.
MutLeave(c) ==
  LET x == SessionOf[c]
      waiting == {d \in Of(x) : stage[d] = "opening"}
      opened == phase[c] = "ok"
  IN /\ stage[c] = "queued" /\ Head(line[x]) = c /\ phase[c] \in Answers
     /\ line' = IF opened THEN [line EXCEPT ![x] = Tail(@)] ELSE line
     /\ IF c \in Openers
        THEN /\ hubs' = [hubs EXCEPT ![x] = IF opened THEN "open" ELSE "absent"]
             /\ stage' = [d \in Callers |-> IF d = c THEN "done"
                                            ELSE IF d \notin waiting THEN stage[d]
                                            ELSE IF opened THEN "got" ELSE "done"]
        ELSE stage' = [stage EXCEPT ![c] = "done"] /\ UNCHANGED hubs
     /\ UNCHANGED <<registry, poolVars>>

\* The transaction is over: the lock is released, and an opening ends for all who wait for it.
Leave(c) ==
  LET x == SessionOf[c]
      waiting == {d \in Of(x) : stage[d] = "opening"}
      opened == phase[c] = "ok"
  IN /\ stage[c] = "queued" /\ Head(line[x]) = c /\ phase[c] \in Answers
     /\ line' = [line EXCEPT ![x] = Tail(@)]
     /\ IF c \in Openers
        THEN /\ hubs' = [hubs EXCEPT ![x] = IF opened THEN "open" ELSE "absent"]
             /\ stage' = [d \in Callers |-> IF d = c THEN "done"
                                            ELSE IF d \notin waiting THEN stage[d]
                                            ELSE IF opened THEN "got" ELSE "done"]
        ELSE stage' = [stage EXCEPT ![c] = "done"] /\ UNCHANGED hubs
     /\ UNCHANGED <<registry, poolVars>>

\* evictIdle: ten minutes without a call, in which whoever got the hub has used it.
EvictIdle(x) ==
  /\ hubs[x] = "open" /\ line[x] = <<>> /\ registry = "open"
  /\ \A c \in Of(x) : stage[c] # "got"
  /\ hubs' = [hubs EXCEPT ![x] = "absent"]
  /\ UNCHANGED <<line, stage, registry, poolVars>>

-----------------------------------------------------------------------------
\* closeAll: no hub is handed out any more ...
CloseRegistry ==
  /\ registry = "open"
  /\ registry' = "closing"
  /\ UNCHANGED <<hubs, line, stage, poolVars>>

\* Mutant: the registry collects its hubs without waiting for those still opening.
MutCloseHubs ==
  /\ registry = "closing"
  /\ registry' = "draining"
  /\ hubs' = [x \in Sessions |-> IF hubs[x] = "open" THEN "closing" ELSE hubs[x]]
  /\ UNCHANGED <<line, stage, poolVars>>

\* ... the openings under way finish, and the hubs refuse new calls ...
CloseHubs ==
  /\ registry = "closing" /\ \A x \in Sessions : hubs[x] # "opening"
  /\ registry' = "draining"
  /\ hubs' = [x \in Sessions |-> IF hubs[x] = "open" THEN "closing" ELSE hubs[x]]
  /\ UNCHANGED <<line, stage, poolVars>>

\* ... the calls they admitted drain through the locks, and the adapter is closed.
CloseAdapter ==
  /\ registry = "draining"
  /\ \A x \in Sessions : hubs[x] = "closing" => line[x] = <<>>
  /\ ClosePool
  /\ UNCHANGED <<hubs, line, stage, registry>>

HubNext ==
  \/ \E c \in Callers :
       \/ Get(c) \/ Admit(c) \/ RunCall(c) \/ Leave(c)
       \/ Step(c) /\ UNCHANGED <<hubs, line, stage, registry>>
  \/ \E x \in Sessions : EvictIdle(x)
  \/ CloseRegistry \/ CloseHubs \/ CloseAdapter
  \/ EndPool /\ UNCHANGED <<hubs, line, stage, registry>>

HubSpec == HubInit /\ [][HubNext]_hubVars

\* What the process does for a caller whatever the database does: it runs what is ready,
\* and the timers of the call fire.
CallerStep(c) ==
  \/ Admit(c) \/ RunCall(c) \/ Leave(c)
  \/ Timers(c) /\ UNCHANGED <<hubs, line, stage, registry>>

HubFairness == \A c \in Callers : WF_hubVars(CallerStep(c))

HubFairSpec == HubSpec /\ HubFairness

-----------------------------------------------------------------------------
\* A hub's line holds the calls admitted to it, or its opening, each once.
HubTypeOK ==
  /\ PoolTypeOK
  /\ hubs \in [Sessions -> {"absent", "opening", "open", "closing"}]
  /\ line \in [Sessions -> Seq(Callers)]
  /\ stage \in [Callers -> {"new", "opening", "got", "queued", "done"}]
  /\ registry \in {"open", "closing", "draining"}
  /\ \A x \in Sessions : Distinct(line[x])
  /\ \A x \in Sessions : Entries(line[x]) = {c \in Callers : SessionOf[c] = x /\ stage[c] = "queued"}

\* No admitted call is cut short by the shutdown: the adapter is closed only when every
\* call that a hub admitted has been answered, openings included, and no caller waits for one.
ClosedLast ==
  closed => \A c \in Callers : stage[c] \notin {"opening", "queued"}

\* Every caller that asks for a hub is answered, in whatever way, although the database may
\* never answer, transactions deadlock, slots are scarce and hubs are evicted or closed.
EveryCallAnswered == \A c \in Calls : (stage[c] # "new") ~> (stage[c] = "done")
=============================================================================
