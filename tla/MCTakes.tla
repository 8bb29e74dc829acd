------------------------------ MODULE MCTakes ------------------------------
(***************************************************************************)
(* A recorded take, of which a behaviour shows one part: the chunk upload  *)
(* queue of the browser (two chunks, the recorder's tab and a second one,  *)
(* three events), the audio on the server (two windows, one of them        *)
(* uploaded twice, a WAV, one merge, a sync-from-disk call, a lost commit  *)
(* answer and a crash), and the lease of the generation runs that read it  *)
(* (three runs over two processes).                                        *)
(***************************************************************************)
EXTENDS ChunkUploads, RecordingAudio, RunLease, TLC

CONSTANTS u1, u2, u3, m1, w1, w2, r1, r2, r3, p1, p2

MCWindows == {w1, w2}
MCUploads == {u1, u2, u3}
MCWindowOf == u1 :> w1 @@ u2 :> w2 @@ u3 :> w1
MCMerges == {m1}
MCWav == {u1}
MCRuns == {r1, r2, r3}
MCProcesses == {p1, p2}
\* Up to the names of runs and processes: all runs in one process, or one of them elsewhere.
MCHosts == {[r \in MCRuns |-> p1], [r \in MCRuns |-> IF r = r3 THEN p2 ELSE p1]}

VARIABLE side

NoRuns ==
  /\ time = MaxTime /\ row = NoRow /\ slot = {} /\ timer = {} /\ renewing = {} /\ stray = {}
  /\ phase = [r \in Runs |-> "dead"]
  /\ host = [r \in Runs |-> p1]
  /\ promise = [r \in Runs |-> 0]

SidesInit ==
  /\ ChunkInit /\ AudioInit
  /\ \/ side \in {"browser", "server"} /\ NoRuns
     \/ side = "lease" /\ Init /\ host \in MCHosts

SidesNext ==
  \/ side = "browser" /\ ChunkNext /\ UNCHANGED <<side, audioVars, vars>>
  \/ side = "server" /\ AudioNext /\ UNCHANGED <<side, chunkVars, vars>>
  \/ side = "lease" /\ Next /\ UNCHANGED <<side, chunkVars, audioVars>>

SidesSpec == SidesInit /\ [][SidesNext]_<<side, chunkVars, audioVars, vars>>
=============================================================================
