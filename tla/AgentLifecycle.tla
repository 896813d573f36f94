--------------------------- MODULE AgentLifecycle ---------------------------
(***************************************************************************)
(* What caliband promises to a client of the fleet, without its tasks,     *)
(* locks and processes: how the status that `caliban agents list` shows    *)
(* for an agent may change, across daemon restarts too.  Supervisor is     *)
(* shown to implement it.                                                  *)
(***************************************************************************)
EXTENDS FiniteSets

CONSTANT Ids

VARIABLES
    status,   \* the listed status of each agent, "None" if it is not listed
    stale     \* agents whose last change did not reach the disk

vars == <<status, stale>>

Active  == {"Spawning", "Running", "Idle"}
Ended   == {"Killed", "Drained", "Done", "Failed", "Crashed"}
Listing == Active \cup Ended \cup {"None"}

Init == status = [i \in Ids |-> "None"] /\ stale = {}

\* Agents `ids` change to f and their manifests are rewritten, some perhaps in vain.
Becomes(f, ids) ==
    /\ status' = [i \in Ids |-> IF i \in ids THEN f[i] ELSE status[i]]
    /\ stale' \in {(stale \ ids) \cup failed : failed \in SUBSET ids}

Move(i, from, to) ==
    /\ status[i] \in from
    /\ Becomes([j \in Ids |-> to], {i})

Listed == Listing \ {"None"}

Register(i) == Move(i, {"None"}, "Spawning")
Start(i)    == Move(i, Active, "Running")
Park(i)     == Move(i, {"Running"}, "Idle")
Finish(i)   == \E end \in {"Done", "Failed"} : Move(i, Active, end)
\* A launch that fails is recorded over whatever the record says by then.
FailLaunch(i) == Move(i, Listed, "Failed")
Kill(i)     == Move(i, Listed, "Killed")
Remove(i)   == Move(i, Listed, "None")

\* Respawn: the old agent leaves the list in the step that adds the new one.
Replace(o, n) ==
    /\ status[o] # "None" /\ status[n] = "None"
    /\ Becomes([j \in Ids |-> IF j = n THEN "Spawning" ELSE "None"], {o, n})

\* Drain takes every active agent at once.
Drain == Becomes([j \in Ids |-> "Drained"], {i \in Ids : status[i] \in Active})

\* The daemon stops: the next one will list what the disk says, with agents
\* that were Spawning or Running shown as Crashed.
DaemonStops ==
    /\ status' \in [Ids -> Listing]
    /\ \A i \in Ids \ stale :
          status'[i] = IF status[i] \in {"Spawning", "Running"} THEN "Crashed" ELSE status[i]
    /\ UNCHANGED stale

\* The next daemon's sweep writes its Crashed records back.
DaemonStarts ==
    /\ UNCHANGED status
    /\ stale' \subseteq Ids

Next ==
    \/ \E i \in Ids : \/ Register(i) \/ Start(i) \/ Park(i) \/ Finish(i)
                      \/ FailLaunch(i) \/ Kill(i) \/ Remove(i)
    \/ \E o, n \in Ids : Replace(o, n)
    \/ Drain
    \/ DaemonStops
    \/ DaemonStarts

Spec == Init /\ [][Next]_vars
=============================================================================
