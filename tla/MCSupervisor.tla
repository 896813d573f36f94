---------------------------- MODULE MCSupervisor ----------------------------
(* Supervisor on small instances.  The constraints cut off only steps of   *)
(* clients and failures, of which nothing is assumed.                      *)
EXTENDS Supervisor

CONSTANTS
    First,      \* the id that is handed out first
    Last        \* the id that is handed out last

\* Ids are interchangeable, so one order of handing them out is enough.  (As a
\* symmetry set this would not be sound for the temporal property.)
InOrder ==
    /\ used # {} => First \in used
    /\ Last \in used => used = Ids

\* The first agent has a worktree; the others may have one.
FirstIsolated ==
    used = {} => \A h \in Handlers : hand[h].pc = "prepare" => hand[h].iso

\* A worktree is left behind where no manifest write failed and no daemon restarted.
OneFault == leftBehind # {} => restarts = 0 /\ wfails = 0

\* A third request, which finds the ports used up, meets a daemon that has seen
\* neither a restart nor a failed write, whose workers have ended and that does
\* nothing else.
LastAlone ==
    requests = 3 =>
        /\ restarts = 0 /\ wfails = 0
        /\ nextPort >= 2
        /\ \A i \in Ids : monitor[i] = "none"
        /\ \A g, h \in Handlers : hand[g].pc # "idle" /\ hand[h].pc # "idle" => g = h
=============================================================================
