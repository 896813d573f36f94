----------------------------- MODULE Supervisor -----------------------------
(***************************************************************************)
(* caliband, the background-fleet daemon of caliban-supervisor.            *)
(*                                                                         *)
(* The registry of agent records and the table of worker pids sit behind   *)
(* one async mutex.  A Spawn or a Respawn is several critical sections     *)
(* with file-system work and a process launch between them; Kill, Rm,      *)
(* Drain and ReportStatus are one critical section each.  Every launched   *)
(* worker has a monitor task that waits for the child outside the lock.    *)
(* The daemon may stop (Shutdown, SIGTERM or a crash) between any two      *)
(* steps: its tasks and its memory are lost, the manifests and the worker  *)
(* processes are not.                                                      *)
(*                                                                         *)
(* An agent id is a fresh uuid prefix and is never used twice, so one name *)
(* stands for the id, for its worktree and for the one worker process that *)
(* is ever launched for it.                                                *)
(***************************************************************************)
EXTENDS Naturals, FiniteSets

CONSTANTS
    Ids,            \* names handed out by new_id
    Handlers,       \* concurrent control connections
    PortBase,       \* NetworkConfig.agent_port_base
    MaxPort,        \* u16::MAX
    MaxRequests,    \* bound: Spawn and Respawn requests accepted
    MaxRestarts,    \* bound: daemon starts after the first one
    MaxWriteFails,  \* bound: manifest writes that fail
    NoId            \* "no agent" in a handler's fields

ASSUME ConstantsAssumption ==
    /\ PortBase \in Nat /\ MaxPort \in Nat /\ PortBase > 0
    /\ MaxRequests \in Nat /\ MaxRestarts \in Nat /\ MaxWriteFails \in Nat
    /\ NoId \notin Ids

VARIABLES
    up,         \* the daemon process is serving
    reg,        \* Registry.by_id: the status of each record, "None" if absent
    disk,       \* status in the manifest on disk, "None" if absent
    dirty,      \* ids whose latest manifest write failed
    tracked,    \* Registry.pids: ids with a tracked worker pid
    born,       \* names handed out by the running daemon process
    hand,       \* what each control connection is executing
    monitor,    \* program counter of each worker's monitor task
    worker,     \* the worker process of each id
    sig,        \* ids whose worker was sent SIGTERM
    isolated,   \* ids whose spec has isolation_worktree
    worktrees,  \* worktrees that exist on disk
    leftBehind, \* history: worktrees that a clean-up did not remove
    used,       \* names already handed out
    port,       \* TCP port of each id's endpoint, 0 if none
    nextPort,   \* next_agent_port, the monotonic offset
    requests, restarts, wfails    \* what the bounds count

regVars  == <<reg, disk, dirty, wfails, tracked, born>>
hostVars == <<monitor, worker, sig>>
nameVars == <<isolated, worktrees, leftBehind, used, port, nextPort>>
vars == <<up, regVars, hand, hostVars, nameVars, requests, restarts>>

Live     == {"Spawning", "Running", "Idle"}
Terminal == {"Killed", "Drained", "Done", "Failed", "Crashed"}
Status   == Live \cup Terminal
Stopped  == {"Killed", "Done", "Failed", "Crashed"}

\* A connection that is not executing a request of several critical sections.
NoRequest == [pc |-> "idle", old |-> NoId, new |-> NoId, iso |-> FALSE]

HandlerState ==
    {NoRequest}
    \cup [pc : {"prepare"}, old : Ids \cup {NoId}, new : {NoId}, iso : BOOLEAN]
    \cup [pc : {"endpoint"}, old : Ids \cup {NoId}, new : Ids, iso : BOOLEAN]
    \cup [pc : {"register"}, old : {NoId}, new : Ids, iso : BOOLEAN]
    \cup [pc : {"swap"}, old : Ids, new : Ids, iso : BOOLEAN]
    \cup [pc : {"launch", "track", "launchFailed"},
          old : Ids \cup {NoId}, new : Ids, iso : BOOLEAN]

Init ==
    /\ up = TRUE
    /\ reg = [i \in Ids |-> "None"] /\ disk = [i \in Ids |-> "None"]
    /\ dirty = {} /\ wfails = 0 /\ tracked = {} /\ born = {}
    /\ hand = [h \in Handlers |-> NoRequest]
    /\ monitor = [i \in Ids |-> "none"] /\ worker = [i \in Ids |-> "none"]
    /\ sig = {} /\ isolated = {} /\ worktrees = {} /\ leftBehind = {} /\ used = {}
    /\ port = [i \in Ids |-> 0] /\ nextPort = 0
    /\ requests = 0 /\ restarts = 0

----------------------------------------------------------------------------
(* The registry's mutators.                                                *)

\* The in-memory table becomes r and the manifests of ids are rewritten or
\* removed.  A failed write is logged and ignored, so memory and disk part.
Persist(r, ids) ==
    /\ reg' = r
    /\ \E failed \in SUBSET ids :
          /\ failed # {} => wfails < MaxWriteFails
          /\ wfails' = IF failed = {} THEN wfails ELSE wfails + 1
          /\ disk' = [i \in Ids |-> IF i \in ids \ failed THEN r[i] ELSE disk[i]]
          /\ dirty' = (dirty \ ids) \cup failed

\* Variant: an idle worker's exit is not honoured.
SetStatusIfRunningNotIdle(i, to) ==
    IF reg[i] \in {"Spawning", "Running"}
    THEN Persist([reg EXCEPT ![i] = to], {i})
    ELSE UNCHANGED <<reg, disk, dirty, wfails>>

\* set_status_if_running: only a live status moves; a late report of an exit
\* or of a launch leaves Killed, Drained and removed agents alone.
SetStatusIfRunning(i, to) ==
    IF reg[i] \in Live
    THEN Persist([reg EXCEPT ![i] = to], {i})
    ELSE UNCHANGED <<reg, disk, dirty, wfails>>

\* set_status: unguarded, but a no-op (NotFound) for an id that is gone.
SetStatus(i, to) ==
    IF reg[i] # "None"
    THEN Persist([reg EXCEPT ![i] = to], {i})
    ELSE UNCHANGED <<reg, disk, dirty, wfails>>

\* signal_worker: SIGTERM to the tracked pid, if there is one.
SignalWorkers(ids) == sig' = sig \cup (ids \cap tracked)

\* cleanup_worktree: best effort.  A removal that fails is ignored, and with
\* CALIBAN_KEEP_WORKTREES set none is tried; nobody comes back to it.
CleanupWorktree(i) ==
    \/ worktrees' = worktrees \ {i} /\ UNCHANGED leftBehind
    \/ i \in worktrees /\ leftBehind' = leftBehind \cup {i} /\ UNCHANGED worktrees

----------------------------------------------------------------------------
(* Spawn and Respawn.                                                      *)

\* A Spawn request is read off connection h.
SpawnRequest(h) ==
    /\ up /\ hand[h].pc = "idle" /\ requests < MaxRequests
    /\ \E iso \in BOOLEAN :
          hand' = [hand EXCEPT ![h] =
                      [pc |-> "prepare", old |-> NoId, new |-> NoId, iso |-> iso]]
    /\ requests' = requests + 1
    /\ UNCHANGED <<up, regVars, hostVars, nameVars, restarts>>

\* A Respawn request: the first critical section only reads the old spec.
RespawnLookup(h, i) ==
    /\ up /\ hand[h].pc = "idle" /\ requests < MaxRequests
    /\ reg[i] # "None"
    /\ hand' = [hand EXCEPT ![h] =
                  [pc |-> "prepare", old |-> i, new |-> NoId, iso |-> (i \in isolated)]]
    /\ requests' = requests + 1
    /\ UNCHANGED <<up, regVars, hostVars, nameVars, restarts>>

\* The source does not resolve or the worktree cannot be created: the reply
\* is an error and nothing was touched, the port counter included.
PrepareFails(h) ==
    /\ up /\ hand[h].pc = "prepare"
    /\ hand' = [hand EXCEPT ![h] = NoRequest]
    /\ UNCHANGED <<up, regVars, hostVars, nameVars, requests, restarts>>

\* Variant: the port is numbered by the agents now live.
PortOfLiveIndex(offset) == PortBase + Cardinality({i \in Ids : reg[i] \in Live})

\* next_endpoint: the offset always grows, also when it is out of range.
PortOf(offset) == PortBase + offset

\* Source resolved and worktree created, outside any lock.
Prepare(h, i) ==
    /\ up /\ hand[h].pc = "prepare" /\ i \notin used
    /\ used' = used \cup {i} /\ born' = born \cup {i}
    /\ IF hand[h].iso
       THEN isolated' = isolated \cup {i} /\ worktrees' = worktrees \cup {i}
       ELSE UNCHANGED <<isolated, worktrees>>
    /\ hand' = [hand EXCEPT ![h].new = i, ![h].pc = "endpoint"]
    /\ UNCHANGED <<up, reg, disk, dirty, wfails, tracked, hostVars, leftBehind, port,
                   nextPort, requests, restarts>>

\* The endpoint comes last, so that a failed preparation burns no port.
TakeEndpoint(h) ==
    /\ up /\ hand[h].pc = "endpoint" /\ PortOf(nextPort) <= MaxPort
    /\ nextPort' = nextPort + 1
    /\ port' = [port EXCEPT ![hand[h].new] = PortOf(nextPort)]
    /\ hand' = [hand EXCEPT ![h].pc = IF hand[h].old = NoId THEN "register" ELSE "swap"]
    /\ UNCHANGED <<up, regVars, hostVars, isolated, worktrees, leftBehind, used,
                   requests, restarts>>

\* The port range is exhausted: the worktree just created is given back.
PortsExhausted(h) ==
    /\ up /\ hand[h].pc = "endpoint" /\ PortOf(nextPort) > MaxPort
    /\ nextPort' = nextPort + 1
    /\ CleanupWorktree(hand[h].new)
    /\ hand' = [hand EXCEPT ![h] = NoRequest]
    /\ UNCHANGED <<up, regVars, hostVars, isolated, used, port, requests, restarts>>

\* Registry::register of a Spawn.
Register(h) ==
    LET i == hand[h].new IN
    /\ up /\ hand[h].pc = "register"
    /\ Persist([reg EXCEPT ![i] = "Spawning"], {i})
    /\ hand' = [hand EXCEPT ![h].pc = "launch"]
    /\ UNCHANGED <<up, tracked, born, hostVars, nameVars, requests, restarts>>

\* The second critical section of a Respawn: the old record and its pid are
\* dropped and the new record registered at once.
Swap(h) ==
    LET i == hand[h].new
        o == hand[h].old
    IN
    /\ up /\ hand[h].pc = "swap" /\ reg[o] # "None"
    /\ Persist([reg EXCEPT ![o] = "None", ![i] = "Spawning"], {o, i})
    /\ tracked' = tracked \ {o}
    /\ hand' = [hand EXCEPT ![h].pc = "launch"]
    /\ UNCHANGED <<up, born, hostVars, nameVars, requests, restarts>>

\* Variant: the worktree made for the lost respawn stays behind.
SwapLostLeaks(h) ==
    /\ up /\ hand[h].pc = "swap" /\ reg[hand[h].old] = "None"
    /\ hand' = [hand EXCEPT ![h] = NoRequest]
    /\ UNCHANGED <<up, regVars, hostVars, nameVars, requests, restarts>>

\* The old record vanished between the two critical sections.
SwapLost(h) ==
    /\ up /\ hand[h].pc = "swap" /\ reg[hand[h].old] = "None"
    /\ CleanupWorktree(hand[h].new)
    /\ hand' = [hand EXCEPT ![h] = NoRequest]
    /\ UNCHANGED <<up, regVars, hostVars, isolated, used, port, nextPort,
                   requests, restarts>>

\* The worker process is created on the blocking pool, without the lock.
LaunchOk(h) ==
    /\ up /\ hand[h].pc = "launch"
    /\ worker' = [worker EXCEPT ![hand[h].new] = "alive"]
    /\ hand' = [hand EXCEPT ![h].pc = "track"]
    /\ UNCHANGED <<up, regVars, monitor, sig, nameVars, requests, restarts>>

LaunchError(h) ==
    /\ up /\ hand[h].pc = "launch"
    /\ hand' = [hand EXCEPT ![h].pc = "launchFailed"]
    /\ UNCHANGED <<up, regVars, hostVars, nameVars, requests, restarts>>

\* The pid is tracked and the status flipped in one critical section; then
\* the monitor task is spawned and the reply written.
Track(h) ==
    LET i == hand[h].new IN
    /\ up /\ hand[h].pc = "track"
    /\ tracked' = tracked \cup {i}
    /\ SetStatusIfRunning(i, "Running")
    /\ monitor' = [monitor EXCEPT ![i] = "wait"]
    /\ hand' = [hand EXCEPT ![h] = NoRequest]
    /\ UNCHANGED <<up, born, worker, sig, nameVars, requests, restarts>>

LaunchFailed(h) ==
    LET i == hand[h].new IN
    /\ up /\ hand[h].pc = "launchFailed"
    /\ SetStatus(i, "Failed")
    /\ CleanupWorktree(i)
    /\ hand' = [hand EXCEPT ![h] = NoRequest]
    /\ UNCHANGED <<up, tracked, born, hostVars, isolated, used, port, nextPort,
                   requests, restarts>>

----------------------------------------------------------------------------
(* Requests of one critical section.                                       *)

\* The signal comes first: it needs a tracked pid, not a record.
Kill(i) ==
    /\ up
    /\ SignalWorkers({i})
    /\ SetStatus(i, "Killed")
    /\ UNCHANGED <<up, tracked, born, hand, monitor, worker, nameVars,
                   requests, restarts>>

\* Rm: refused for an agent that is not stopped, unless forced; a forced
\* removal signals the worker first.
Rm(i, force) ==
    /\ up
    /\ force \/ reg[i] \in Stopped
    /\ SignalWorkers(IF force THEN {i} ELSE {})
    /\ SetStatus(i, "None")
    /\ tracked' = IF reg[i] = "None" THEN tracked ELSE tracked \ {i}
    /\ UNCHANGED <<up, born, hand, monitor, worker, nameVars, requests, restarts>>

\* Variant: idle workers are marked but not signalled.
DrainSkipsIdle ==
    LET live == {i \in Ids : reg[i] \in Live} IN
    /\ up /\ live # {}
    /\ SignalWorkers({i \in live : reg[i] # "Idle"})
    /\ Persist([i \in Ids |-> IF i \in live THEN "Drained" ELSE reg[i]], live)
    /\ UNCHANGED <<up, tracked, born, hand, monitor, worker, nameVars,
                   requests, restarts>>

Drain ==
    LET live == {i \in Ids : reg[i] \in Live} IN
    /\ up /\ live # {}
    /\ SignalWorkers(live)
    /\ Persist([i \in Ids |-> IF i \in live THEN "Drained" ELSE reg[i]], live)
    /\ UNCHANGED <<up, tracked, born, hand, monitor, worker, nameVars,
                   requests, restarts>>

\* Variant: the report is believed whatever the record says.
ReportStatusUnguarded(i, to) ==
    /\ up /\ worker[i] # "none"
    /\ reg[i] \notin {"None", to}
    /\ Persist([reg EXCEPT ![i] = to], {i})
    /\ UNCHANGED <<up, tracked, born, hand, hostVars, nameVars, requests, restarts>>

\* ReportStatus, sent by a worker over a connection of its own.  The report
\* may be delivered after the worker has exited.
ReportStatus(i, to) ==
    /\ up /\ worker[i] # "none"
    /\ reg[i] \in {"Running", "Idle"} /\ reg[i] # to
    /\ Persist([reg EXCEPT ![i] = to], {i})
    /\ UNCHANGED <<up, tracked, born, hand, hostVars, nameVars, requests, restarts>>

----------------------------------------------------------------------------
(* Worker processes and their monitors.                                    *)

WorkerExits(i) ==
    /\ worker[i] = "alive"
    /\ worker' = [worker EXCEPT ![i] = "exited"]
    /\ UNCHANGED <<up, regVars, hand, monitor, sig, nameVars, requests, restarts>>

\* Variant: the pid stays in the table after the child is gone.
MonitorRecordsKeepsPid(i) ==
    /\ up /\ monitor[i] = "wait" /\ worker[i] = "exited"
    /\ \E terminal \in {"Done", "Failed"} : SetStatusIfRunning(i, terminal)
    /\ monitor' = [monitor EXCEPT ![i] = "cleanup"]
    /\ UNCHANGED <<up, tracked, born, hand, worker, sig, nameVars, requests, restarts>>

\* child.wait() has returned, outside the lock; the exit code decides between
\* Done and Failed, and the pid is forgotten in the same critical section.
MonitorRecords(i) ==
    /\ up /\ monitor[i] = "wait" /\ worker[i] = "exited"
    /\ \E terminal \in {"Done", "Failed"} : SetStatusIfRunning(i, terminal)
    /\ tracked' = tracked \ {i}
    /\ monitor' = [monitor EXCEPT ![i] = "cleanup"]
    /\ UNCHANGED <<up, born, hand, worker, sig, nameVars, requests, restarts>>

MonitorCleans(i) ==
    /\ up /\ monitor[i] = "cleanup"
    /\ CleanupWorktree(i)
    /\ monitor' = [monitor EXCEPT ![i] = "none"]
    /\ UNCHANGED <<up, regVars, hand, worker, sig, isolated, used, port, nextPort,
                   requests, restarts>>

----------------------------------------------------------------------------
(* The daemon process.                                                     *)

\* Shutdown, SIGTERM or a crash: tasks and memory go, children stay.
Stop ==
    /\ up /\ up' = FALSE
    /\ reg' = [i \in Ids |-> "None"] /\ tracked' = {} /\ born' = {}
    /\ hand' = [h \in Handlers |-> NoRequest]
    /\ monitor' = [i \in Ids |-> "none"]
    /\ UNCHANGED <<disk, dirty, wfails, worker, sig, nameVars, requests, restarts>>

\* sweep_crashed: Spawning and Running records of the previous process.
Swept(d) == [i \in Ids |-> IF d[i] \in {"Spawning", "Running"} THEN "Crashed" ELSE d[i]]

\* A new process loads the manifests, sweeps them before it accepts the
\* first client, and starts its port counter over.
Restart ==
    /\ ~up /\ restarts < MaxRestarts
    /\ up' = TRUE /\ restarts' = restarts + 1
    /\ Persist(Swept(disk), {i \in Ids : Swept(disk)[i] # disk[i]})
    /\ nextPort' = 0
    /\ UNCHANGED <<tracked, born, hand, hostVars, isolated, worktrees, leftBehind, used,
                   port, requests>>

----------------------------------------------------------------------------

HandlerStep(h) ==
    \/ PrepareFails(h) \/ \E i \in Ids : Prepare(h, i)
    \/ TakeEndpoint(h) \/ PortsExhausted(h)
    \/ Register(h) \/ Swap(h) \/ SwapLost(h)
    \/ LaunchOk(h) \/ LaunchError(h) \/ Track(h) \/ LaunchFailed(h)

MonitorStep(i) == MonitorRecords(i) \/ MonitorCleans(i)

Client ==
    \/ \E h \in Handlers : SpawnRequest(h)
    \/ \E h \in Handlers, i \in Ids : RespawnLookup(h, i)
    \/ \E i \in Ids : Kill(i)
    \/ \E i \in Ids, force \in BOOLEAN : Rm(i, force)
    \/ Drain

Next ==
    \/ Client
    \/ \E h \in Handlers : HandlerStep(h)
    \/ \E i \in Ids : MonitorStep(i)
    \/ \E i \in Ids, to \in {"Running", "Idle"} : ReportStatus(i, to)
    \/ \E i \in Ids : WorkerExits(i)
    \/ Stop
    \/ Restart

Spec == Init /\ [][Next]_vars

\* The runtime polls every ready task, and the registry mutex is fair: a
\* connection's handler and a monitor that can take a step take it.
Fairness ==
    /\ \A h \in Handlers : WF_vars(HandlerStep(h))
    /\ \A i \in Ids : WF_vars(MonitorStep(i))

FairSpec == Spec /\ Fairness

----------------------------------------------------------------------------
(* Properties.                                                             *)

\* The variables hold what the daemon's structures hold.
TypeOK ==
    /\ up \in BOOLEAN
    /\ reg \in [Ids -> Status \cup {"None"}]
    /\ disk \in [Ids -> Status \cup {"None"}]
    /\ dirty \subseteq Ids /\ tracked \subseteq Ids /\ born \subseteq Ids
    /\ hand \in [Handlers -> HandlerState]
    /\ monitor \in [Ids -> {"none", "wait", "cleanup"}]
    /\ worker \in [Ids -> {"none", "alive", "exited"}]
    /\ sig \subseteq Ids /\ isolated \subseteq Ids
    /\ worktrees \subseteq Ids /\ leftBehind \subseteq Ids /\ used \subseteq Ids
    /\ port \in [Ids -> Nat] /\ nextPort \in Nat
    /\ requests \in Nat /\ restarts \in Nat /\ wfails \in Nat

\* A handler in flight has prepared, or is launching, agent i.
Handled(i) == \E h \in Handlers : hand[h].new = i

\* A record of this daemon process that is listed as live has a handler
\* launching its worker or a monitor waiting for it: nobody is left Spawning,
\* Running or Idle with no task that will ever finalise it, whatever Kill, Rm,
\* Respawn, Drain and late status reports do meanwhile.
LiveRecordHasOwner ==
    \A i \in born : reg[i] \in Live => Handled(i) \/ monitor[i] = "wait"

\* Within one daemon process no path loses sight of a worktree: one that exists
\* is held by the handler that created it or by the monitor that will remove it,
\* or its one clean-up was tried and did not remove it.  Used-up ports, a lost
\* Respawn and a failed launch hand it to the clean-up.  And none is
\* taken from under a process: the error paths of Spawn and Respawn and the
\* clean-up after an exit never remove the worktree of a running worker.
WorktreesAccounted ==
    /\ \A i \in worktrees \cap born :
          Handled(i) \/ monitor[i] # "none" \/ i \in leftBehind
    /\ \A i \in isolated : worker[i] = "alive" => i \in worktrees

\* Two agents of one daemon process never advertise the same port, and no
\* port leaves the range, also after the range has run out: an agent that gets
\* as far as a record has one.
PortsDistinct ==
    /\ \A i \in born : reg[i] # "None" => port[i] # 0
    /\ \A i, j \in {k \in born : port[k] # 0} :
        /\ port[i] \in PortBase .. MaxPort
        /\ i # j => port[i] # port[j]

\* A worker that runs under a Running or Idle record of this process gets SIGTERM
\* in the very step that ends the record (Killed, Drained or removed): the pid
\* lookup, the signal and the status change cannot be separated by another
\* request or by an exit.  The exception is a Respawn, which drops the pid of a
\* worker that still runs.
StopSignalsWorker ==
    [][\A i \in born :
          /\ reg[i] \in {"Running", "Idle"} /\ reg'[i] \in {"Killed", "Drained", "None"}
          /\ worker[i] = "alive" /\ up'
          => i \in sig' \/ \E h \in Handlers : Swap(h) /\ hand[h].old = i]_vars

\* The daemon implements the lifecycle it promises, across restarts: the
\* listing is the registry while it runs, and what the next daemon will load
\* and sweep while it does not.
Lifecycle ==
    INSTANCE AgentLifecycle WITH status <- (IF up THEN reg ELSE Swept(disk)),
                                 stale <- dirty

\* Every step is a step of the promised lifecycle: no late report, launch or
\* exit revives an agent that has ended, and a restart loses nothing that was
\* written.
ImplementsLifecycle == Lifecycle!Spec

\* A worker that has exited is eventually off the pid table and its record
\* no longer live, unless the daemon stops first.
ExitIsRecorded ==
    \A i \in Ids :
        (up /\ worker[i] = "exited" /\ i \in born) ~>
            (~up \/ (i \notin tracked /\ reg[i] \notin Live))
=============================================================================
