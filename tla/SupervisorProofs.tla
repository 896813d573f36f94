-------------------------- MODULE SupervisorProofs --------------------------
(***************************************************************************)
(* caliband for any number of agents, connections, restarts and failed     *)
(* writes: its types, that every live record has a task that will finalise *)
(* it, that two agents never advertise one port, what becomes of worktrees *)
(* and of the workers a client stops, and that the daemon implements       *)
(* AgentLifecycle.                                                         *)
(***************************************************************************)
EXTENDS Supervisor, TLAPS

\* A name that was not handed out has no record, in memory or on disk, and no
\* handler works on it.
NamesFresh ==
    /\ \A i \in Ids \ used : reg[i] = "None" /\ disk[i] = "None"
    /\ \A h \in Handlers : hand[h].new \in used \cup {NoId}

\* Two handlers never prepare or launch the same agent.
HandlersApart ==
    \A g, h \in Handlers : g # h /\ hand[g].new = hand[h].new => hand[g].new = NoId

\* An agent has no record before its handler registers it.
Unregistered == {"endpoint", "register", "swap"}

UnregisteredAbsent ==
    \A h \in Handlers : hand[h].pc \in Unregistered => reg[hand[h].new] = "None"

\* A stopped daemon has no tasks and no names of its own.
StoppedIsEmpty ==
    ~up => born = {} /\ \A h \in Handlers : hand[h] = NoRequest

\* Ports are handed out in order, and between the naming of an agent and its
\* registration.
PortsInOrder ==
    /\ \A i \in born : port[i] # 0 =>
          port[i] \in PortBase .. MaxPort /\ port[i] < PortBase + nextPort
    /\ \A h \in Handlers : hand[h].pc \in {"register", "swap"} => port[hand[h].new] # 0
    /\ \A i \in Ids \ used : port[i] = 0

IndInv ==
    /\ TypeOK /\ NamesFresh /\ HandlersApart /\ UnregisteredAbsent /\ StoppedIsEmpty
    /\ LiveRecordHasOwner

----------------------------------------------------------------------------
(* Types.                                                                  *)

Statuses == Status \cup {"None"}

\* The part of the type invariant that the registry's mutators change.
RegistryOK ==
    /\ reg \in [Ids -> Statuses] /\ disk \in [Ids -> Statuses]
    /\ dirty \subseteq Ids /\ wfails \in Nat

\* What is in nobody's hands but the operating system's and the bookkeeping.
HostOK ==
    /\ up \in BOOLEAN
    /\ tracked \subseteq Ids /\ born \subseteq Ids
    /\ monitor \in [Ids -> {"none", "wait", "cleanup"}]
    /\ worker \in [Ids -> {"none", "alive", "exited"}]
    /\ sig \subseteq Ids /\ isolated \subseteq Ids
    /\ worktrees \subseteq Ids /\ leftBehind \subseteq Ids /\ used \subseteq Ids
    /\ port \in [Ids -> Nat] /\ nextPort \in Nat
    /\ requests \in Nat /\ restarts \in Nat

HandlersOK == hand \in [Handlers -> HandlerState]

LEMMA TypeOKParts == TypeOK <=> RegistryOK /\ HostOK /\ HandlersOK
BY DEF TypeOK, RegistryOK, HostOK, HandlersOK, Statuses

\* A write that may fail keeps the tables typed.
LEMMA PersistTyping ==
    ASSUME RegistryOK, NEW r \in [Ids -> Statuses], NEW ids \in SUBSET Ids, Persist(r, ids)
    PROVE  RegistryOK' /\ reg' = r
BY DEF RegistryOK, Persist

\* The guarded and the unguarded status change keep them too.
LEMMA SetStatusTyping ==
    ASSUME RegistryOK, NEW i \in Ids, NEW to \in Statuses,
           SetStatus(i, to) \/ SetStatusIfRunning(i, to)
    PROVE  RegistryOK'
<1>1. [reg EXCEPT ![i] = to] \in [Ids -> Statuses] /\ {i} \in SUBSET Ids
    BY DEF RegistryOK
<1>2. CASE Persist([reg EXCEPT ![i] = to], {i})
    BY <1>1, <1>2, PersistTyping
<1>3. CASE UNCHANGED <<reg, disk, dirty, wfails>>
    BY <1>3 DEF RegistryOK
<1> QED BY <1>2, <1>3 DEF SetStatus, SetStatusIfRunning

\* Where a handler can be, and with which agents.
LEMMA HandlerCases ==
    ASSUME NEW r \in HandlerState
    PROVE  /\ r.pc = "idle" => r.new = NoId
           /\ r.pc = "prepare" => r.new = NoId /\ r.old \in Ids \cup {NoId} /\ r.iso \in BOOLEAN
           /\ r.pc \in {"endpoint", "register", "swap", "launch", "track", "launchFailed"} =>
                 r.new \in Ids
           /\ r.pc = "swap" => r.old \in Ids
BY DEF HandlerState, NoRequest

\* The steps that leave the registry's tables alone.
Quiet ==
    \/ \E h \in Handlers : \/ SpawnRequest(h) \/ PrepareFails(h) \/ TakeEndpoint(h)
                           \/ PortsExhausted(h) \/ SwapLost(h)
                           \/ LaunchOk(h) \/ LaunchError(h)
    \/ \E h \in Handlers, i \in Ids : RespawnLookup(h, i) \/ Prepare(h, i)
    \/ \E i \in Ids : WorkerExits(i) \/ MonitorCleans(i)

\* The steps that call a mutator of the registry.
Mutates ==
    \/ \E h \in Handlers : Register(h) \/ Swap(h) \/ Track(h) \/ LaunchFailed(h)
    \/ \E i \in Ids : Kill(i) \/ MonitorRecords(i)
    \/ \E i \in Ids, force \in BOOLEAN : Rm(i, force)
    \/ \E i \in Ids, to \in {"Running", "Idle"} : ReportStatus(i, to)
    \/ Drain \/ Stop \/ Restart

LEMMA NextCases == Next <=> Quiet \/ Mutates
BY DEF Next, Client, HandlerStep, MonitorStep, Quiet, Mutates

LEMMA QuietRegistry == Quiet => UNCHANGED <<reg, disk, dirty, wfails>>
BY DEF Quiet, SpawnRequest, PrepareFails, TakeEndpoint, PortsExhausted, SwapLost, LaunchOk,
       LaunchError, RespawnLookup, Prepare, WorkerExits, MonitorCleans, regVars

LEMMA SweptTyping ==
    ASSUME NEW d \in [Ids -> Statuses] PROVE Swept(d) \in [Ids -> Statuses]
BY DEF Swept, Statuses, Status, Terminal

LEMMA StepRegistry == TypeOK /\ [Next]_vars => RegistryOK'
<1> SUFFICES ASSUME TypeOK, [Next]_vars PROVE RegistryOK'
    OBVIOUS
<1> RegistryOK /\ HandlersOK
    BY TypeOKParts
<1>1. CASE UNCHANGED vars
    BY <1>1 DEF vars, regVars, RegistryOK
<1>2. CASE Quiet
    BY <1>2, QuietRegistry DEF RegistryOK
<1>3. ASSUME NEW h \in Handlers, Register(h) \/ Swap(h) \/ Track(h) \/ LaunchFailed(h)
      PROVE  RegistryOK'
  <2> DEFINE i == hand[h].new
             o == hand[h].old
  <2>1. i \in Ids /\ (hand[h].pc = "swap" => o \in Ids)
    <3>1. hand[h] \in HandlerState
        BY DEF HandlersOK
    <3>2. hand[h].pc \in {"register", "swap", "track", "launchFailed"}
        BY <1>3 DEF Register, Swap, Track, LaunchFailed
    <3> QED BY <3>1, <3>2, HandlerCases
  <2>2. CASE Register(h)
    <3>1. [reg EXCEPT ![i] = "Spawning"] \in [Ids -> Statuses] /\ {i} \in SUBSET Ids
        BY <2>1 DEF RegistryOK, Statuses, Status, Live
    <3> QED BY <2>2, <3>1, PersistTyping DEF Register
  <2>3. CASE Swap(h)
    <3>1. /\ [reg EXCEPT ![o] = "None", ![i] = "Spawning"] \in [Ids -> Statuses]
          /\ {o, i} \in SUBSET Ids
        BY <2>1, <2>3 DEF Swap, RegistryOK, Statuses, Status, Live
    <3> QED BY <2>3, <3>1, PersistTyping DEF Swap
  <2>4. CASE Track(h) \/ LaunchFailed(h)
      BY <2>1, <2>4, SetStatusTyping DEF Track, LaunchFailed, Statuses, Status, Live, Terminal
  <2> QED BY <1>3, <2>2, <2>3, <2>4
<1>4. ASSUME NEW i \in Ids,
             \/ Kill(i) \/ MonitorRecords(i) \/ \E force \in BOOLEAN : Rm(i, force)
      PROVE  RegistryOK'
    BY <1>4, SetStatusTyping
       DEF Kill, MonitorRecords, Rm, Statuses, Status, Live, Terminal
<1>5. ASSUME NEW i \in Ids, NEW to \in {"Running", "Idle"}, ReportStatus(i, to)
      PROVE  RegistryOK'
  <2>1. [reg EXCEPT ![i] = to] \in [Ids -> Statuses] /\ {i} \in SUBSET Ids
      BY DEF RegistryOK, Statuses, Status, Live
  <2> QED BY <1>5, <2>1, PersistTyping DEF ReportStatus
<1>6. CASE Drain
  <2> DEFINE live == {i \in Ids : reg[i] \in Live}
             r == [i \in Ids |-> IF i \in live THEN "Drained" ELSE reg[i]]
  <2>1. r \in [Ids -> Statuses] /\ live \in SUBSET Ids
      BY DEF RegistryOK, Statuses, Status, Terminal
  <2>2. Persist(r, live)
      BY <1>6 DEF Drain
  <2> QED BY <2>1, <2>2, PersistTyping
<1>7. CASE Stop
    BY <1>7 DEF Stop, RegistryOK, Statuses
<1>8. CASE Restart
  <2> DEFINE ids == {i \in Ids : Swept(disk)[i] # disk[i]}
  <2>1. Swept(disk) \in [Ids -> Statuses] /\ ids \in SUBSET Ids
      BY SweptTyping DEF RegistryOK
  <2>2. Persist(Swept(disk), ids)
      BY <1>8 DEF Restart
  <2> QED BY <2>1, <2>2, PersistTyping
<1> QED BY <1>1, <1>2, <1>3, <1>4, <1>5, <1>6, <1>7, <1>8, NextCases DEF Mutates

\* A handler's record stays one of the shapes of HandlerState.
LEMMA StepHandlers == TypeOK /\ [Next]_vars => HandlersOK'
<1> SUFFICES ASSUME TypeOK, [Next]_vars PROVE HandlersOK'
    OBVIOUS
<1> HandlersOK
    BY TypeOKParts
<1>1. NoRequest \in HandlerState
    BY DEF HandlerState
<1>2. CASE UNCHANGED vars
    BY <1>2 DEF vars, HandlersOK
<1>3. ASSUME NEW h \in Handlers, SpawnRequest(h) PROVE HandlersOK'
  <2>1. \A iso \in BOOLEAN :
            [pc |-> "prepare", old |-> NoId, new |-> NoId, iso |-> iso] \in HandlerState
      BY DEF HandlerState
  <2> QED BY <1>3, <2>1 DEF SpawnRequest, HandlersOK
<1>4. ASSUME NEW h \in Handlers, NEW i \in Ids, RespawnLookup(h, i) PROVE HandlersOK'
  <2> DEFINE iso == i \in isolated
  <2>1. iso \in BOOLEAN
      OBVIOUS
  <2>2. hand' = [hand EXCEPT ![h] = [pc |-> "prepare", old |-> i, new |-> NoId, iso |-> iso]]
      BY <1>4 DEF RespawnLookup
  <2> HIDE DEF iso
  <2>3. [pc |-> "prepare", old |-> i, new |-> NoId, iso |-> iso] \in HandlerState
      BY <2>1 DEF HandlerState
  <2> QED BY <2>2, <2>3 DEF HandlersOK
<1>5. ASSUME NEW h \in Handlers,
             \/ PrepareFails(h) \/ PortsExhausted(h) \/ SwapLost(h) \/ Track(h)
             \/ LaunchFailed(h)
      PROVE  HandlersOK'
    BY <1>1, <1>5
       DEF PrepareFails, PortsExhausted, SwapLost, Track, LaunchFailed, HandlersOK
<1>6. ASSUME NEW h \in Handlers, NEW i \in Ids, Prepare(h, i) PROVE HandlersOK'
  <2> DEFINE r == [hand[h] EXCEPT !.new = i, !.pc = "endpoint"]
  <2>1. hand' = [hand EXCEPT ![h] = r]
      BY <1>6 DEF Prepare, HandlersOK
  <2>2. hand[h] \in [pc : {"prepare"}, old : Ids \cup {NoId}, new : {NoId}, iso : BOOLEAN]
      BY <1>6 DEF Prepare, HandlersOK, HandlerState, NoRequest
  <2>3. r \in [pc : {"endpoint"}, old : Ids \cup {NoId}, new : Ids, iso : BOOLEAN]
      BY <2>2
  <2> QED BY <2>1, <2>3 DEF HandlersOK, HandlerState
<1>10. ASSUME NEW h \in Handlers, TakeEndpoint(h) PROVE HandlersOK'
  <2> DEFINE r == [hand[h] EXCEPT !.pc = IF hand[h].old = NoId THEN "register" ELSE "swap"]
  <2>1. hand' = [hand EXCEPT ![h] = r]
      BY <1>10 DEF TakeEndpoint, HandlersOK
  <2>2. hand[h] \in [pc : {"endpoint"}, old : Ids \cup {NoId}, new : Ids, iso : BOOLEAN]
      BY <1>10 DEF TakeEndpoint, HandlersOK, HandlerState, NoRequest
  <2>3. CASE hand[h].old = NoId
    <3>1. r \in [pc : {"register"}, old : {NoId}, new : Ids, iso : BOOLEAN]
        BY <2>2, <2>3
    <3> QED BY <2>1, <3>1 DEF HandlersOK, HandlerState
  <2>4. CASE hand[h].old # NoId
    <3>1. r \in [pc : {"swap"}, old : Ids, new : Ids, iso : BOOLEAN]
        BY <2>2, <2>4
    <3> QED BY <2>1, <3>1 DEF HandlersOK, HandlerState
  <2> QED BY <2>3, <2>4
<1>7. ASSUME NEW h \in Handlers, Register(h) \/ Swap(h) \/ LaunchOk(h) \/ LaunchError(h)
      PROVE  HandlersOK'
  <2>1. hand[h] \in [pc : {"register", "swap", "launch"}, old : Ids \cup {NoId}, new : Ids,
                     iso : BOOLEAN]
      BY <1>7 DEF Register, Swap, LaunchOk, LaunchError, HandlersOK, HandlerState, NoRequest
  <2>2. PICK pc \in {"launch", "track", "launchFailed"} : hand' = [hand EXCEPT ![h].pc = pc]
      BY <1>7 DEF Register, Swap, LaunchOk, LaunchError
  <2>3. [hand[h] EXCEPT !.pc = pc] \in [pc : {"launch", "track", "launchFailed"},
                                         old : Ids \cup {NoId}, new : Ids, iso : BOOLEAN]
      BY <2>1
  <2> QED BY <2>2, <2>3 DEF HandlersOK, HandlerState
<1>8. CASE Stop
    BY <1>1, <1>8 DEF Stop, HandlersOK
<1>9. CASE \/ \E i \in Ids : \/ WorkerExits(i) \/ MonitorCleans(i) \/ MonitorRecords(i)
                             \/ Kill(i) \/ \E force \in BOOLEAN : Rm(i, force)
                             \/ \E to \in {"Running", "Idle"} : ReportStatus(i, to)
           \/ Drain \/ Restart
    BY <1>9 DEF WorkerExits, MonitorCleans, MonitorRecords, Kill, Rm, ReportStatus, Drain,
                Restart, HandlersOK
<1> QED BY <1>2, <1>3, <1>4, <1>5, <1>6, <1>7, <1>8, <1>9, <1>10, NextCases
        DEF Quiet, Mutates

\* The handler's agent, where a step uses it.
LEMMA HandledName ==
    ASSUME HandlersOK, NEW h \in Handlers,
           hand[h].pc \in {"endpoint", "register", "swap", "launch", "track", "launchFailed"}
    PROVE  hand[h].new \in Ids
<1>1. hand[h] \in HandlerState
    BY DEF HandlersOK
<1> QED BY <1>1, HandlerCases

LEMMA StepHost == TypeOK /\ [Next]_vars => HostOK'
<1> SUFFICES ASSUME TypeOK, [Next]_vars PROVE HostOK'
    OBVIOUS
<1> HostOK /\ HandlersOK
    BY TypeOKParts
<1>1. CASE UNCHANGED vars
    BY <1>1 DEF vars, regVars, hostVars, nameVars, HostOK
<1>2. ASSUME NEW h \in Handlers,
             SpawnRequest(h) \/ PrepareFails(h) \/ LaunchError(h)
      PROVE  HostOK'
    BY <1>2 DEF SpawnRequest, PrepareFails, LaunchError, regVars, hostVars,
                nameVars, HostOK
<1>3. ASSUME NEW h \in Handlers, NEW i \in Ids, RespawnLookup(h, i) PROVE HostOK'
    BY <1>3 DEF RespawnLookup, regVars, hostVars, nameVars, HostOK
<1>4. ASSUME NEW h \in Handlers, NEW i \in Ids, Prepare(h, i) PROVE HostOK'
  <2>1. isolated' \subseteq Ids /\ worktrees' \subseteq Ids
      BY <1>4 DEF Prepare, HostOK
  <2> QED BY <1>4, <2>1 DEF Prepare, hostVars, HostOK
<1>5. ASSUME NEW h \in Handlers,
             \/ TakeEndpoint(h) \/ PortsExhausted(h)
             \/ Register(h) \/ Swap(h) \/ SwapLost(h) \/ LaunchOk(h) \/ Track(h)
             \/ LaunchFailed(h)
      PROVE  HostOK'
  <2>1. hand[h].new \in Ids
      BY <1>5, HandledName DEF TakeEndpoint, PortsExhausted, Register, Swap, SwapLost, LaunchOk,
         Track, LaunchFailed
  <2>2. CASE Register(h) \/ Swap(h)
      BY <2>2 DEF Register, Swap, hostVars, nameVars, HostOK
  <2>3. CASE SwapLost(h) \/ LaunchFailed(h)
      BY <2>1, <2>3 DEF SwapLost, LaunchFailed, CleanupWorktree, regVars, hostVars, HostOK
  <2>4. CASE LaunchOk(h)
      BY <2>1, <2>4 DEF LaunchOk, regVars, nameVars, HostOK
  <2>5. CASE Track(h)
      BY <2>1, <2>5 DEF Track, nameVars, HostOK
  <2>6. CASE PortsExhausted(h)
      BY <2>1, <2>6 DEF PortsExhausted, CleanupWorktree, regVars, hostVars, HostOK
  <2>7. CASE TakeEndpoint(h)
    <3>1. port' \in [Ids -> Nat] /\ nextPort' \in Nat
        BY <2>1, <2>7, ConstantsAssumption DEF TakeEndpoint, PortOf, HostOK
    <3> QED BY <2>7, <3>1 DEF TakeEndpoint, regVars, hostVars, HostOK
  <2> QED BY <1>5, <2>2, <2>3, <2>4, <2>5, <2>6, <2>7
<1>6. ASSUME NEW i \in Ids, WorkerExits(i) \/ MonitorCleans(i) \/ MonitorRecords(i)
      PROVE  HostOK'
    BY <1>6 DEF WorkerExits, MonitorCleans, MonitorRecords, CleanupWorktree, regVars,
                nameVars, HostOK
<1>7. ASSUME NEW i \in Ids, \/ Kill(i) \/ \E force \in BOOLEAN : Rm(i, force)
                            \/ \E to \in {"Running", "Idle"} : ReportStatus(i, to)
      PROVE  HostOK'
    BY <1>7 DEF Kill, Rm, ReportStatus, SignalWorkers, hostVars, nameVars, HostOK
<1>8. CASE Drain
    BY <1>8 DEF Drain, SignalWorkers, nameVars, HostOK
<1>9. CASE Stop
  <2>1. /\ up' = FALSE /\ tracked' = {} /\ born' = {} /\ monitor' = [i \in Ids |-> "none"]
        /\ UNCHANGED <<worker, sig, nameVars, requests, restarts>>
      BY <1>9 DEF Stop
  <2> QED BY <2>1 DEF nameVars, HostOK
<1>10. CASE Restart
  <2>1. /\ up' = TRUE /\ restarts' = restarts + 1 /\ nextPort' = 0
        /\ UNCHANGED <<tracked, born, hostVars, isolated, worktrees, leftBehind, used, port,
                       requests>>
      BY <1>10 DEF Restart
  <2> QED BY <2>1 DEF hostVars, HostOK
<1> QED BY <1>1, <1>2, <1>3, <1>4, <1>5, <1>6, <1>7, <1>8, <1>9, <1>10, NextCases
        DEF Quiet, Mutates

LEMMA InitTypeOK == Init => TypeOK
<1> SUFFICES ASSUME Init PROVE RegistryOK /\ HostOK /\ HandlersOK
    BY TypeOKParts
<1>1. RegistryOK
    BY DEF Init, RegistryOK, Statuses
<1>2. HostOK
    BY DEF Init, HostOK
<1>3. HandlersOK
    BY DEF Init, HandlersOK, HandlerState
<1> QED BY <1>1, <1>2, <1>3

LEMMA StepTypeOK == TypeOK /\ [Next]_vars => TypeOK'
<1>1. TypeOK' <=> RegistryOK' /\ HostOK' /\ HandlersOK'
    BY DEF TypeOK, RegistryOK, HostOK, HandlersOK, Statuses
<1> QED BY <1>1, StepRegistry, StepHost, StepHandlers

\* Type correctness of the daemon.
THEOREM DaemonTypeCorrect == Spec => []TypeOK
<1> QED BY InitTypeOK, StepTypeOK, PTL DEF Spec

----------------------------------------------------------------------------
(* Owners of live records.                                                 *)

\* A step of the registry that adds no record and brings no ended one back.
Tame ==
    \A j \in Ids : /\ reg[j] = "None" => reg'[j] = "None" /\ disk'[j] = disk[j]
                   /\ reg'[j] \in Live => reg[j] \in Live

LEMMA QuietIsTame == UNCHANGED <<reg, disk, dirty, wfails>> => Tame
BY DEF Tame

LEMMA SetStatusIsTame ==
    ASSUME TypeOK, NEW i \in Ids, NEW to \in Statuses,
           \/ SetStatusIfRunning(i, to)
           \/ SetStatus(i, to) /\ to \notin Live
    PROVE  /\ Tame
           /\ to \notin Live => reg'[i] \notin Live
<1>1. CASE UNCHANGED <<reg, disk, dirty, wfails>> /\ reg[i] \notin Live
    BY <1>1, QuietIsTame
<1>2. CASE /\ Persist([reg EXCEPT ![i] = to], {i}) /\ reg[i] # "None"
           /\ to \in Live => reg[i] \in Live
    BY <1>2 DEF Persist, TypeOK, Tame
<1> QED BY <1>1, <1>2 DEF SetStatus, SetStatusIfRunning, Live

\* The one-section requests, the reports and the exits are tame.
LEMMA ClientIsTame ==
    ASSUME TypeOK,
           \/ \E i \in Ids : \/ Kill(i) \/ \E force \in BOOLEAN : Rm(i, force)
                             \/ \E to \in {"Running", "Idle"} : ReportStatus(i, to)
                             \/ WorkerExits(i)
           \/ Drain
    PROVE  Tame
<1>1. ASSUME NEW i \in Ids, Kill(i) \/ \E force \in BOOLEAN : Rm(i, force) PROVE Tame
    BY <1>1, SetStatusIsTame DEF Kill, Rm, Statuses, Status, Terminal, Live
<1>2. ASSUME NEW i \in Ids, NEW to \in {"Running", "Idle"}, ReportStatus(i, to) PROVE Tame
    BY <1>2 DEF ReportStatus, Persist, TypeOK, Tame, Live
<1>3. ASSUME NEW i \in Ids, WorkerExits(i) PROVE Tame
    BY <1>3, QuietIsTame DEF WorkerExits, regVars
<1>4. CASE Drain
  <2> DEFINE live == {i \in Ids : reg[i] \in Live}
             r == [i \in Ids |-> IF i \in live THEN "Drained" ELSE reg[i]]
  <2>1. Persist(r, live)
      BY <1>4 DEF Drain
  <2>2. \A j \in Ids : reg[j] = "None" => j \notin live
      BY DEF Live
  <2> QED BY <2>1, <2>2 DEF Persist, Tame, Live
<1> QED BY <1>1, <1>2, <1>3, <1>4

\* The part of the induction about names, handlers and records.
Owned == NamesFresh /\ HandlersApart /\ UnregisteredAbsent /\ LiveRecordHasOwner

\* A tame step that moves no handler and ends no monitor keeps it.
LEMMA TameKeepsOwners ==
    ASSUME TypeOK, Owned, Tame, UNCHANGED <<hand, monitor, born, used>>
    PROVE  Owned'
<1>1. \A h \in Handlers : hand[h].pc \in Unregistered => hand[h].new \in Ids
    BY HandledName, TypeOKParts DEF Unregistered
<1>2. NamesFresh' /\ HandlersApart'
    BY DEF Owned, NamesFresh, HandlersApart, Tame
<1>3. UnregisteredAbsent'
    BY <1>1 DEF Owned, UnregisteredAbsent, Tame
<1>4. LiveRecordHasOwner'
    BY DEF Owned, LiveRecordHasOwner, Handled, Tame, TypeOK
<1> QED BY <1>2, <1>3, <1>4 DEF Owned

\* A tame step after which handler h works on no agent keeps it, when the agent
\* it had is not live or has its monitor.
LEMMA LettingGoKeepsOwners ==
    ASSUME TypeOK, Owned, Tame, NEW h \in Handlers, NEW r \in HandlerState,
           r.pc \in {"idle", "prepare"}, hand' = [hand EXCEPT ![h] = r],
           UNCHANGED <<born, used>>,
           hand[h].new \in Ids =>
              reg'[hand[h].new] \notin Live \/ monitor'[hand[h].new] = "wait",
           \A i \in Ids : monitor[i] = "wait" => monitor'[i] = "wait"
    PROVE  Owned'
<1>1. r.new = NoId
    BY HandlerCases
<1>2. \A g \in Handlers : hand'[g] = IF g = h THEN r ELSE hand[g]
    BY DEF TypeOK
<1>3. \A g \in Handlers : hand[g].pc \in Unregistered => hand[g].new \in Ids
    BY HandledName, TypeOKParts DEF Unregistered
<1>4. NamesFresh'
    BY <1>1, <1>2 DEF Owned, NamesFresh, Tame
<1>5. HandlersApart'
    BY <1>1, <1>2 DEF Owned, HandlersApart
<1>6. UnregisteredAbsent'
    BY <1>1, <1>2, <1>3 DEF Owned, UnregisteredAbsent, Unregistered, Tame
<1>7. LiveRecordHasOwner'
  <2> SUFFICES ASSUME NEW i \in born, reg'[i] \in Live
               PROVE  (\E g \in Handlers : hand'[g].new = i) \/ monitor'[i] = "wait"
      BY DEF LiveRecordHasOwner, Handled
  <2>1. i \in Ids /\ reg[i] \in Live
      BY DEF Tame, TypeOK
  <2>2. CASE monitor[i] = "wait"
      BY <2>1, <2>2
  <2>3. ASSUME NEW g \in Handlers, hand[g].new = i
        PROVE  (\E k \in Handlers : hand'[k].new = i) \/ monitor'[i] = "wait"
      BY <1>2, <2>1, <2>3
  <2> QED BY <2>1, <2>2, <2>3 DEF Owned, LiveRecordHasOwner, Handled
<1> QED BY <1>4, <1>5, <1>6, <1>7 DEF Owned

\* A handler that only advances on its agent keeps it.
LEMMA AdvancingKeepsOwners ==
    ASSUME TypeOK, Owned, NEW h \in Handlers,
           TakeEndpoint(h) \/ LaunchOk(h) \/ LaunchError(h)
    PROVE  Owned'
<1>1. /\ UNCHANGED <<reg, disk, born, monitor, used>>
      /\ \E pc \in Unregistered \cup {"track", "launchFailed"} :
            /\ hand' = [hand EXCEPT ![h].pc = pc]
            /\ pc \in Unregistered => hand[h].pc \in Unregistered
    BY DEF TakeEndpoint, LaunchOk, LaunchError, regVars, hostVars, nameVars, Unregistered
<1>2. hand[h] \in [pc : {"endpoint", "launch"}, old : Ids \cup {NoId}, new : Ids, iso : BOOLEAN]
    BY DEF TakeEndpoint, LaunchOk, LaunchError, TypeOK, HandlerState, NoRequest
<1>3. /\ \A g \in Handlers : hand'[g].new = hand[g].new
      /\ \A g \in Handlers : hand'[g].pc \in Unregistered => hand[g].pc \in Unregistered
    BY <1>1, <1>2 DEF TypeOK
<1>4. NamesFresh' /\ HandlersApart' /\ UnregisteredAbsent'
    BY <1>1, <1>3 DEF Owned, NamesFresh, HandlersApart, UnregisteredAbsent
<1>5. LiveRecordHasOwner'
    BY <1>1, <1>3 DEF Owned, LiveRecordHasOwner, Handled
<1> QED BY <1>4, <1>5 DEF Owned

\* Registration makes a live record, of the handler's own agent, and touches no
\* agent that another handler has prepared.
LEMMA RegisteringKeepsOwners ==
    ASSUME TypeOK, Owned, NEW h \in Handlers, Register(h) \/ Swap(h)
    PROVE  Owned'
<1> DEFINE i == hand[h].new
           o == hand[h].old
<1>1. /\ hand[h].pc \in {"register", "swap"}
      /\ hand' = [hand EXCEPT ![h].pc = "launch"]
      /\ UNCHANGED <<born, monitor, used>>
    BY DEF Register, Swap, hostVars, nameVars
<1>2. hand[h] \in [pc : {"register", "swap"}, old : Ids \cup {NoId}, new : Ids, iso : BOOLEAN]
    BY <1>1 DEF TypeOK, HandlerState, NoRequest
<1>3. /\ \A g \in Handlers : hand'[g].new = hand[g].new
      /\ hand'[h].pc = "launch"
      /\ \A g \in Handlers \ {h} : hand'[g] = hand[g]
    BY <1>1, <1>2 DEF TypeOK
<1>4. i \in Ids /\ i \in used
    BY <1>2, ConstantsAssumption DEF Owned, NamesFresh
<1>5. /\ \A j \in Ids \ {i} : reg'[j] = "None" \/ reg'[j] = reg[j]
      /\ \A j \in Ids \ used : disk'[j] = disk[j]
  <2>1. CASE Register(h)
      BY <1>4, <2>1 DEF Register, Persist, TypeOK
  <2>2. CASE Swap(h)
    <3>1. o \in Ids /\ reg[o] # "None" /\ o \in used
        BY <1>2, <2>2, ConstantsAssumption, HandlerCases DEF Swap, TypeOK, Owned, NamesFresh
    <3> QED BY <1>4, <2>2, <3>1 DEF Swap, Persist, TypeOK
  <2> QED BY <2>1, <2>2
<1>6. NamesFresh'
    BY <1>1, <1>3, <1>4, <1>5 DEF Owned, NamesFresh
<1>7. HandlersApart'
    BY <1>3 DEF Owned, HandlersApart
<1>8. UnregisteredAbsent'
  <2> SUFFICES ASSUME NEW g \in Handlers, hand'[g].pc \in Unregistered
               PROVE  reg'[hand'[g].new] = "None"
      BY DEF UnregisteredAbsent
  <2>1. g # h /\ hand'[g] = hand[g]
      BY <1>3 DEF Unregistered
  <2>2. hand[g].new \in Ids /\ reg[hand[g].new] = "None"
      BY <2>1, HandledName, TypeOKParts DEF Owned, UnregisteredAbsent, Unregistered
  <2>3. hand[g].new # i
      BY <1>4, <2>1, ConstantsAssumption DEF Owned, HandlersApart
  <2> QED BY <1>5, <2>1, <2>2, <2>3
<1>9. LiveRecordHasOwner'
  <2> SUFFICES ASSUME NEW j \in born, reg'[j] \in Live
               PROVE  (\E g \in Handlers : hand'[g].new = j) \/ monitor'[j] = "wait"
      BY <1>1 DEF LiveRecordHasOwner, Handled
  <2>1. CASE j = i
      BY <1>3, <2>1
  <2>2. CASE j # i
    <3>1. j \in Ids /\ reg[j] \in Live
        BY <1>5, <2>2 DEF TypeOK, Live
    <3> QED BY <1>1, <1>3, <3>1 DEF Owned, LiveRecordHasOwner, Handled
  <2> QED BY <2>1, <2>2
<1> QED BY <1>6, <1>7, <1>8, <1>9 DEF Owned

\* A fresh name is nobody else's and has no record.
LEMMA PreparingKeepsOwners ==
    ASSUME TypeOK, Owned, NEW h \in Handlers, NEW i \in Ids, Prepare(h, i)
    PROVE  Owned'
<1>1. /\ i \notin used /\ used' = used \cup {i} /\ born' = born \cup {i}
      /\ UNCHANGED <<reg, disk, monitor>>
    BY DEF Prepare, hostVars
<1>2. hand[h] \in [pc : {"prepare"}, old : Ids \cup {NoId}, new : {NoId}, iso : BOOLEAN]
    BY DEF Prepare, TypeOK, HandlerState, NoRequest
<1>3. /\ hand'[h].new = i
      /\ \A g \in Handlers \ {h} : hand'[g] = hand[g]
    BY <1>2 DEF Prepare, TypeOK
<1>4. reg[i] = "None" /\ \A g \in Handlers : hand[g].new # i
    BY <1>1, ConstantsAssumption DEF Owned, NamesFresh
<1>5. NamesFresh'
    BY <1>1, <1>3, <1>4 DEF Owned, NamesFresh
<1>6. HandlersApart'
    BY <1>3, <1>4 DEF Owned, HandlersApart
<1>7. UnregisteredAbsent'
    BY <1>1, <1>3, <1>4 DEF Owned, UnregisteredAbsent, Unregistered
<1>8. LiveRecordHasOwner'
  <2> SUFFICES ASSUME NEW j \in born, reg[j] \in Live
               PROVE  (\E g \in Handlers : hand'[g].new = j) \/ monitor[j] = "wait"
      BY <1>1, <1>4 DEF LiveRecordHasOwner, Handled, Live
  <2>1. CASE monitor[j] = "wait"
      BY <2>1
  <2>2. ASSUME NEW g \in Handlers, hand[g].new = j PROVE hand'[g].new = j
    <3>1. g # h
        BY <1>2, <2>2, ConstantsAssumption DEF TypeOK
    <3> QED BY <1>3, <2>2, <3>1
  <2> QED BY <2>1, <2>2 DEF Owned, LiveRecordHasOwner, Handled
<1> QED BY <1>5, <1>6, <1>7, <1>8 DEF Owned

\* A monitor stops waiting only in the step that records the exit.
LEMMA MonitorKeepsOwners ==
    ASSUME TypeOK, Owned, NEW i \in Ids, MonitorRecords(i) \/ MonitorCleans(i)
    PROVE  Owned'
<1>1. UNCHANGED <<hand, born, used>> /\ \A j \in Ids \ {i} : monitor'[j] = monitor[j]
    BY DEF MonitorRecords, MonitorCleans, regVars, nameVars, TypeOK
<1>2. Tame /\ (MonitorRecords(i) => reg'[i] \notin Live)
  <2>1. CASE MonitorRecords(i)
      BY <2>1, SetStatusIsTame DEF MonitorRecords, Statuses, Status, Terminal, Live
  <2>2. CASE MonitorCleans(i)
      BY <2>2, QuietIsTame DEF MonitorCleans, MonitorRecords, regVars
  <2> QED BY <2>1, <2>2
<1>3. \A h \in Handlers : hand[h].pc \in Unregistered => hand[h].new \in Ids
    BY HandledName, TypeOKParts DEF Unregistered
<1>4. NamesFresh' /\ HandlersApart'
    BY <1>1, <1>2 DEF Owned, NamesFresh, HandlersApart, Tame
<1>5. UnregisteredAbsent'
    BY <1>1, <1>2, <1>3 DEF Owned, UnregisteredAbsent, Tame
<1>6. LiveRecordHasOwner'
  <2> SUFFICES ASSUME NEW j \in born, reg'[j] \in Live
               PROVE  (\E g \in Handlers : hand[g].new = j) \/ monitor'[j] = "wait"
      BY <1>1 DEF LiveRecordHasOwner, Handled
  <2>1. j \in Ids /\ reg[j] \in Live
      BY <1>2 DEF Tame, TypeOK
  <2>2. (\E g \in Handlers : hand[g].new = j) \/ monitor[j] = "wait"
      BY <2>1 DEF Owned, LiveRecordHasOwner, Handled
  <2>3. monitor[j] = "wait" => j # i
      BY <1>2 DEF MonitorRecords, MonitorCleans
  <2> QED BY <1>1, <2>1, <2>2, <2>3
<1> QED BY <1>4, <1>5, <1>6 DEF Owned

\* Handlers that let go of their agent, or had none.
LEMMA ReleasingKeepsOwners ==
    ASSUME TypeOK, Owned, NEW h \in Handlers,
           \/ SpawnRequest(h) \/ \E i \in Ids : RespawnLookup(h, i)
           \/ PrepareFails(h) \/ PortsExhausted(h) \/ SwapLost(h)
           \/ Track(h) \/ LaunchFailed(h)
    PROVE  Owned'
<1> DEFINE i == hand[h].new
<1>1. hand[h] \in HandlerState /\ HandlersOK /\ HandlersOK'
  <2>1. [Next]_vars
      BY DEF Next, Client, HandlerStep
  <2> QED BY <2>1, StepHandlers, TypeOKParts DEF TypeOK
<1>2. CASE \/ SpawnRequest(h) \/ \E j \in Ids : RespawnLookup(h, j)
           \/ PrepareFails(h)
  <2>1. i = NoId
      BY <1>1, <1>2, HandlerCases DEF SpawnRequest, RespawnLookup, PrepareFails
  <2>2. /\ \E r : r.pc \in {"idle", "prepare"} /\ hand' = [hand EXCEPT ![h] = r]
        /\ UNCHANGED <<reg, disk, dirty, wfails, born, used, monitor>>
      BY <1>2 DEF SpawnRequest, RespawnLookup, PrepareFails, regVars, hostVars, nameVars,
                  NoRequest
  <2>3. PICK r : r.pc \in {"idle", "prepare"} /\ hand' = [hand EXCEPT ![h] = r]
      BY <2>2
  <2>4. r \in HandlerState
      BY <1>1, <2>3 DEF HandlersOK
  <2>5. Tame /\ i \notin Ids
      BY <2>1, <2>2, QuietIsTame, ConstantsAssumption
  <2> QED BY <2>2, <2>3, <2>4, <2>5, LettingGoKeepsOwners
<1>3. CASE PortsExhausted(h) \/ SwapLost(h) \/ Track(h) \/ LaunchFailed(h)
  <2>1. i \in Ids
      BY <1>1, <1>3, HandledName DEF PortsExhausted, SwapLost, Track, LaunchFailed
  <2>2. /\ hand' = [hand EXCEPT ![h] = NoRequest]
        /\ NoRequest \in HandlerState /\ NoRequest.pc \in {"idle", "prepare"}
        /\ UNCHANGED <<born, used>>
      BY <1>3 DEF PortsExhausted, SwapLost, Track, LaunchFailed, NoRequest, HandlerState, regVars,
         nameVars
  <2>3. \A j \in Ids : monitor[j] = "wait" => monitor'[j] = "wait"
      BY <1>3, <2>1 DEF PortsExhausted, SwapLost, Track, LaunchFailed, hostVars, TypeOK
  <2>4. Tame
    <3>1. CASE PortsExhausted(h) \/ SwapLost(h)
        BY <3>1, QuietIsTame DEF PortsExhausted, SwapLost, regVars
    <3>2. CASE Track(h)
        BY <2>1, <3>2, SetStatusIsTame DEF Track, Statuses, Status, Live
    <3>3. CASE LaunchFailed(h)
        BY <2>1, <3>3, SetStatusIsTame DEF LaunchFailed, Statuses, Status, Terminal, Live
    <3> QED BY <1>3, <3>1, <3>2, <3>3
  <2>5. reg'[i] \notin Live \/ monitor'[i] = "wait"
    <3>1. CASE PortsExhausted(h) \/ SwapLost(h)
      <4>1. reg[i] = "None"
          BY <3>1 DEF PortsExhausted, SwapLost, Owned, UnregisteredAbsent, Unregistered
      <4> QED BY <3>1, <4>1 DEF PortsExhausted, SwapLost, regVars, Live
    <3>2. CASE Track(h)
        BY <2>1, <3>2 DEF Track, TypeOK
    <3>3. CASE LaunchFailed(h)
        BY <2>1, <3>3, SetStatusIsTame DEF LaunchFailed, Statuses, Status, Terminal, Live
    <3> QED BY <1>3, <3>1, <3>2, <3>3
  <2> HIDE DEF i
  <2> QED BY <2>2, <2>3, <2>4, <2>5, LettingGoKeepsOwners DEF i
<1> QED BY <1>2, <1>3

LEMMA StepOwned == TypeOK /\ StoppedIsEmpty /\ Owned /\ [Next]_vars => Owned'
<1> SUFFICES ASSUME TypeOK, StoppedIsEmpty, Owned, [Next]_vars PROVE Owned'
    OBVIOUS
<1>1. CASE UNCHANGED vars
    BY <1>1, QuietIsTame, TameKeepsOwners DEF vars, regVars, hostVars, nameVars
<1>2. CASE \/ \E i \in Ids : \/ Kill(i) \/ \E force \in BOOLEAN : Rm(i, force)
                             \/ \E to \in {"Running", "Idle"} : ReportStatus(i, to)
                             \/ WorkerExits(i)
           \/ Drain
  <2>1. UNCHANGED <<hand, monitor, born, used>>
      BY <1>2 DEF Kill, Rm, ReportStatus, WorkerExits, Drain, regVars, hostVars, nameVars
  <2> QED BY <1>2, <2>1, ClientIsTame, TameKeepsOwners
<1>3. CASE Stop
  <2>1. /\ reg' = [i \in Ids |-> "None"] /\ born' = {}
        /\ hand' = [h \in Handlers |-> NoRequest] /\ UNCHANGED <<disk, used>>
      BY <1>3 DEF Stop, nameVars
  <2>2. \A h \in Handlers : hand'[h].new = NoId /\ hand'[h].pc = "idle"
      BY <2>1 DEF NoRequest
  <2> QED BY <2>1, <2>2
          DEF Owned, NamesFresh, HandlersApart, UnregisteredAbsent, Unregistered,
              LiveRecordHasOwner
<1>4. CASE Restart
  <2>1. /\ reg' = Swept(disk) /\ UNCHANGED <<hand, born, used>> /\ born = {}
        /\ \A h \in Handlers : hand[h] = NoRequest
        /\ \A i \in Ids : Swept(disk)[i] = disk[i] => disk'[i] = disk[i]
      BY <1>4 DEF Restart, Persist, StoppedIsEmpty
  <2>2. \A i \in Ids : disk[i] = "None" => reg'[i] = "None" /\ disk'[i] = "None"
      BY <2>1 DEF Swept
  <2> QED BY <2>1, <2>2 DEF Owned, NamesFresh, HandlersApart, UnregisteredAbsent, Unregistered,
                            LiveRecordHasOwner, NoRequest
<1> QED BY <1>1, <1>2, <1>3, <1>4, AdvancingKeepsOwners, RegisteringKeepsOwners,
           PreparingKeepsOwners, MonitorKeepsOwners, ReleasingKeepsOwners, NextCases
        DEF Quiet, Mutates

LEMMA StepStopped == StoppedIsEmpty /\ [Next]_vars => StoppedIsEmpty'
<1> SUFFICES ASSUME StoppedIsEmpty, [Next]_vars PROVE StoppedIsEmpty'
    OBVIOUS
<1>1. CASE Stop
    BY <1>1 DEF Stop, StoppedIsEmpty
<1>2. CASE Restart
    BY <1>2 DEF Restart, StoppedIsEmpty
<1>3. CASE UNCHANGED <<up, born, hand>>
    BY <1>3 DEF StoppedIsEmpty
<1>4. CASE up /\ up' = up
    BY <1>4 DEF StoppedIsEmpty
<1>5. UNCHANGED <<up, born, hand>> \/ (up /\ up' = up) \/ Stop \/ Restart
    BY NextCases DEF Quiet, Mutates, vars, regVars, SpawnRequest, RespawnLookup, PrepareFails,
       TakeEndpoint, PortsExhausted, Prepare, Register, Swap, SwapLost, LaunchOk, LaunchError,
       Track,
       LaunchFailed, Kill, Rm, Drain, ReportStatus, WorkerExits, MonitorRecords, MonitorCleans
<1> QED BY <1>1, <1>2, <1>3, <1>4, <1>5

LEMMA IndInvInductive == /\ Init => IndInv
                         /\ IndInv /\ [Next]_vars => IndInv'
<1>1. ASSUME Init PROVE IndInv
  <2>1. TypeOK
      BY <1>1, InitTypeOK
  <2>2. NamesFresh /\ HandlersApart /\ UnregisteredAbsent /\ StoppedIsEmpty /\ LiveRecordHasOwner
      BY <1>1 DEF Init, NamesFresh, HandlersApart, UnregisteredAbsent, Unregistered, StoppedIsEmpty,
                  LiveRecordHasOwner, NoRequest
  <2> QED BY <2>1, <2>2 DEF IndInv
<1>2. ASSUME IndInv, [Next]_vars PROVE IndInv'
    BY <1>2, StepTypeOK, StepOwned, StepStopped DEF IndInv, Owned
<1> QED BY <1>1, <1>2

\* Every live record of the running daemon has a handler that is launching its
\* worker or a monitor that waits for it, for any number of agents, clients,
\* restarts and failed manifest writes.
THEOREM LiveRecordsOwned == Spec => []LiveRecordHasOwner
<1>1. IndInv => LiveRecordHasOwner
    BY DEF IndInv
<1> QED BY <1>1, IndInvInductive, PTL DEF Spec

----------------------------------------------------------------------------
(* Ports.                                                                  *)

\* The ports handed out and who may still be without one.
PortInv == PortsInOrder /\ PortsDistinct

\* A step that hands out no port and registers no agent.
LEMMA IdlePorts ==
    ASSUME TypeOK, PortInv, UNCHANGED <<born, port, used>>, nextPort' \in {nextPort, nextPort + 1},
           \A i \in born : reg[i] = "None" => reg'[i] = "None",
           \A h \in Handlers : hand'[h].pc \in {"register", "swap"} => hand'[h] = hand[h]
    PROVE  PortInv'
<1>1. PortsInOrder'
    BY ConstantsAssumption DEF PortInv, PortsInOrder, TypeOK
<1>2. PortsDistinct'
    BY DEF PortInv, PortsDistinct
<1> QED BY <1>1, <1>2 DEF PortInv

\* Only TakeEndpoint hands out a port, and it moves the counter past it.
LEMMA StepPorts == IndInv /\ PortInv /\ [Next]_vars => PortInv'
<1> SUFFICES ASSUME IndInv, PortInv, [Next]_vars PROVE PortInv'
    OBVIOUS
<1>0. /\ TypeOK /\ Owned /\ StoppedIsEmpty /\ HandlersOK /\ NoId \notin Ids
      /\ hand \in [Handlers -> HandlerState] /\ born \subseteq Ids
    BY TypeOKParts, ConstantsAssumption DEF IndInv, Owned, TypeOK
<1>1. CASE Stop
  <2>1. born' = {} /\ UNCHANGED <<port, used>> /\ \A h \in Handlers : hand'[h].pc = "idle"
      BY <1>1 DEF Stop, nameVars, NoRequest
  <2> QED BY <2>1 DEF PortInv, PortsInOrder, PortsDistinct
<1>2. CASE Restart
  <2>1. born' = {} /\ UNCHANGED <<port, used>> /\ \A h \in Handlers : hand'[h].pc = "idle"
      BY <1>0, <1>2 DEF Restart, StoppedIsEmpty, NoRequest
  <2> QED BY <2>1 DEF PortInv, PortsInOrder, PortsDistinct
<1>3. ASSUME NEW h \in Handlers, TakeEndpoint(h) PROVE PortInv'
  <2> DEFINE i == hand[h].new
  <2>1. /\ PortBase + nextPort <= MaxPort /\ nextPort' = nextPort + 1
        /\ port' = [port EXCEPT ![i] = PortBase + nextPort]
        /\ UNCHANGED <<born, reg, used>> /\ hand[h].pc = "endpoint"
        /\ \E pc \in {"register", "swap"} : hand' = [hand EXCEPT ![h].pc = pc]
      BY <1>3 DEF TakeEndpoint, PortOf, regVars
  <2>2. i \in Ids /\ i \in used
      BY <1>0, <2>1, HandledName DEF Owned, NamesFresh
  <2>3. \A j \in Ids : port'[j] = IF j = i THEN PortBase + nextPort ELSE port[j]
      BY <1>0, <2>1 DEF TypeOK
  <2>4. /\ PortBase \in Nat /\ MaxPort \in Nat /\ nextPort \in Nat /\ PortBase > 0
        /\ \A j \in Ids : port[j] \in Nat
      BY <1>0, ConstantsAssumption DEF TypeOK
  <2>5. /\ \A g \in Handlers : hand'[g].new = hand[g].new
        /\ \A g \in Handlers \ {h} : hand'[g] = hand[g]
    <3>1. hand[h] \in HandlerState
        BY <1>0
    <3>2. \A pc : [hand[h] EXCEPT !.pc = pc].new = hand[h].new
        BY <3>1 DEF HandlerState, NoRequest
    <3> QED BY <1>0, <2>1, <3>2
  <2> HIDE DEF i
  <2>6. \A g \in Handlers : hand'[g].pc \in {"register", "swap"} => port'[hand'[g].new] # 0
    <3> SUFFICES ASSUME NEW g \in Handlers, hand'[g].pc \in {"register", "swap"}
                 PROVE  port'[hand[g].new] # 0
        BY <2>5
    <3>1. CASE hand[g].new = i
        BY <2>2, <2>3, <2>4, <3>1
    <3>2. CASE hand[g].new # i
      <4>1. g # h /\ hand[g].pc \in {"register", "swap"}
          BY <2>5, <3>2 DEF i
      <4>2. hand[g].new \in Ids /\ port[hand[g].new] # 0
          BY <1>0, <4>1, HandledName DEF PortInv, PortsInOrder
      <4> QED BY <2>3, <3>2, <4>2
    <3> QED BY <3>1, <3>2
  <2>7. \A j \in born : port'[j] # 0 =>
            port'[j] \in PortBase .. MaxPort /\ port'[j] < PortBase + nextPort'
    <3> SUFFICES ASSUME NEW j \in born, port'[j] # 0
                 PROVE  port'[j] \in PortBase .. MaxPort /\ port'[j] < PortBase + nextPort'
        OBVIOUS
    <3>1. CASE j = i
        BY <2>1, <2>2, <2>3, <2>4, <3>1
    <3>2. CASE j # i
      <4>1. j \in Ids /\ port'[j] = port[j]
          BY <1>0, <2>3, <3>2
      <4>2. port[j] \in PortBase .. MaxPort /\ port[j] < PortBase + nextPort
          BY <4>1 DEF PortInv, PortsInOrder
      <4> QED BY <2>1, <2>4, <4>1, <4>2
    <3> QED BY <3>1, <3>2
  <2>8. PortsInOrder'
    <3>1. \A j \in Ids \ used : port'[j] = 0
        BY <2>2, <2>3 DEF PortInv, PortsInOrder
    <3> QED BY <2>1, <2>6, <2>7, <3>1 DEF PortsInOrder
  <2>9. PortsDistinct'
    <3>1. \A j \in born' : reg'[j] # "None" => port'[j] # 0
        BY <1>0, <2>1, <2>3, <2>4 DEF PortInv, PortsDistinct
    <3>2. ASSUME NEW j \in born, NEW k \in born, port'[j] # 0, port'[k] # 0, j # k
          PROVE  port'[j] # port'[k]
      <4>1. \A m \in born : m # i /\ port'[m] # 0 =>
                port'[m] = port[m] /\ port[m] # 0 /\ port[m] < PortBase + nextPort
          BY <1>0, <2>3 DEF PortInv, PortsInOrder
      <4>2. port'[i] = PortBase + nextPort
          BY <2>2, <2>3
      <4>3. CASE j = i
          BY <1>0, <2>4, <3>2, <4>1, <4>2, <4>3
      <4>4. CASE k = i
          BY <1>0, <2>4, <3>2, <4>1, <4>2, <4>4
      <4>5. CASE j # i /\ k # i
          BY <3>2, <4>1, <4>5 DEF PortInv, PortsDistinct
      <4> QED BY <4>3, <4>4, <4>5
    <3> QED BY <2>1, <2>7, <3>1, <3>2 DEF PortsDistinct
  <2> QED BY <2>8, <2>9 DEF PortInv
<1>4. ASSUME NEW h \in Handlers, NEW i \in Ids, Prepare(h, i) PROVE PortInv'
  <2>1. /\ born' = born \cup {i} /\ i \notin used /\ used' = used \cup {i} /\ reg' = reg
        /\ UNCHANGED <<port, nextPort>>
        /\ \A g \in Handlers : hand'[g].pc \in {"register", "swap"} => hand'[g] = hand[g]
    <3>1. hand[h] \in [pc : {"prepare"}, old : Ids \cup {NoId}, new : {NoId}, iso : BOOLEAN]
        BY <1>0, <1>4 DEF Prepare, HandlerState, NoRequest
    <3>2. hand'[h].pc = "endpoint" /\ \A g \in Handlers \ {h} : hand'[g] = hand[g]
        BY <1>0, <1>4, <3>1 DEF Prepare
    <3> QED BY <1>4, <3>2 DEF Prepare
  <2>2. reg[i] = "None" /\ port[i] = 0
      BY <1>0, <2>1 DEF Owned, NamesFresh, PortInv, PortsInOrder
  <2>3. PortsInOrder'
      BY <2>1, <2>2 DEF PortInv, PortsInOrder
  <2>4. PortsDistinct'
      BY <2>1, <2>2 DEF PortInv, PortsDistinct
  <2> QED BY <2>3, <2>4 DEF PortInv
<1>5. ASSUME NEW h \in Handlers, Register(h) \/ Swap(h) PROVE PortInv'
  <2> DEFINE i == hand[h].new
  <2>1. /\ hand[h].pc \in {"register", "swap"} /\ hand' = [hand EXCEPT ![h].pc = "launch"]
        /\ UNCHANGED <<born, port, used, nextPort>>
      BY <1>5 DEF Register, Swap, nameVars
  <2>2. i \in Ids /\ port[i] # 0
      BY <1>0, <2>1, HandledName DEF PortInv, PortsInOrder
  <2>3. \A j \in Ids \ {i} : reg[j] = "None" => reg'[j] = "None"
      BY <1>0, <1>5, <2>2 DEF Register, Swap, Persist, TypeOK
  <2>4. \A g \in Handlers : hand'[g].pc \in {"register", "swap"} => hand'[g] = hand[g]
    <3>1. hand[h] \in HandlerState
        BY <1>0
    <3>2. [hand[h] EXCEPT !.pc = "launch"].pc = "launch"
        BY <3>1 DEF HandlerState, NoRequest
    <3> QED BY <1>0, <2>1, <3>2
  <2> HIDE DEF i
  <2>5. PortsInOrder'
      BY <2>1, <2>4 DEF PortInv, PortsInOrder
  <2>6. PortsDistinct'
      BY <1>0, <2>1, <2>2, <2>3 DEF PortInv, PortsDistinct
  <2> QED BY <2>5, <2>6 DEF PortInv
<1>6. ASSUME NEW h \in Handlers, \/ SpawnRequest(h) \/ \E i \in Ids : RespawnLookup(h, i)
                                 \/ PrepareFails(h) \/ PortsExhausted(h) \/ SwapLost(h)
      PROVE  PortInv'
  <2>1. /\ UNCHANGED <<born, port, used, reg>> /\ nextPort' \in {nextPort, nextPort + 1}
        /\ hand'[h].pc \in {"idle", "prepare"}
        /\ \A g \in Handlers \ {h} : hand'[g] = hand[g]
      BY <1>0, <1>6 DEF SpawnRequest, RespawnLookup, PrepareFails, PortsExhausted, SwapLost,
         regVars, nameVars, NoRequest
  <2> QED BY <1>0, <2>1, IdlePorts
<1>7. ASSUME NEW h \in Handlers, LaunchOk(h) \/ LaunchError(h) PROVE PortInv'
  <2>1. /\ UNCHANGED <<born, port, used, reg, nextPort>>
        /\ \E pc \in {"track", "launchFailed"} : hand' = [hand EXCEPT ![h].pc = pc]
      BY <1>7 DEF LaunchOk, LaunchError, regVars, nameVars
  <2>2. \A g \in Handlers : hand'[g].pc \in {"register", "swap"} => hand'[g] = hand[g]
    <3>1. hand[h] \in HandlerState
        BY <1>0
    <3>2. \A pc : [hand[h] EXCEPT !.pc = pc].pc = pc
        BY <3>1 DEF HandlerState, NoRequest
    <3> QED BY <1>0, <2>1, <3>2
  <2> QED BY <1>0, <2>1, <2>2, IdlePorts
<1>8. ASSUME NEW h \in Handlers, Track(h) \/ LaunchFailed(h) PROVE PortInv'
  <2>1. /\ UNCHANGED <<born, port, used, nextPort>> /\ hand'[h].pc = "idle"
        /\ \A g \in Handlers \ {h} : hand'[g] = hand[g]
      BY <1>0, <1>8 DEF Track, LaunchFailed, nameVars, NoRequest
  <2>2. hand[h].new \in Ids
      BY <1>0, <1>8, HandledName DEF Track, LaunchFailed
  <2>3. Tame
      BY <1>0, <1>8, <2>2, SetStatusIsTame
         DEF Track, LaunchFailed, Statuses, Status, Live, Terminal
  <2> QED BY <1>0, <2>1, <2>3, IdlePorts DEF Tame
<1>9. CASE \/ \E i \in Ids : \/ Kill(i) \/ \E force \in BOOLEAN : Rm(i, force)
                             \/ \E to \in {"Running", "Idle"} : ReportStatus(i, to)
                             \/ WorkerExits(i)
           \/ Drain
  <2>1. UNCHANGED <<hand, born, port, used, nextPort>>
      BY <1>9 DEF Kill, Rm, ReportStatus, WorkerExits, Drain, regVars, nameVars
  <2>2. Tame
      BY <1>0, <1>9, ClientIsTame
  <2> QED BY <1>0, <2>1, <2>2, IdlePorts DEF Tame
<1>10. ASSUME NEW i \in Ids, MonitorRecords(i) \/ MonitorCleans(i) PROVE PortInv'
  <2>1. UNCHANGED <<hand, born, port, used, nextPort>>
      BY <1>10 DEF MonitorRecords, MonitorCleans, regVars, nameVars
  <2>2. Tame
    <3>1. CASE MonitorRecords(i)
        BY <1>0, <3>1, SetStatusIsTame DEF MonitorRecords, Statuses, Status, Terminal, Live
    <3>2. CASE MonitorCleans(i)
        BY <3>2, QuietIsTame DEF MonitorCleans, regVars
    <3> QED BY <1>10, <3>1, <3>2
  <2> QED BY <1>0, <2>1, <2>2, IdlePorts DEF Tame
<1>11. CASE UNCHANGED vars
  <2>1. UNCHANGED <<hand, born, port, used, nextPort, reg>>
      BY <1>11 DEF vars, regVars, nameVars
  <2> QED BY <1>0, <2>1, IdlePorts
<1> QED BY <1>1, <1>2, <1>3, <1>4, <1>5, <1>6, <1>7, <1>8, <1>9, <1>10, <1>11, NextCases
        DEF Quiet, Mutates

\* Two agents of one daemon process never advertise the same port, whatever
\* the port range and however many requests fail or find it exhausted.
THEOREM PortsNeverShared == Spec => []PortsDistinct
<1>1. Init => PortInv
    BY DEF Init, PortInv, PortsInOrder, PortsDistinct, NoRequest
<1>2. PortInv => PortsDistinct
    BY DEF PortInv
<1> QED BY <1>1, <1>2, IndInvInductive, StepPorts, PTL DEF Spec

----------------------------------------------------------------------------
(* Worktrees and worker processes.                                         *)

\* The stages of a handler before its worker exists.
Unlaunched == {"endpoint", "register", "swap", "launch", "launchFailed"}

\* An agent whose worker was not launched has neither process nor monitor, and
\* the worktree made for it; a name not handed out has nothing at all.
NotLaunchedYet ==
    /\ \A i \in Ids \ used : worker[i] = "none" /\ monitor[i] = "none" /\ i \notin isolated
    /\ \A h \in Handlers : hand[h].pc \in Unlaunched =>
          /\ worker[hand[h].new] = "none" /\ monitor[hand[h].new] = "none"
          /\ hand[h].new \in isolated => hand[h].new \in worktrees

\* A monitor cleans up after an exit only.
CleanupAfterExit == \A i \in Ids : monitor[i] = "cleanup" => worker[i] = "exited"

WorktreeInv == NotLaunchedYet /\ CleanupAfterExit /\ WorktreesAccounted

\* An agent in a handler's hands is not Running yet, and the worker of a Running
\* or Idle record of this process has its pid in the table.
PidsKnown ==
    /\ \A h \in Handlers : hand[h].new # NoId => reg[hand[h].new] \notin {"Running", "Idle"}
    /\ \A i \in born :
          reg[i] \in {"Running", "Idle"} /\ worker[i] = "alive" => i \in tracked

\* What is not marked dirty is on disk as it is in memory.
MemoryOnDisk == up => \A i \in Ids \ dirty : disk[i] = reg[i]

\* A worktree is gone after its clean-up, or marked as left behind; no other
\* worktree and no mark goes.
LEMMA CleanupEffect ==
    ASSUME NEW i, CleanupWorktree(i)
    PROVE  /\ worktrees' \subseteq worktrees /\ worktrees \ {i} \subseteq worktrees'
           /\ leftBehind \subseteq leftBehind'
           /\ i \in worktrees' => i \in leftBehind'
BY DEF CleanupWorktree

LEMMA StepWorktrees == IndInv /\ WorktreeInv /\ [Next]_vars => WorktreeInv'
<1> SUFFICES ASSUME IndInv, WorktreeInv, [Next]_vars PROVE WorktreeInv'
    OBVIOUS
<1>0. /\ hand \in [Handlers -> HandlerState] /\ HandlersOK
      /\ monitor \in [Ids -> {"none", "wait", "cleanup"}]
      /\ worker \in [Ids -> {"none", "alive", "exited"}]
      /\ isolated \subseteq Ids /\ worktrees \subseteq Ids /\ leftBehind \subseteq Ids
      /\ used \subseteq Ids
      /\ born \subseteq Ids /\ NoId \notin Ids
    BY TypeOKParts, ConstantsAssumption DEF IndInv, TypeOK
<1>1. \A g \in Handlers :
          /\ hand[g].pc \in {"idle", "prepare"} => hand[g].new = NoId
          /\ hand[g].pc \in Unlaunched \cup {"track"} => hand[g].new \in Ids
  <2> SUFFICES ASSUME NEW g \in Handlers
               PROVE  /\ hand[g].pc \in {"idle", "prepare"} => hand[g].new = NoId
                      /\ hand[g].pc \in Unlaunched \cup {"track"} => hand[g].new \in Ids
      OBVIOUS
  <2>1. hand[g] \in HandlerState
      BY <1>0
  <2> QED BY <2>1, HandlerCases DEF Unlaunched
<1>2. \A g, h \in Handlers : g # h /\ hand[g].new = hand[h].new => hand[g].new = NoId
    BY DEF IndInv, HandlersApart
<1> USE DEF WorktreeInv, NotLaunchedYet, CleanupAfterExit, WorktreesAccounted, Handled
<1>3. CASE UNCHANGED <<hand, worker, monitor, isolated, worktrees, leftBehind, used, born>>
    BY <1>3
<1>4. ASSUME NEW h \in Handlers, hand[h].new = NoId,
             hand'[h].pc \in {"idle", "prepare"}, hand'[h].new = NoId,
             \A g \in Handlers \ {h} : hand'[g] = hand[g],
             UNCHANGED <<worker, monitor, isolated, worktrees, leftBehind, used, born>>
      PROVE  WorktreeInv'
  <2>2. \A g \in Handlers : hand'[g].pc \in Unlaunched => hand'[g] = hand[g]
      BY <1>4 DEF Unlaunched
  <2>3. \A i \in Ids : (\E g \in Handlers : hand[g].new = i) =>
                           \E g \in Handlers : hand'[g].new = i
      BY <1>0, <1>4
  <2>4. NotLaunchedYet' /\ CleanupAfterExit'
      BY <1>4, <2>2
  <2> QED BY <1>0, <1>4, <2>3, <2>4
<1>5. ASSUME NEW h \in Handlers, NEW pc \in Unlaunched, hand[h].pc \in Unlaunched,
             hand' = [hand EXCEPT ![h].pc = pc],
             UNCHANGED <<worker, monitor, isolated, worktrees, leftBehind, used, born>>
      PROVE  WorktreeInv'
  <2>1. /\ \A g \in Handlers : hand'[g].new = hand[g].new
        /\ \A g \in Handlers : hand'[g].pc \in Unlaunched => hand[g].pc \in Unlaunched
    <3>1. hand[h] \in HandlerState
        BY <1>0
    <3>2. [hand[h] EXCEPT !.pc = pc].new = hand[h].new
        BY <3>1 DEF HandlerState, NoRequest
    <3> QED BY <1>0, <1>5, <3>2
  <2> QED BY <1>5, <2>1
<1>6. ASSUME NEW h \in Handlers, NEW i \in Ids, Prepare(h, i) PROVE WorktreeInv'
  <2>1. /\ i \notin used /\ used' = used \cup {i} /\ born' = born \cup {i}
        /\ UNCHANGED <<worker, monitor, leftBehind>> /\ hand[h].pc = "prepare"
        /\ \/ isolated' = isolated \cup {i} /\ worktrees' = worktrees \cup {i}
           \/ isolated' = isolated /\ worktrees' = worktrees
      BY <1>6 DEF Prepare, hostVars
  <2>2. /\ hand'[h].new = i
        /\ \A g \in Handlers \ {h} : hand'[g] = hand[g]
    <3>1. hand[h] \in [pc : {"prepare"}, old : Ids \cup {NoId}, new : {NoId}, iso : BOOLEAN]
        BY <1>0, <2>1 DEF HandlerState, NoRequest
    <3> QED BY <1>0, <1>6, <3>1 DEF Prepare
  <2>3. worker[i] = "none" /\ monitor[i] = "none" /\ i \notin isolated
      BY <2>1
  <2>4. NotLaunchedYet'
      BY <1>0, <2>1, <2>2, <2>3
  <2>5. CleanupAfterExit'
      BY <2>1
  <2>6. ASSUME NEW j \in worktrees' \cap born'
        PROVE  \/ \E g \in Handlers : hand'[g].new = j
               \/ monitor'[j] # "none" \/ j \in leftBehind'
    <3>1. CASE j = i
        BY <2>2, <3>1
    <3>2. CASE j # i
      <4>1. j \in worktrees \cap born /\ hand[h].new # j
          BY <1>0, <1>1, <2>1, <3>2
      <4> QED BY <2>1, <2>2, <4>1
    <3> QED BY <3>1, <3>2
  <2>7. \A j \in isolated' : worker'[j] = "alive" => j \in worktrees'
      BY <2>1, <2>3
  <2> QED BY <2>4, <2>5, <2>6, <2>7
<1>7. ASSUME NEW h \in Handlers, LaunchOk(h) PROVE WorktreeInv'
  <2> DEFINE i == hand[h].new
  <2>1. /\ worker' = [worker EXCEPT ![i] = "alive"] /\ hand' = [hand EXCEPT ![h].pc = "track"]
        /\ hand[h].pc = "launch"
        /\ UNCHANGED <<monitor, isolated, worktrees, leftBehind, used, born>>
      BY <1>7 DEF LaunchOk, regVars, nameVars
  <2>2. hand[h] \in HandlerState /\ i \in Ids /\ i \in used
      BY <1>0, <1>1, <2>1 DEF Unlaunched, IndInv, NamesFresh
  <2>3. /\ \A g \in Handlers : hand'[g].new = hand[g].new
        /\ hand'[h].pc = "track" /\ \A g \in Handlers \ {h} : hand'[g] = hand[g]
    <3>1. [hand[h] EXCEPT !.pc = "track"].new = i /\ [hand[h] EXCEPT !.pc = "track"].pc = "track"
        BY <2>2 DEF HandlerState, NoRequest
    <3> QED BY <1>0, <2>1, <3>1
  <2>4. \A j \in Ids : worker'[j] = IF j = i THEN "alive" ELSE worker[j]
      BY <1>0, <2>1
  <2>5. worker[i] = "none" /\ monitor[i] = "none" /\ (i \in isolated => i \in worktrees)
      BY <2>1 DEF Unlaunched
  <2> HIDE DEF i
  <2>6. \A j \in Ids \ used : worker'[j] = "none" /\ monitor'[j] = "none" /\ j \notin isolated'
      BY <2>1, <2>2, <2>4
  <2>7. ASSUME NEW g \in Handlers, hand'[g].pc \in Unlaunched
        PROVE  /\ worker'[hand'[g].new] = "none" /\ monitor'[hand'[g].new] = "none"
               /\ hand'[g].new \in isolated' => hand'[g].new \in worktrees'
    <3>1. g # h /\ hand[g].pc \in Unlaunched /\ hand[g].new \in Ids
        BY <1>1, <2>3, <2>7 DEF Unlaunched
    <3>2. hand[g].new # i
        BY <1>0, <1>2, <3>1 DEF i
    <3> QED BY <2>1, <2>3, <2>4, <3>1, <3>2
  <2>8. CleanupAfterExit'
      BY <2>1, <2>4, <2>5
  <2>9. WorktreesAccounted'
      BY <1>0, <2>1, <2>3, <2>4, <2>5
  <2> QED BY <2>1, <2>6, <2>7, <2>8, <2>9
<1>8. ASSUME NEW h \in Handlers, Track(h) PROVE WorktreeInv'
  <2> DEFINE i == hand[h].new
  <2>1. /\ monitor' = [monitor EXCEPT ![i] = "wait"] /\ hand' = [hand EXCEPT ![h] = NoRequest]
        /\ hand[h].pc = "track" /\ UNCHANGED <<worker, isolated, worktrees, leftBehind, used, born>>
      BY <1>8 DEF Track, nameVars
  <2>2. i \in Ids /\ i \in used
      BY <1>0, <1>1, <2>1 DEF Unlaunched, IndInv, NamesFresh
  <2>3. /\ \A g \in Handlers \ {h} : hand'[g] = hand[g]
        /\ hand'[h].pc = "idle"
      BY <1>0, <2>1 DEF NoRequest
  <2>4. \A j \in Ids : monitor'[j] = IF j = i THEN "wait" ELSE monitor[j]
      BY <1>0, <2>1
  <2>5. \A g \in Handlers : hand'[g].pc \in Unlaunched =>
            /\ hand'[g] = hand[g] /\ hand[g].new \in Ids /\ hand[g].new # i
      BY <1>0, <1>1, <1>2, <2>2, <2>3 DEF Unlaunched
  <2> HIDE DEF i
  <2>6. NotLaunchedYet'
      BY <1>0, <2>1, <2>2, <2>4, <2>5
  <2>7. CleanupAfterExit'
      BY <2>1, <2>4
  <2>8. WorktreesAccounted'
    <3> SUFFICES ASSUME NEW j \in worktrees \cap born
                 PROVE  \/ \E g \in Handlers : hand'[g].new = j
                        \/ monitor'[j] # "none" \/ j \in leftBehind
        BY <2>1
    <3>1. CASE j = i
        BY <2>2, <2>4, <3>1
    <3>2. CASE j # i
        BY <1>0, <2>3, <2>4, <3>2 DEF i
    <3> QED BY <3>1, <3>2
  <2> QED BY <2>6, <2>7, <2>8
<1>9. ASSUME NEW h \in Handlers, PortsExhausted(h) \/ SwapLost(h) \/ LaunchFailed(h)
      PROVE  WorktreeInv'
  <2> DEFINE i == hand[h].new
  <2>1. /\ CleanupWorktree(i) /\ hand' = [hand EXCEPT ![h] = NoRequest]
        /\ hand[h].pc \in Unlaunched /\ UNCHANGED <<worker, monitor, isolated, used, born>>
      BY <1>9 DEF PortsExhausted, SwapLost, LaunchFailed, regVars, hostVars, Unlaunched
  <2>0. /\ worktrees' \subseteq worktrees /\ worktrees \ {i} \subseteq worktrees'
        /\ leftBehind \subseteq leftBehind' /\ (i \in worktrees' => i \in leftBehind')
      BY <2>1, CleanupEffect
  <2>2. i \in Ids /\ worker[i] = "none"
      BY <1>0, <1>1, <2>1
  <2>3. /\ \A g \in Handlers \ {h} : hand'[g] = hand[g]
        /\ hand'[h].pc = "idle"
      BY <1>0, <2>1 DEF NoRequest
  <2>4. \A g \in Handlers : hand'[g].pc \in Unlaunched =>
            /\ hand'[g] = hand[g] /\ hand[g].new # i
      BY <1>0, <1>2, <2>2, <2>3 DEF Unlaunched
  <2> HIDE DEF i
  <2>5. NotLaunchedYet'
      BY <2>0, <2>1, <2>4
  <2>6. ASSUME NEW j \in worktrees' \cap born'
        PROVE  \/ \E g \in Handlers : hand'[g].new = j
               \/ monitor'[j] # "none" \/ j \in leftBehind'
    <3>1. CASE j = i
        BY <2>0, <3>1
    <3>2. CASE j # i
        BY <1>0, <2>0, <2>1, <2>3, <3>2 DEF i
    <3> QED BY <3>1, <3>2
  <2>7. \A j \in isolated' : worker'[j] = "alive" => j \in worktrees'
      BY <2>0, <2>1, <2>2
  <2>8. WorktreesAccounted'
      BY <2>6, <2>7
  <2> QED BY <2>1, <2>5, <2>8
<1>10. ASSUME NEW i \in Ids, WorkerExits(i) \/ MonitorRecords(i) PROVE WorktreeInv'
  <2>1. /\ UNCHANGED <<hand, isolated, worktrees, leftBehind, used, born>>
        /\ \/ /\ worker[i] = "alive" /\ worker' = [worker EXCEPT ![i] = "exited"]
              /\ UNCHANGED monitor
           \/ /\ worker[i] = "exited" /\ monitor[i] = "wait" /\ UNCHANGED worker
              /\ monitor' = [monitor EXCEPT ![i] = "cleanup"]
      BY <1>10 DEF WorkerExits, MonitorRecords, regVars, nameVars
  <2>2. \A j \in Ids : j # i => worker'[j] = worker[j] /\ monitor'[j] = monitor[j]
      BY <1>0, <2>1
  <2>3. /\ worker'[i] = "exited" /\ worker[i] # "none"
        /\ monitor'[i] = monitor[i] \/ monitor'[i] = "cleanup"
      BY <1>0, <2>1
  <2>4. NotLaunchedYet'
      BY <1>0, <1>1, <2>1, <2>2, <2>3
  <2> QED BY <1>0, <2>1, <2>2, <2>3, <2>4
<1>11. ASSUME NEW i \in Ids, MonitorCleans(i) PROVE WorktreeInv'
  <2>1. /\ UNCHANGED <<hand, worker, isolated, used, born>> /\ monitor[i] = "cleanup"
        /\ monitor' = [monitor EXCEPT ![i] = "none"] /\ CleanupWorktree(i)
      BY <1>11 DEF MonitorCleans, regVars
  <2>0. /\ worktrees' \subseteq worktrees /\ worktrees \ {i} \subseteq worktrees'
        /\ leftBehind \subseteq leftBehind' /\ (i \in worktrees' => i \in leftBehind')
      BY <2>1, CleanupEffect
  <2>2. /\ \A j \in Ids : monitor'[j] = IF j = i THEN "none" ELSE monitor[j]
        /\ worker[i] = "exited"
      BY <1>0, <2>1
  <2>3. NotLaunchedYet'
      BY <1>0, <1>1, <2>0, <2>1, <2>2
  <2>4. WorktreesAccounted'
      BY <1>0, <2>0, <2>1, <2>2
  <2> QED BY <1>0, <2>1, <2>2, <2>3, <2>4
<1>12. CASE Stop
  <2>1. /\ born' = {} /\ UNCHANGED <<worker, isolated, worktrees, leftBehind, used>>
        /\ \A i \in Ids : monitor'[i] = "none"
        /\ \A g \in Handlers : hand'[g].pc = "idle"
      BY <1>12 DEF Stop, nameVars, NoRequest
  <2> QED BY <2>1 DEF Unlaunched
<1>13. ASSUME NEW h \in Handlers,
              \/ SpawnRequest(h) \/ PrepareFails(h)
              \/ \E i \in Ids : RespawnLookup(h, i)
       PROVE  WorktreeInv'
  <2>1. /\ hand[h].pc \in {"idle", "prepare"}
        /\ UNCHANGED <<worker, monitor, isolated, worktrees, leftBehind, used, born>>
        /\ hand'[h].pc \in {"idle", "prepare"} /\ hand'[h].new = NoId
        /\ \A g \in Handlers \ {h} : hand'[g] = hand[g]
      BY <1>0, <1>13 DEF SpawnRequest, PrepareFails, RespawnLookup, NoRequest,
         regVars, hostVars, nameVars
  <2>2. hand[h].new = NoId
      BY <1>1, <2>1
  <2> QED BY <1>4, <2>1, <2>2
<1>14. ASSUME NEW h \in Handlers,
              TakeEndpoint(h) \/ Register(h) \/ Swap(h) \/ LaunchError(h)
       PROVE  WorktreeInv'
  <2>1. /\ hand[h].pc \in Unlaunched
        /\ UNCHANGED <<worker, monitor, isolated, worktrees, leftBehind, used, born>>
        /\ \E pc \in Unlaunched : hand' = [hand EXCEPT ![h].pc = pc]
      BY <1>14 DEF TakeEndpoint, Register, Swap, LaunchError, regVars, hostVars, nameVars,
         Unlaunched
  <2> QED BY <1>5, <2>1
<1>15. CASE \/ \E i \in Ids : \/ Kill(i) \/ \E force \in BOOLEAN : Rm(i, force)
                              \/ \E to \in {"Running", "Idle"} : ReportStatus(i, to)
            \/ Drain \/ Restart \/ UNCHANGED vars
    BY <1>3, <1>15 DEF Kill, Rm, ReportStatus, Drain, Restart, vars, regVars, hostVars, nameVars
<1> QED BY <1>6, <1>7, <1>8, <1>9, <1>10, <1>11, <1>12, <1>13, <1>14, <1>15, NextCases
        DEF Quiet, Mutates

\* No path of this daemon process loses sight of a worktree: it has a handler or a
\* monitor that will clean it up, or that one clean-up has failed; and no running
\* worker has lost its own.  For any number of agents and connections, used-up
\* ports, failed launches and removals, lost respawns, exits and restarts.
THEOREM WorktreesNeverLeak == Spec => []WorktreesAccounted
<1>1. Init => WorktreeInv
    BY DEF Init, WorktreeInv, NotLaunchedYet, CleanupAfterExit, WorktreesAccounted, NoRequest,
           Unlaunched
<1>2. WorktreeInv => WorktreesAccounted
    BY DEF WorktreeInv
<1> QED BY <1>1, <1>2, IndInvInductive, StepWorktrees, PTL DEF Spec

----------------------------------------------------------------------------
(* A stopped agent's worker gets its signal.                               *)

InService == {"Running", "Idle"}

\* What the two status changes do to the table.
LEMMA SetStatusEffect ==
    ASSUME TypeOK, NEW i \in Ids, NEW to, SetStatus(i, to) \/ SetStatusIfRunning(i, to)
    PROVE  \A j \in Ids : reg'[j] = reg[j] \/ (j = i /\ reg'[j] = to)
BY DEF SetStatus, SetStatusIfRunning, Persist, TypeOK

\* A record enters service by the Track of its handler only, or is loaded.
LEMMA ServiceBegins ==
    ASSUME TypeOK, [Next]_vars, NEW j \in Ids, reg'[j] \in InService, reg[j] \notin InService
    PROVE  Restart \/ \E h \in Handlers : Track(h) /\ hand[h].new = j
<1> USE DEF InService
<1>1. CASE Quiet \/ UNCHANGED vars
    BY <1>1, QuietRegistry DEF vars, regVars
<1>2. ASSUME NEW h \in Handlers, Register(h) \/ Swap(h) \/ LaunchFailed(h) PROVE FALSE
  <2>1. hand[h].new \in Ids
      BY <1>2, HandledName, TypeOKParts DEF Register, Swap, LaunchFailed
  <2>2. reg'[j] \in {reg[j], "None", "Spawning", "Failed"}
    <3>1. CASE LaunchFailed(h)
        BY <2>1, <3>1, SetStatusEffect DEF LaunchFailed
    <3>2. CASE Register(h) \/ Swap(h)
        BY <3>2 DEF Register, Swap, Persist, TypeOK
    <3> QED BY <1>2, <3>1, <3>2
  <2> QED BY <2>2
<1>3. ASSUME NEW h \in Handlers, Track(h) PROVE hand[h].new = j
  <2>1. hand[h].new \in Ids
      BY <1>3, HandledName, TypeOKParts DEF Track
  <2> QED BY <1>3, <2>1, SetStatusEffect DEF Track
<1>4. ASSUME NEW i \in Ids,
             \/ Kill(i) \/ MonitorRecords(i) \/ \E force \in BOOLEAN : Rm(i, force)
      PROVE  FALSE
    BY <1>4, SetStatusEffect DEF Kill, MonitorRecords, Rm
<1>5. ASSUME NEW i \in Ids, NEW to \in {"Running", "Idle"}, ReportStatus(i, to) PROVE FALSE
    BY <1>5 DEF ReportStatus, Persist, TypeOK
<1>6. CASE Drain \/ Stop
    BY <1>6 DEF Drain, Stop, Persist
<1> QED BY <1>1, <1>2, <1>3, <1>4, <1>5, <1>6, NextCases DEF Mutates

\* A pid leaves the table with its record or after the exit of its worker.
LEMMA PidForgotten ==
    ASSUME TypeOK, [Next]_vars, NEW j \in tracked, j \notin tracked'
    PROVE  reg'[j] \notin InService \/ worker[j] = "exited"
<1> USE DEF InService
<1>1. CASE Quiet \/ UNCHANGED vars
    BY <1>1 DEF Quiet, SpawnRequest, PrepareFails, TakeEndpoint, PortsExhausted, SwapLost,
       LaunchOk, LaunchError, RespawnLookup, Prepare, WorkerExits, MonitorCleans, regVars, vars
<1>2. ASSUME NEW h \in Handlers, Swap(h) PROVE reg'[j] \notin InService
  <2>1. tracked' = tracked \ {hand[h].old}
      BY <1>2 DEF Swap
  <2>2. j = hand[h].old /\ j \in Ids
      BY <2>1 DEF TypeOK
  <2>3. reg' = [reg EXCEPT ![hand[h].old] = "None", ![hand[h].new] = "Spawning"]
      BY <1>2 DEF Swap, Persist
  <2> QED BY <2>2, <2>3 DEF TypeOK
<1>3. ASSUME NEW i \in Ids, NEW force \in BOOLEAN, Rm(i, force) PROVE reg'[j] \notin InService
    BY <1>3 DEF Rm, SetStatus, Persist, TypeOK
<1>4. ASSUME NEW i \in Ids, MonitorRecords(i) PROVE worker[j] = "exited"
    BY <1>4 DEF MonitorRecords
<1>5. CASE Stop
    BY <1>5 DEF Stop, TypeOK
<1>6. CASE \/ \E h \in Handlers : Register(h) \/ Track(h) \/ LaunchFailed(h)
           \/ \E i \in Ids : \/ Kill(i)
                             \/ \E to \in {"Running", "Idle"} : ReportStatus(i, to)
           \/ Drain \/ Restart
    BY <1>6 DEF Register, Track, LaunchFailed, Kill, ReportStatus, Drain, Restart
<1> QED BY <1>1, <1>2, <1>3, <1>4, <1>5, <1>6, NextCases DEF Mutates

\* A handler's agent is the one it had, or the one it has just prepared; names are
\* handed out by Prepare and workers launched by LaunchOk.
LEMMA WhoseAgent ==
    ASSUME TypeOK, [Next]_vars
    PROVE  /\ \A g \in Handlers : hand'[g].new # NoId =>
                 \/ hand'[g].new = hand[g].new
                 \/ hand'[g].new \in Ids /\ Prepare(g, hand'[g].new)
           /\ \A i \in born' : i \in born \/ \E h \in Handlers : Prepare(h, i)
           /\ \A i \in Ids : worker'[i] = "alive" =>
                 worker[i] = "alive" \/ \E h \in Handlers : LaunchOk(h) /\ hand[h].new = i
<1>0. /\ hand \in [Handlers -> HandlerState] /\ worker \in [Ids -> {"none", "alive", "exited"}]
    BY DEF TypeOK
<1>1. ASSUME NEW h \in Handlers, NEW i \in Ids, Prepare(h, i)
      PROVE  /\ hand'[h].new = i /\ \A g \in Handlers \ {h} : hand'[g] = hand[g]
             /\ born' = born \cup {i} /\ worker' = worker
  <2>1. hand[h] \in [pc : {"prepare"}, old : Ids \cup {NoId}, new : {NoId}, iso : BOOLEAN]
      BY <1>0, <1>1 DEF Prepare, HandlerState, NoRequest
  <2> QED BY <1>0, <1>1, <2>1 DEF Prepare, hostVars
<1>2. ASSUME NEW h \in Handlers,
             \/ SpawnRequest(h) \/ PrepareFails(h) \/ PortsExhausted(h) \/ SwapLost(h)
             \/ Track(h) \/ LaunchFailed(h) \/ \E i \in Ids : RespawnLookup(h, i)
      PROVE  /\ hand'[h].new = NoId /\ \A g \in Handlers \ {h} : hand'[g] = hand[g]
             /\ born' = born /\ worker' = worker
    BY <1>0, <1>2 DEF SpawnRequest, PrepareFails, PortsExhausted, SwapLost, Track, LaunchFailed,
       RespawnLookup, NoRequest, regVars, hostVars
<1>3. ASSUME NEW h \in Handlers,
             TakeEndpoint(h) \/ Register(h) \/ Swap(h) \/ LaunchOk(h) \/ LaunchError(h)
      PROVE  /\ \A g \in Handlers : hand'[g].new = hand[g].new
             /\ born' = born
             /\ worker' = worker \/ (LaunchOk(h) /\ \A i \in Ids : i # hand[h].new =>
                                                        worker'[i] = worker[i])
  <2>1. PICK pc \in {"register", "swap", "launch", "track", "launchFailed"} :
            hand' = [hand EXCEPT ![h].pc = pc]
      BY <1>3 DEF TakeEndpoint, Register, Swap, LaunchOk, LaunchError
  <2>2. [hand[h] EXCEPT !.pc = pc].new = hand[h].new
    <3>1. hand[h] \in HandlerState
        BY <1>0
    <3> QED BY <3>1 DEF HandlerState, NoRequest
  <2> QED BY <1>0, <1>3, <2>1, <2>2
          DEF TakeEndpoint, Register, Swap, LaunchOk, LaunchError, regVars, hostVars
<1>4. CASE Stop
    BY <1>4 DEF Stop, NoRequest
<1>5. CASE \/ \E i \in Ids : \/ Kill(i) \/ \E force \in BOOLEAN : Rm(i, force)
                             \/ \E to \in {"Running", "Idle"} : ReportStatus(i, to)
                             \/ MonitorRecords(i) \/ MonitorCleans(i) \/ WorkerExits(i)
           \/ Drain \/ Restart \/ UNCHANGED vars
  <2>1. UNCHANGED <<hand, born>>
      BY <1>5 DEF Kill, Rm, ReportStatus, MonitorRecords, MonitorCleans, WorkerExits, Drain,
         Restart, vars, regVars
  <2>2. \A i \in Ids : worker'[i] = "alive" => worker[i] = "alive"
      BY <1>0, <1>5 DEF Kill, Rm, ReportStatus, MonitorRecords, MonitorCleans, WorkerExits,
         Drain, Restart, vars, hostVars
  <2> QED BY <2>1, <2>2
<1> QED BY <1>1, <1>2, <1>3, <1>4, <1>5, NextCases DEF Quiet, Mutates

LEMMA StepPids == IndInv /\ PidsKnown /\ [Next]_vars => PidsKnown'
<1> SUFFICES ASSUME IndInv, PidsKnown, [Next]_vars PROVE PidsKnown'
    OBVIOUS
<1>0. TypeOK /\ born \subseteq Ids /\ IndInv'
    BY IndInvInductive DEF IndInv, TypeOK
<1>1. \A h \in Handlers, i \in Ids : Prepare(h, i) => reg[i] = "None" /\ reg' = reg
    BY DEF IndInv, NamesFresh, Prepare
<1>2. Restart \/ Stop => born' = {} /\ \A h \in Handlers : hand'[h].new = NoId
    BY DEF Restart, Stop, IndInv, StoppedIsEmpty, NoRequest
<1>3. ASSUME NEW g \in Handlers, hand'[g].new # NoId, reg'[hand'[g].new] \in InService
      PROVE  FALSE
  <2> DEFINE j == hand'[g].new
  <2>1. CASE j \in Ids /\ Prepare(g, j)
      BY <1>1, <1>3, <2>1 DEF InService
  <2>2. CASE j = hand[g].new
    <3>1. reg[j] \notin InService
        BY <1>3, <2>2 DEF PidsKnown, InService
    <3>2. j \in Ids
        BY <1>3, <2>2, <1>0 DEF TypeOK, HandlerState, NoRequest
    <3>3. PICK h \in Handlers : Track(h) /\ hand[h].new = j
        BY <1>0, <1>2, <1>3, <3>1, <3>2, ServiceBegins
    <3>4. g = h
        BY <1>3, <2>2, <3>3 DEF IndInv, HandlersApart
    <3>5. hand'[h].new = NoId
        BY <1>0, <3>3 DEF Track, TypeOK, NoRequest
    <3> QED BY <1>3, <3>4, <3>5
  <2> QED BY <1>0, <1>3, <2>1, <2>2, WhoseAgent
<1>4. ASSUME NEW i \in born', reg'[i] \in InService, worker'[i] = "alive" PROVE i \in tracked'
  <2>1. i \in born
      BY <1>0, <1>1, <1>4, WhoseAgent DEF InService, IndInv, TypeOK
  <2>2. CASE reg[i] \in InService
    <3>1. worker[i] = "alive"
      <4>1. \A h \in Handlers : LaunchOk(h) => hand[h].new # i
        <5>1. NoId \notin Ids
            BY ConstantsAssumption
        <5> QED BY <1>0, <2>1, <2>2, <5>1 DEF PidsKnown, InService
      <4> QED BY <1>0, <1>4, <2>1, <4>1, WhoseAgent
    <3>2. i \in tracked
        BY <2>1, <2>2, <3>1 DEF PidsKnown, InService
    <3> QED BY <1>0, <1>4, <3>1, <3>2, PidForgotten
  <2>3. CASE reg[i] \notin InService
    <3>1. PICK h \in Handlers : Track(h) /\ hand[h].new = i
        BY <1>0, <1>2, <1>4, <2>1, <2>3, ServiceBegins
    <3> QED BY <3>1 DEF Track
  <2> QED BY <2>2, <2>3
<1> QED BY <1>3, <1>4 DEF PidsKnown, InService

\* Kill, a forced Rm and Drain signal every worker whose record they end, in the
\* step that ends it; only a Respawn leaves the old worker running, and an exit
\* that is not recorded yet is no worker any more.
THEOREM StopsSignalWorkers == Spec => StopSignalsWorker
<1>1. ASSUME IndInv, PidsKnown, [Next]_vars, NEW i \in born, reg[i] \in InService,
             reg'[i] \in {"Killed", "Drained", "None"}, worker[i] = "alive", up'
      PROVE  i \in sig' \/ \E h \in Handlers : Swap(h) /\ hand[h].old = i
  <2>0. TypeOK /\ i \in Ids /\ i \in tracked /\ reg[i] # reg'[i]
      BY <1>1 DEF IndInv, TypeOK, PidsKnown, InService
  <2>1. CASE Quiet \/ UNCHANGED vars
      BY <2>0, <2>1, QuietRegistry DEF vars, regVars
  <2>2. ASSUME NEW h \in Handlers, Register(h) PROVE FALSE
    <3>1. reg' = [reg EXCEPT ![hand[h].new] = "Spawning"]
        BY <2>2 DEF Register, Persist
    <3> QED BY <1>1, <2>0, <3>1 DEF TypeOK
  <2>3. ASSUME NEW h \in Handlers, Swap(h) PROVE hand[h].old = i
    <3>1. reg' = [reg EXCEPT ![hand[h].old] = "None", ![hand[h].new] = "Spawning"]
        BY <2>3 DEF Swap, Persist
    <3> QED BY <1>1, <2>0, <3>1 DEF TypeOK
  <2>4. ASSUME NEW h \in Handlers, Track(h) \/ LaunchFailed(h) PROVE FALSE
    <3>1. hand[h].new \in Ids
        BY <2>0, <2>4, HandledName, TypeOKParts DEF Track, LaunchFailed
    <3>2. reg'[i] \in {reg[i], "Running", "Failed"}
        BY <2>0, <2>4, <3>1, SetStatusEffect DEF Track, LaunchFailed
    <3> QED BY <1>1, <3>2 DEF InService
  <2>5. ASSUME NEW j \in Ids, Kill(j) \/ MonitorRecords(j) \/ \E force \in BOOLEAN : Rm(j, force)
        PROVE  i \in sig'
    <3>1. CASE MonitorRecords(j)
        BY <1>1, <2>0, <3>1, SetStatusEffect DEF MonitorRecords
    <3>2. CASE Kill(j)
      <4>1. i = j
          BY <2>0, <3>2, SetStatusEffect DEF Kill
      <4> QED BY <2>0, <3>2, <4>1 DEF Kill, SignalWorkers
    <3>3. ASSUME NEW force \in BOOLEAN, Rm(j, force) PROVE i \in sig'
      <4>1. i = j
          BY <2>0, <3>3, SetStatusEffect DEF Rm
      <4>2. force
          BY <1>1, <3>3, <4>1 DEF Rm, Stopped, InService
      <4> QED BY <2>0, <3>3, <4>1, <4>2 DEF Rm, SignalWorkers
    <3> QED BY <2>5, <3>1, <3>2, <3>3
  <2>6. ASSUME NEW j \in Ids, NEW to \in {"Running", "Idle"}, ReportStatus(j, to) PROVE FALSE
    <3>1. reg' = [reg EXCEPT ![j] = to]
        BY <2>6 DEF ReportStatus, Persist
    <3> QED BY <1>1, <2>0, <3>1 DEF TypeOK
  <2>7. CASE Drain
      BY <1>1, <2>0, <2>7 DEF Drain, SignalWorkers, Live, InService
  <2>8. CASE Stop \/ Restart
      BY <1>1, <2>8 DEF Stop, Restart, IndInv, StoppedIsEmpty
  <2> QED BY <1>1, <2>1, <2>2, <2>3, <2>4, <2>5, <2>6, <2>7, <2>8, NextCases DEF Mutates
<1>2. Init => PidsKnown
    BY DEF Init, PidsKnown, NoRequest
<1>3. IndInv /\ PidsKnown /\ [Next]_vars =>
          \A i \in born :
              /\ reg[i] \in {"Running", "Idle"} /\ reg'[i] \in {"Killed", "Drained", "None"}
              /\ worker[i] = "alive" /\ up'
              => i \in sig' \/ \E h \in Handlers : Swap(h) /\ hand[h].old = i
    BY <1>1 DEF InService
<1>4. Spec => [](IndInv /\ PidsKnown)
    BY <1>2, IndInvInductive, StepPids, PTL DEF Spec
<1> QED BY <1>3, <1>4, PTL DEF Spec, StopSignalsWorker

----------------------------------------------------------------------------
(* The daemon implements the lifecycle.                                    *)

\* A write of the registry leaves on disk what it leaves in memory, except for
\* the agents it marks dirty.
LEMMA PersistOnDisk ==
    ASSUME NEW r \in [Ids -> Statuses], NEW ids \in SUBSET Ids, Persist(r, ids),
           \A i \in (Ids \ ids) \ dirty : disk[i] = r[i]
    PROVE  \A i \in Ids \ dirty' : disk'[i] = reg'[i]
BY DEF Persist

LEMMA StepOnDisk == TypeOK /\ MemoryOnDisk /\ [Next]_vars => MemoryOnDisk'
<1> SUFFICES ASSUME TypeOK, MemoryOnDisk, [Next]_vars, up' PROVE MemoryOnDisk'
    BY DEF MemoryOnDisk
<1>0. RegistryOK /\ HandlersOK
    BY TypeOKParts
<1>1. ASSUME up, NEW r \in [Ids -> Statuses], NEW ids \in SUBSET Ids, Persist(r, ids),
             \A i \in Ids \ ids : r[i] = reg[i]
      PROVE  MemoryOnDisk'
    BY <1>1, PersistOnDisk DEF MemoryOnDisk
<1>2. CASE UNCHANGED <<up, reg, disk, dirty>>
    BY <1>2 DEF MemoryOnDisk
<1>3. CASE Quiet \/ UNCHANGED vars
    BY <1>2, <1>3, QuietRegistry DEF vars, regVars, Quiet, SpawnRequest, PrepareFails,
       TakeEndpoint, PortsExhausted, SwapLost, LaunchOk, LaunchError, RespawnLookup, Prepare,
       WorkerExits, MonitorCleans
<1>4. ASSUME up, UNCHANGED up, NEW i \in Ids, NEW to \in Statuses,
             SetStatus(i, to) \/ SetStatusIfRunning(i, to)
      PROVE  MemoryOnDisk'
  <2>1. CASE Persist([reg EXCEPT ![i] = to], {i})
    <3>1. /\ [reg EXCEPT ![i] = to] \in [Ids -> Statuses] /\ {i} \in SUBSET Ids
          /\ \A j \in Ids \ {i} : [reg EXCEPT ![i] = to][j] = reg[j]
        BY <1>0 DEF RegistryOK
    <3> QED BY <1>1, <1>4, <2>1, <3>1
  <2>2. CASE UNCHANGED <<reg, disk, dirty, wfails>>
      BY <1>2, <1>4, <2>2
  <2> QED BY <1>4, <2>1, <2>2 DEF SetStatus, SetStatusIfRunning
<1>5. ASSUME NEW h \in Handlers, Register(h) \/ Swap(h) \/ Track(h) \/ LaunchFailed(h)
      PROVE  MemoryOnDisk'
  <2> DEFINE i == hand[h].new
             o == hand[h].old
  <2>1. hand[h] \in HandlerState /\ i \in Ids
      BY <1>0, <1>5, HandledName DEF HandlersOK, Register, Swap, Track, LaunchFailed
  <2>2. CASE Register(h)
    <3>1. /\ [reg EXCEPT ![i] = "Spawning"] \in [Ids -> Statuses] /\ {i} \in SUBSET Ids
          /\ \A j \in Ids \ {i} : [reg EXCEPT ![i] = "Spawning"][j] = reg[j]
        BY <1>0, <2>1 DEF RegistryOK, Statuses, Status, Live
    <3> QED BY <1>1, <2>2, <3>1 DEF Register
  <2>3. CASE Swap(h)
    <3>1. o \in Ids
        BY <2>1, <2>3, HandlerCases DEF Swap
    <3> DEFINE r == [reg EXCEPT ![o] = "None", ![i] = "Spawning"]
    <3>2. /\ r \in [Ids -> Statuses] /\ {o, i} \in SUBSET Ids
          /\ \A j \in Ids \ {o, i} : r[j] = reg[j]
        BY <1>0, <2>1, <3>1 DEF RegistryOK, Statuses, Status, Live
    <3>3. up /\ Persist(r, {o, i})
        BY <2>3 DEF Swap
    <3> HIDE DEF r, i, o
    <3> QED BY <1>1, <3>2, <3>3
  <2>4. CASE Track(h) \/ LaunchFailed(h)
      BY <1>4, <2>1, <2>4 DEF Track, LaunchFailed, Statuses, Status, Live, Terminal
  <2> QED BY <1>5, <2>2, <2>3, <2>4
<1>6. ASSUME NEW i \in Ids,
             \/ Kill(i) \/ MonitorRecords(i) \/ \E force \in BOOLEAN : Rm(i, force)
      PROVE  MemoryOnDisk'
    BY <1>4, <1>6 DEF Kill, MonitorRecords, Rm, Statuses, Status, Terminal
<1>7. ASSUME NEW i \in Ids, NEW to \in {"Running", "Idle"}, ReportStatus(i, to)
      PROVE  MemoryOnDisk'
  <2>1. /\ [reg EXCEPT ![i] = to] \in [Ids -> Statuses] /\ {i} \in SUBSET Ids
        /\ \A j \in Ids \ {i} : [reg EXCEPT ![i] = to][j] = reg[j]
      BY <1>0 DEF RegistryOK, Statuses, Status, Live
  <2> QED BY <1>1, <1>7, <2>1 DEF ReportStatus
<1>8. CASE Drain
  <2> DEFINE live == {i \in Ids : reg[i] \in Live}
             r == [i \in Ids |-> IF i \in live THEN "Drained" ELSE reg[i]]
  <2>1. /\ r \in [Ids -> Statuses] /\ live \in SUBSET Ids
        /\ \A j \in Ids \ live : r[j] = reg[j]
      BY <1>0 DEF RegistryOK, Statuses, Status, Terminal
  <2>2. up /\ Persist(r, live)
      BY <1>8 DEF Drain
  <2> HIDE DEF r, live
  <2> QED BY <1>1, <2>1, <2>2
<1>9. CASE Restart
  <2> DEFINE ids == {i \in Ids : Swept(disk)[i] # disk[i]}
  <2>1. Swept(disk) \in [Ids -> Statuses] /\ ids \in SUBSET Ids
      BY <1>0, SweptTyping DEF RegistryOK
  <2>2. Persist(Swept(disk), ids)
      BY <1>9 DEF Restart
  <2>3. \A i \in Ids \ ids : disk[i] = Swept(disk)[i]
      OBVIOUS
  <2> HIDE DEF ids
  <2> QED BY <2>1, <2>2, <2>3, PersistOnDisk DEF MemoryOnDisk
<1>10. CASE Stop
    BY <1>10 DEF Stop
<1> QED BY <1>3, <1>5, <1>6, <1>7, <1>8, <1>9, <1>10, NextCases DEF Mutates

\* A write of the running daemon is a change of the listed status of its agents,
\* some of which may not reach the disk.
LEMMA PersistBecomes ==
    ASSUME TypeOK, up, up', NEW r \in [Ids -> Statuses], NEW ids \in SUBSET Ids,
           Persist(r, ids), NEW f, \A i \in ids : f[i] = r[i],
           \A i \in Ids \ ids : r[i] = reg[i]
    PROVE  Lifecycle!Becomes(f, ids)
<1>1. reg' = r /\ \E failed \in SUBSET ids : dirty' = (dirty \ ids) \cup failed
    BY DEF Persist
<1>2. r = [i \in Ids |-> IF i \in ids THEN f[i] ELSE reg[i]]
    OBVIOUS
<1>3. reg' = [i \in Ids |-> IF i \in ids THEN f[i] ELSE reg[i]]
    BY <1>1, <1>2
<1> QED BY <1>1, <1>3 DEF Lifecycle!Becomes

\* A change of one record, if it happens, is a move of the lifecycle.
LEMMA SetStatusMoves ==
    ASSUME TypeOK, up, up', NEW i \in Ids, NEW to \in Statuses, NEW from, reg[i] \in from,
           Persist([reg EXCEPT ![i] = to], {i})
    PROVE  Lifecycle!Move(i, from, to)
<1>1. /\ [reg EXCEPT ![i] = to] \in [Ids -> Statuses]
      /\ \A j \in {i} : [k \in Ids |-> to][j] = [reg EXCEPT ![i] = to][j]
      /\ \A j \in Ids \ {i} : [reg EXCEPT ![i] = to][j] = reg[j]
    BY DEF TypeOK, Statuses
<1>2. Lifecycle!Becomes([k \in Ids |-> to], {i})
    BY <1>1, PersistBecomes
<1> QED BY <1>2 DEF Lifecycle!Move

LEMMA StepLifecycle ==
    ASSUME IndInv, MemoryOnDisk, [Next]_vars
    PROVE  [Lifecycle!Next]_(Lifecycle!vars)
<1>0. TypeOK /\ RegistryOK /\ HandlersOK /\ NoId \notin Ids
    BY TypeOKParts, ConstantsAssumption DEF IndInv
<1>1. CASE UNCHANGED <<up, reg, disk, dirty>>
    BY <1>1 DEF Lifecycle!vars, Swept
<1>2. CASE Quiet \/ UNCHANGED vars
    BY <1>1, <1>2, QuietRegistry DEF vars, regVars, Quiet, SpawnRequest, PrepareFails,
       TakeEndpoint, PortsExhausted, SwapLost, LaunchOk, LaunchError, RespawnLookup, Prepare,
       WorkerExits, MonitorCleans
<1>3. CASE UNCHANGED <<up, reg, disk, dirty, wfails>>
    BY <1>1, <1>3
<1>4. ASSUME NEW h \in Handlers, Register(h) PROVE Lifecycle!Next
  <2> DEFINE i == hand[h].new
  <2>1. i \in Ids /\ reg[i] = "None" /\ up /\ up'
      BY <1>0, <1>4, HandledName DEF Register, IndInv, UnregisteredAbsent, Unregistered
  <2>2. Persist([reg EXCEPT ![i] = "Spawning"], {i})
      BY <1>4 DEF Register
  <2>3. Lifecycle!Move(i, {"None"}, "Spawning")
      BY <1>0, <2>1, <2>2, SetStatusMoves DEF Statuses, Status, Live
  <2> QED BY <2>1, <2>3 DEF Lifecycle!Next, Lifecycle!Register
<1>5. ASSUME NEW h \in Handlers, Swap(h) PROVE Lifecycle!Next
  <2> DEFINE i == hand[h].new
             o == hand[h].old
             r == [reg EXCEPT ![o] = "None", ![i] = "Spawning"]
             f == [j \in Ids |-> IF j = i THEN "Spawning" ELSE "None"]
  <2>1. i \in Ids /\ reg[i] = "None" /\ up /\ up' /\ reg[o] # "None"
      BY <1>0, <1>5, HandledName DEF Swap, IndInv, UnregisteredAbsent, Unregistered
  <2>2. o \in Ids
    <3>1. hand[h] \in HandlerState /\ hand[h].pc = "swap"
        BY <1>0, <1>5 DEF HandlersOK, Swap
    <3> QED BY <3>1, HandlerCases
  <2>3. Persist(r, {o, i})
      BY <1>5 DEF Swap
  <2>4. /\ r \in [Ids -> Statuses] /\ {o, i} \in SUBSET Ids
        /\ \A j \in {o, i} : f[j] = r[j]
        /\ \A j \in Ids \ {o, i} : r[j] = reg[j]
      BY <1>0, <2>1, <2>2 DEF RegistryOK, Statuses, Status, Live
  <2> HIDE DEF r
  <2>5. Lifecycle!Becomes(f, {o, i})
      BY <1>0, <2>1, <2>3, <2>4, PersistBecomes
  <2>6. Lifecycle!Replace(o, i)
      BY <2>1, <2>5 DEF Lifecycle!Replace
  <2> QED BY <2>1, <2>2, <2>6 DEF Lifecycle!Next
<1>6. ASSUME NEW h \in Handlers, Track(h) PROVE [Lifecycle!Next]_(Lifecycle!vars)
  <2> DEFINE i == hand[h].new
  <2>1. i \in Ids /\ up /\ up' = up /\ SetStatusIfRunning(i, "Running")
      BY <1>0, <1>6, HandledName DEF Track
  <2>2. CASE reg[i] \in Live
    <3>1. Lifecycle!Move(i, Live, "Running")
        BY <1>0, <2>1, <2>2, SetStatusMoves DEF SetStatusIfRunning, Statuses, Status, Live
    <3> QED BY <2>1, <3>1 DEF Lifecycle!Next, Lifecycle!Start, Lifecycle!Active, Live
  <2>3. CASE reg[i] \notin Live
      BY <1>3, <2>1, <2>3 DEF SetStatusIfRunning
  <2> QED BY <2>2, <2>3
<1>7. ASSUME NEW i \in Ids, MonitorRecords(i) PROVE [Lifecycle!Next]_(Lifecycle!vars)
  <2>1. PICK end \in {"Done", "Failed"} : SetStatusIfRunning(i, end)
      BY <1>7 DEF MonitorRecords
  <2>2. up /\ up' = up
      BY <1>7 DEF MonitorRecords
  <2>3. CASE reg[i] \in Live
    <3>1. Lifecycle!Move(i, Live, end)
        BY <1>0, <2>1, <2>2, <2>3, SetStatusMoves
           DEF SetStatusIfRunning, Statuses, Status, Terminal
    <3> QED BY <3>1 DEF Lifecycle!Next, Lifecycle!Finish, Lifecycle!Active, Live
  <2>4. CASE reg[i] \notin Live
      BY <1>3, <2>1, <2>2, <2>4 DEF SetStatusIfRunning
  <2> QED BY <2>3, <2>4
<1>8. ASSUME NEW i \in Ids, NEW to \in {"Failed", "Killed", "None"}, SetStatus(i, to), up,
             UNCHANGED up
      PROVE  [Lifecycle!Next]_(Lifecycle!vars)
  <2>1. CASE reg[i] # "None"
    <3>1. reg[i] \in Status /\ to \in Statuses
        BY <1>0, <2>1 DEF RegistryOK, Statuses, Status, Terminal
    <3>2. Lifecycle!Move(i, Status, to)
        BY <1>0, <1>8, <2>1, <3>1, SetStatusMoves DEF SetStatus
    <3>3. Status = Lifecycle!Listed
        BY DEF Status, Live, Terminal, Lifecycle!Listed, Lifecycle!Listing, Lifecycle!Active,
           Lifecycle!Ended
    <3> QED BY <3>2, <3>3
            DEF Lifecycle!Next, Lifecycle!FailLaunch, Lifecycle!Kill, Lifecycle!Remove
  <2>2. CASE reg[i] = "None"
      BY <1>3, <1>8, <2>2 DEF SetStatus
  <2> QED BY <2>1, <2>2
<1>9. ASSUME NEW h \in Handlers, LaunchFailed(h) PROVE [Lifecycle!Next]_(Lifecycle!vars)
  <2>1. hand[h].new \in Ids
      BY <1>0, <1>9, HandledName DEF LaunchFailed
  <2> QED BY <1>8, <1>9, <2>1 DEF LaunchFailed
<1>10. ASSUME NEW i \in Ids, Kill(i) \/ \E force \in BOOLEAN : Rm(i, force)
       PROVE  [Lifecycle!Next]_(Lifecycle!vars)
    BY <1>8, <1>10 DEF Kill, Rm
<1>11. ASSUME NEW i \in Ids, NEW to \in {"Running", "Idle"}, ReportStatus(i, to)
       PROVE  Lifecycle!Next
  <2>1. /\ up /\ up' /\ Persist([reg EXCEPT ![i] = to], {i})
        /\ reg[i] \in {"Running", "Idle"} /\ reg[i] # to /\ to \in Statuses
      BY <1>11 DEF ReportStatus, Statuses, Status, Live
  <2>2. CASE to = "Running"
    <3>1. Lifecycle!Move(i, Live, to)
        BY <1>0, <2>1, SetStatusMoves DEF Live
    <3> QED BY <2>2, <3>1 DEF Lifecycle!Next, Lifecycle!Start, Lifecycle!Active, Live
  <2>3. CASE to = "Idle"
    <3>1. Lifecycle!Move(i, {"Running"}, to)
        BY <1>0, <2>1, <2>3, SetStatusMoves
    <3> QED BY <2>3, <3>1 DEF Lifecycle!Next, Lifecycle!Park
  <2> QED BY <2>2, <2>3
<1>12. CASE Drain
  <2> DEFINE live == {i \in Ids : reg[i] \in Live}
             r == [i \in Ids |-> IF i \in live THEN "Drained" ELSE reg[i]]
             f == [j \in Ids |-> "Drained"]
  <2>1. /\ r \in [Ids -> Statuses] /\ live \in SUBSET Ids
        /\ \A j \in live : f[j] = r[j]
        /\ \A j \in Ids \ live : r[j] = reg[j]
      BY <1>0 DEF RegistryOK, Statuses, Status, Terminal
  <2>2. up /\ up' /\ Persist(r, live)
      BY <1>12 DEF Drain
  <2>3. live = {i \in Ids : (IF up THEN reg ELSE Swept(disk))[i] \in Lifecycle!Active}
      BY <2>2 DEF Lifecycle!Active, Live
  <2> HIDE DEF r, live
  <2>4. Lifecycle!Becomes(f, live)
      BY <1>0, <2>1, <2>2, PersistBecomes
  <2> QED BY <2>3, <2>4 DEF Lifecycle!Next, Lifecycle!Drain
<1>13. CASE Stop
  <2>1. up /\ ~up' /\ UNCHANGED <<disk, dirty>>
      BY <1>13 DEF Stop
  <2>2. Swept(disk') = Swept(disk) /\ Swept(disk) \in [Ids -> Statuses]
      BY <1>0, <2>1, SweptTyping DEF RegistryOK
  <2>3. Statuses = Lifecycle!Listing
      BY DEF Statuses, Status, Live, Terminal, Lifecycle!Listing, Lifecycle!Active,
         Lifecycle!Ended
  <2>4. \A i \in Ids \ dirty :
            Swept(disk)[i] = IF reg[i] \in {"Spawning", "Running"} THEN "Crashed" ELSE reg[i]
      BY <2>1 DEF Swept, MemoryOnDisk
  <2>5. Lifecycle!DaemonStops
      BY <2>1, <2>2, <2>3, <2>4 DEF Lifecycle!DaemonStops
  <2> QED BY <2>5 DEF Lifecycle!Next
<1>14. CASE Restart
  <2>1. ~up /\ up' /\ reg' = Swept(disk)
      BY <1>14 DEF Restart, Persist
  <2>2. dirty' \subseteq Ids
    <3>1. [Next]_vars /\ TypeOK
        BY <1>0
    <3> QED BY <3>1, StepRegistry DEF RegistryOK
  <2>3. Lifecycle!DaemonStarts
      BY <2>1, <2>2 DEF Lifecycle!DaemonStarts
  <2> QED BY <2>3 DEF Lifecycle!Next
<1> QED BY <1>2, <1>4, <1>5, <1>6, <1>7, <1>9, <1>10, <1>11, <1>12, <1>13, <1>14, NextCases
        DEF Mutates

\* The daemon implements the lifecycle it promises to a client of the fleet, with
\* the listing read from the registry while it runs and from what the next process
\* will load and sweep while it does not.
THEOREM DaemonImplementsLifecycle == Spec => ImplementsLifecycle
<1>1. Init => Lifecycle!Init
    BY DEF Init, Lifecycle!Init
<1>2. Init => MemoryOnDisk
    BY DEF Init, MemoryOnDisk
<1>3. IndInv => TypeOK
    BY DEF IndInv
<1>4. IndInv /\ MemoryOnDisk /\ [Next]_vars => [Lifecycle!Next]_(Lifecycle!vars)
    BY StepLifecycle
<1>5. Spec => [](IndInv /\ MemoryOnDisk)
    BY <1>2, <1>3, IndInvInductive, StepOnDisk, PTL DEF Spec
<1> QED BY <1>1, <1>4, <1>5, PTL DEF Spec, ImplementsLifecycle, Lifecycle!Spec
=============================================================================
