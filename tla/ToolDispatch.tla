---------------------------- MODULE ToolDispatch ----------------------------
(***************************************************************************)
(* The parallel dispatch of the tool calls of one response: the futures    *)
(* that phase 2 of the turn loop pushes into its FuturesUnordered, the     *)
(* per-key mutexes of build_conflict_locks and the semaphore that bounds   *)
(* them.  TurnLoop sees the same calls as a set that returns in any order. *)
(*                                                                         *)
(* The futures are polled by one task, so a step is one poll: it runs up   *)
(* to the next await.  Tokio's mutex and semaphore are FIFO and hand over  *)
(* to the first waiter, which goes on when it is polled again.             *)
(***************************************************************************)
EXTENDS Naturals, Sequences, FiniteSets

CONSTANTS
    MaxCalls,   \* bound: calls in one response
    Keys,       \* conflict keys (canonical paths)
    NoKey,      \* parallel_conflict_key = None
    Limit       \* parallel_tool_limit, 1 when parallel tools are off

ASSUME DispatchAssumption == MaxCalls \in Nat /\ Limit \in Nat \ {0} /\ NoKey \notin Keys

VARIABLES
    calls,      \* the calls dispatched, 1 .. n in the order of the response
    key,        \* the conflict key of each call
    st,         \* where each future is
    holder,     \* call that owns a key's mutex, 0 if free
    keyQueue,   \* waiters of a key's mutex
    free,       \* available permits
    semQueue,   \* waiters of the semaphore
    cancelled,  \* the run's token
    result      \* ordered_results, by the index of the call

vars == <<calls, key, st, holder, keyQueue, free, semQueue, cancelled, result>>

Init ==
    /\ \E n \in 0 .. MaxCalls : calls = 1 .. n
    /\ key \in [calls -> Keys \cup {NoKey}]
    /\ st = [c \in calls |-> "pushed"]
    /\ holder = [k \in Keys |-> 0] /\ keyQueue = [k \in Keys |-> <<>>]
    /\ free = Limit /\ semQueue = <<>>
    /\ cancelled = FALSE /\ result = [c \in calls |-> "none"]

Keyed(c) == key[c] # NoKey

\* acquire_owned on the semaphore, in the poll in which the key is held.
AcquirePermit(c) ==
    IF free > 0
    THEN /\ free' = free - 1 /\ st' = [st EXCEPT ![c] = "granted"]
         /\ UNCHANGED semQueue
    ELSE /\ semQueue' = Append(semQueue, c) /\ st' = [st EXCEPT ![c] = "permit"]
         /\ UNCHANGED free

\* New futures are polled in the order in which they were pushed.
IsNext(c) == st[c] = "pushed" /\ \A d \in calls : st[d] = "pushed" => c <= d

\* Variant: the permit is taken before the key.
FirstPollPermitFirst(c) ==
    /\ IsNext(c)
    /\ IF Keyed(c) /\ holder[key[c]] # 0
       THEN /\ keyQueue' = [keyQueue EXCEPT ![key[c]] = Append(@, c)]
            /\ free' = IF free > 0 THEN free - 1 ELSE free
            /\ st' = [st EXCEPT ![c] = "key"] /\ UNCHANGED <<holder, semQueue>>
       ELSE /\ holder' = IF Keyed(c) THEN [holder EXCEPT ![key[c]] = c] ELSE holder
            /\ AcquirePermit(c) /\ UNCHANGED keyQueue
    /\ UNCHANGED <<calls, key, cancelled, result>>

\* The first poll of a future: its key's mutex, then the semaphore.
FirstPoll(c) ==
    /\ IsNext(c)
    /\ IF Keyed(c) /\ holder[key[c]] # 0
       THEN /\ keyQueue' = [keyQueue EXCEPT ![key[c]] = Append(@, c)]
            /\ st' = [st EXCEPT ![c] = "key"] /\ UNCHANGED <<holder, free, semQueue>>
       ELSE /\ holder' = IF Keyed(c) THEN [holder EXCEPT ![key[c]] = c] ELSE holder
            /\ AcquirePermit(c) /\ UNCHANGED keyQueue
    /\ UNCHANGED <<calls, key, cancelled, result>>

\* The future was handed its key and is polled again.
KeyPoll(c) ==
    /\ st[c] = "key" /\ holder[key[c]] = c
    /\ AcquirePermit(c)
    /\ UNCHANGED <<calls, key, holder, keyQueue, cancelled, result>>

\* The permit is dropped, then the key; each goes to its first waiter.
ReleaseSem(s) ==
    IF semQueue = <<>>
    THEN /\ free' = free + 1 /\ st' = s /\ UNCHANGED semQueue
    ELSE /\ semQueue' = Tail(semQueue) /\ st' = [s EXCEPT ![Head(semQueue)] = "granted"]
         /\ UNCHANGED free

\* Variant: the last waiter gets the key.
ReleaseKeyLifo(c) ==
    IF ~Keyed(c) THEN UNCHANGED <<holder, keyQueue>>
    ELSE LET q == keyQueue[key[c]] IN
         /\ holder' = [holder EXCEPT ![key[c]] = IF q = <<>> THEN 0 ELSE q[Len(q)]]
         /\ keyQueue' = [keyQueue EXCEPT ![key[c]] =
                            IF q = <<>> THEN q ELSE SubSeq(q, 1, Len(q) - 1)]

ReleaseKey(c) ==
    IF ~Keyed(c) THEN UNCHANGED <<holder, keyQueue>>
    ELSE LET q == keyQueue[key[c]] IN
         /\ holder' = [holder EXCEPT ![key[c]] = IF q = <<>> THEN 0 ELSE Head(q)]
         /\ keyQueue' = [keyQueue EXCEPT ![key[c]] = IF q = <<>> THEN q ELSE Tail(q)]

Return(c, r) ==
    /\ ReleaseSem([st EXCEPT ![c] = "done"])
    /\ ReleaseKey(c)
    /\ result' = [result EXCEPT ![c] = r]
    /\ UNCHANGED <<calls, key, cancelled>>

\* dispatch_tool starts: the tool is invoked.  Another thread may cancel the
\* token between the grant and this check.
Invoke(c) ==
    /\ st[c] = "granted" /\ ~cancelled
    /\ st' = [st EXCEPT ![c] = "running"]
    /\ UNCHANGED <<calls, key, holder, keyQueue, free, semQueue, cancelled, result>>

\* Variant: a call that finds the token cancelled keeps what it holds.
InvokeCancelledLeaks(c) ==
    /\ st[c] = "granted" /\ cancelled
    /\ st' = [st EXCEPT ![c] = "done"]
    /\ result' = [result EXCEPT ![c] = "cancelled"]
    /\ UNCHANGED <<calls, key, holder, keyQueue, free, semQueue, cancelled>>

\* A cancelled token ends the call before the tool is invoked.
InvokeCancelled(c) ==
    /\ st[c] = "granted" /\ cancelled
    /\ Return(c, "cancelled")

\* The tool and the after_tool hook are through.
Returns(c) ==
    /\ st[c] = "running"
    /\ \E r \in {"ok", "error", "cancelled"} :
          /\ r = "cancelled" => cancelled
          /\ Return(c, r)

Cancel ==
    /\ ~cancelled /\ cancelled' = TRUE
    /\ UNCHANGED <<calls, key, st, holder, keyQueue, free, semQueue, result>>

Poll(c) == FirstPoll(c) \/ KeyPoll(c) \/ Invoke(c) \/ InvokeCancelled(c) \/ Returns(c)

Next == (\E c \in calls : Poll(c)) \/ Cancel

Spec == Init /\ [][Next]_vars

\* FuturesUnordered polls every woken future, and a tool returns: it has a
\* timeout or watches the token.
FairSpec == Spec /\ \A c \in 1 .. MaxCalls : WF_vars(c \in calls /\ Poll(c))

----------------------------------------------------------------------------
(* Properties.                                                             *)

\* The variables hold what the futures and the primitives hold.
TypeOK ==
    /\ calls \subseteq 1 .. MaxCalls /\ key \in [calls -> Keys \cup {NoKey}]
    /\ st \in [calls -> {"pushed", "key", "permit", "granted", "running", "done"}]
    /\ holder \in [Keys -> calls \cup {0}] /\ free \in 0 .. Limit
    /\ keyQueue \in [Keys -> Seq(calls)]
    /\ semQueue \in Seq(calls) /\ cancelled \in BOOLEAN
    /\ result \in [calls -> {"none", "ok", "error", "cancelled"}]

\* Calls that share a conflict key take effect one after the other in the order
\* of the response: a later one is not invoked before an earlier one is done.
SameKeyInOrder ==
    \A c, d \in calls :
        c < d /\ Keyed(c) /\ key[c] = key[d] /\ st[d] \in {"granted", "running", "done"}
            => st[c] = "done"

\* A call waits for a permit only while Limit calls are executing: no permit is
\* held by a call that is itself waiting for a key.
PermitsDoWork ==
    /\ semQueue # <<>> => free = 0
    /\ free + Cardinality({c \in calls : st[c] \in {"granted", "running"}}) = Limit

\* Every dispatched call returns, cancelled or not, so the loop that drains the
\* pending set ends with a result or a cancellation for each.
AllReturn == <>(\A c \in calls : st[c] = "done")
=============================================================================
