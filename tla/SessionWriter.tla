--------------------------- MODULE SessionWriter ---------------------------
(***************************************************************************)
(* The session store of caliban-sessions: SessionStore hands snapshots to  *)
(* a DebouncedWriter, whose thread buffers the latest one per session and  *)
(* saves them when the debounce window or the hard ceiling has passed, or  *)
(* before it serves a flush, load, list or delete.                         *)
(*                                                                         *)
(* Every save and every delete has a number, in the order in which they    *)
(* were requested; the number stands for the content it leaves behind.     *)
(* Time is whether the writer's hard ceiling has passed; the debounce      *)
(* window may pass whenever the thread finds no message.                   *)
(***************************************************************************)
EXTENDS Naturals, Sequences, FiniteSets

CONSTANTS
    Names,      \* session names
    Clients,    \* threads that hold a clone of the store
    NoName,     \* empty last_error slot, and the name of a request without one
    MaxNumber,  \* bound: saves and deletes
    ChanBound,  \* bound: messages in the (unbounded) channel
    MaxFaults   \* bound: backend calls that fail

ASSUME WriterAssumption ==
    /\ MaxNumber \in Nat /\ ChanBound \in Nat /\ MaxFaults \in Nat
    /\ NoName \notin Names \cup Clients

VARIABLES
    chan,       \* mpsc channel from the handles to the thread
    open,       \* some handle is left: the channel is not closed
    worker,     \* the thread: where it is, what it drains and for which message
    pending,    \* buffered snapshot of each session, 0 if none
    overdue,    \* oldest_dirty + max_delay has passed
    disk,       \* what the backend holds for each session
    lastError,  \* the shared LastError slot
    client,     \* the call each client is in, and its result
    latest,     \* history: the last request accepted for each session
    deleted,    \* history: sessions whose last request was a delete
    count,      \* number of the last request
    failed,     \* history: requests whose backend call failed
    verdict,    \* history: outcome of the last write to each session; a failed one is
                \* "masked" once another session's failure has come after it
    faults      \* failures so far

vars == <<chan, open, worker, pending, overdue, disk, lastError, client,
          latest, deleted, count, failed, verdict, faults>>

Ops     == {"flush", "load", "list", "delete"}
Numbers == 0 .. MaxNumber
Nothing == [n \in Names |-> 0]
Buffered == {n \in Names : pending[n] # 0}

Message == [op : {"persist", "timer", "exit"} \cup Ops, name : Names \cup {NoName},
            num : Numbers, from : Clients \cup {NoName}]
Internal(op) == [op |-> op, name |-> NoName, num |-> 0, from |-> NoName]

Receiving == [pc |-> "recv", msg |-> Internal("timer"), left |-> Nothing, err |-> FALSE,
              known |-> {}]
IdleClient == [st |-> "idle", op |-> "flush", name |-> NoName, expect |-> Nothing,
               ok |-> TRUE, got |-> Nothing, excused |-> {}]

Init ==
    /\ chan = <<>> /\ open = TRUE /\ worker = [Receiving EXCEPT !.pc = "start"]
    /\ pending = Nothing /\ overdue = FALSE
    /\ disk = Nothing /\ lastError = NoName
    /\ client = [c \in Clients |-> IdleClient]
    /\ latest = Nothing /\ deleted = {} /\ count = 0 /\ failed = {} /\ faults = 0
    /\ verdict = [n \in Names |-> "none"]

Running == worker.pc \in {"start", "recv", "drain"}
Alive   == worker.pc # "dead"

----------------------------------------------------------------------------
(* The handles.                                                            *)

\* request: a snapshot is queued, or dropped when the thread is gone.  The same
\* content may be saved again, as the TUI does on exit.
Save(c, n) ==
    /\ Alive /\ open /\ client[c].st = "idle" /\ Len(chan) < ChanBound
    /\ \E num \in {count + 1} \cup (IF n \in deleted THEN {} ELSE {latest[n]}) :
          /\ num \in 1 .. MaxNumber
          /\ latest' = [latest EXCEPT ![n] = num]
          /\ count' = IF num > count THEN num ELSE count
          /\ chan' = IF Running
                     THEN Append(chan, [op |-> "persist", name |-> n, num |-> num, from |-> NoName])
                     ELSE chan
    /\ deleted' = deleted \ {n}
    /\ UNCHANGED <<open, worker, pending, overdue, disk, lastError, client,
                   failed, verdict, faults>>

\* flush, load, list and delete park the caller until the thread answers; when it
\* is gone, they return Ok with nothing.
Call(c, op, n) ==
    /\ Alive /\ open /\ client[c].st = "idle" /\ Len(chan) < ChanBound
    /\ (op = "delete") => count < MaxNumber
    /\ (op \in {"flush", "list"}) <=> (n = NoName)
    /\ LET num  == IF op = "delete" THEN count + 1 ELSE 0
           next == IF op = "delete" THEN [latest EXCEPT ![n] = num] ELSE latest
       IN /\ latest' = next
          /\ count' = IF op = "delete" THEN num ELSE count
          /\ deleted' = IF op = "delete" THEN deleted \cup {n} ELSE deleted
          /\ client' = [client EXCEPT ![c] =
                [IdleClient EXCEPT !.st = IF Running THEN "parked" ELSE "degraded",
                                   !.op = op, !.name = n, !.expect = next]]
          /\ chan' = IF Running
                     THEN Append(chan, [op |-> op, name |-> n, num |-> num, from |-> c])
                     ELSE chan
    /\ UNCHANGED <<open, worker, pending, overdue, disk, lastError, failed,
                   verdict, faults>>

\* The caller goes on with the result.
Return(c) ==
    /\ Alive /\ client[c].st \in {"answered", "degraded"}
    /\ client' = [client EXCEPT ![c] = IdleClient]
    /\ UNCHANGED <<chan, open, worker, pending, overdue, disk, lastError, latest,
                   deleted, count, failed, verdict, faults>>

\* Drop for WriterInner: the last handle goes and closes the channel.
DropHandle ==
    /\ Alive /\ open /\ \A c \in Clients : client[c].st = "idle"
    /\ open' = FALSE
    /\ UNCHANGED <<chan, worker, pending, overdue, disk, lastError, client, latest,
                   deleted, count, failed, verdict, faults>>

\* The process ends: after the drop's bounded wait for the thread, or by a crash.
ProcessEnds ==
    /\ Alive /\ worker' = [Receiving EXCEPT !.pc = "dead"]
    /\ chan' = <<>> /\ pending' = Nothing /\ client' = [c \in Clients |-> IdleClient]
    /\ overdue' = FALSE /\ lastError' = NoName
    /\ latest' = disk /\ deleted' = {} /\ failed' = {}
    /\ verdict' = [n \in Names |-> "none"]
    /\ UNCHANGED <<open, disk, count, faults>>

----------------------------------------------------------------------------
(* The thread.                                                             *)

\* run_writer_thread builds its runtime.
ThreadStarts ==
    /\ worker.pc = "start"
    /\ worker' = Receiving
    /\ UNCHANGED <<chan, open, pending, overdue, disk, lastError, client, latest,
                   deleted, count, failed, verdict, faults>>

\* The runtime cannot be built: the receiver goes, and with it every message and
\* every caller's sender.
ThreadFails ==
    /\ worker.pc = "start" /\ faults < MaxFaults /\ faults' = faults + 1
    /\ worker' = [Receiving EXCEPT !.pc = "gone"] /\ chan' = <<>>
    /\ client' = [c \in Clients |->
          IF client[c].st = "parked" THEN [client[c] EXCEPT !.st = "degraded"] ELSE client[c]]
    /\ UNCHANGED <<open, pending, overdue, disk, lastError, latest, deleted, count,
                   failed, verdict>>

\* drain_pending takes every buffered snapshot, then whatever msg asks for follows.
StartDrain(msg, snapshots) ==
    /\ worker' = [pc |-> "drain", msg |-> msg, left |-> snapshots, err |-> FALSE,
                  known |-> IF msg.op = "flush" THEN failed ELSE {}]
    /\ pending' = Nothing /\ overdue' = FALSE

\* Variant: a stream of saves that never pauses is only buffered.
BufferUnbounded(m) ==
    /\ pending' = [pending EXCEPT ![m.name] = m.num]
    /\ UNCHANGED <<overdue, worker>>

\* A snapshot is buffered, latest wins.  The ceiling starts when nothing was
\* buffered; past it, everything is drained at once.
Buffer(m) ==
    LET snapshots == [pending EXCEPT ![m.name] = m.num]
    IN IF overdue
       THEN StartDrain(Internal("timer"), snapshots)
       ELSE pending' = snapshots /\ UNCHANGED <<overdue, worker>>

\* Variant: a load or a delete is served while snapshots stay buffered.
ReceiveUndrained ==
    /\ worker.pc = "recv" /\ chan # <<>>
    /\ chan' = Tail(chan)
    /\ \/ Head(chan).op = "persist" /\ Buffer(Head(chan))
       \/ Head(chan).op \in {"flush", "list"} /\ StartDrain(Head(chan), pending)
       \/ /\ Head(chan).op \in {"load", "delete"}
          /\ worker' = [Receiving EXCEPT !.pc = "drain", !.msg = Head(chan)]
          /\ UNCHANGED <<pending, overdue>>
    /\ UNCHANGED <<open, disk, lastError, client, latest, deleted, count, failed, verdict,
                   faults>>

\* writer_loop takes the next message.
Receive ==
    /\ worker.pc = "recv" /\ chan # <<>>
    /\ chan' = Tail(chan)
    /\ \/ Head(chan).op = "persist" /\ Buffer(Head(chan))
       \/ Head(chan).op # "persist" /\ StartDrain(Head(chan), pending)
    /\ UNCHANGED <<open, disk, lastError, client, latest, deleted, count, failed, verdict, faults>>

\* The timer branch of the biased select: the window or the ceiling passes while
\* no message is ready.
TimerFires ==
    /\ worker.pc = "recv" /\ chan = <<>> /\ open
    /\ Buffered # {}
    /\ StartDrain(Internal("timer"), pending)
    /\ UNCHANGED <<chan, open, disk, lastError, client, latest, deleted, count, failed,
                   verdict, faults>>

\* recv returns None: a last drain, then the thread ends.
ChannelClosed ==
    /\ worker.pc = "recv" /\ chan = <<>> /\ ~open
    /\ StartDrain(Internal("exit"), pending)
    /\ UNCHANGED <<chan, open, disk, lastError, client, latest, deleted, count, failed,
                   verdict, faults>>

\* Variant: a successful write leaves the health slot as it is.
WriteOkKeepsError(n) ==
    /\ worker.pc = "drain" /\ worker.left[n] # 0
    /\ disk' = [disk EXCEPT ![n] = worker.left[n]]
    /\ failed' = failed \ {<<n, worker.left[n]>>}
    /\ verdict' = [verdict EXCEPT ![n] = "ok"]
    /\ worker' = [worker EXCEPT !.left[n] = 0]
    /\ UNCHANGED <<chan, open, pending, overdue, lastError, client, latest, deleted, count, faults>>

\* do_write: the backend has the snapshot, and this session's error is cleared.
WriteOk(n) ==
    /\ worker.pc = "drain" /\ worker.left[n] # 0
    /\ disk' = [disk EXCEPT ![n] = worker.left[n]]
    /\ lastError' = IF lastError = n THEN NoName ELSE lastError
    /\ failed' = failed \ {<<n, worker.left[n]>>}
    /\ verdict' = [verdict EXCEPT ![n] = "ok"]
    /\ worker' = [worker EXCEPT !.left[n] = 0]
    /\ UNCHANGED <<chan, open, pending, overdue, client, latest, deleted, count, faults>>

\* do_write: the save failed; it is recorded and the snapshot is dropped.
WriteFails(n) ==
    /\ worker.pc = "drain" /\ worker.left[n] # 0
    /\ faults < MaxFaults /\ faults' = faults + 1
    /\ lastError' = n
    /\ failed' = failed \cup {<<n, worker.left[n]>>}
    /\ verdict' = [m \in Names |-> IF m = n THEN "failed"
                                   ELSE IF verdict[m] = "failed" THEN "masked" ELSE verdict[m]]
    /\ worker' = [worker EXCEPT !.left[n] = 0, !.err = TRUE]
    /\ UNCHANGED <<chan, open, pending, overdue, disk, client, latest, deleted, count>>

Answer(ok, got, excused) ==
    client' = [client EXCEPT ![worker.msg.from] =
        [@ EXCEPT !.st = "answered", !.ok = ok, !.got = got, !.excused = excused]]

Drained == worker.pc = "drain" /\ worker.left = Nothing

\* The drain was for its own sake, or the last one.
DrainEnds ==
    /\ Drained /\ worker.msg.op \in {"timer", "exit"}
    /\ worker' = IF worker.msg.op = "exit" THEN [Receiving EXCEPT !.pc = "gone"] ELSE Receiving
    /\ UNCHANGED <<chan, open, pending, overdue, disk, lastError, client, latest,
                   deleted, count, failed, verdict, faults>>

\* Variant: a flush answers Ok whatever its drain did.
ServeFlushOk ==
    /\ Drained /\ worker.msg.op = "flush"
    /\ Answer(TRUE, Nothing, worker.known)
    /\ worker' = Receiving
    /\ UNCHANGED <<chan, open, pending, overdue, disk, lastError, latest, deleted,
                   count, failed, verdict, faults>>

\* A flush answers with the outcome of its drain.
ServeFlush ==
    /\ Drained /\ worker.msg.op = "flush"
    /\ Answer(~worker.err, Nothing, worker.known)
    /\ worker' = Receiving
    /\ UNCHANGED <<chan, open, pending, overdue, disk, lastError, latest, deleted,
                   count, failed, verdict, faults>>

\* load and list answer with what the backend holds.  load may fail; list skips
\* the files it cannot read.
ServeRead ==
    /\ Drained /\ worker.msg.op \in {"load", "list"}
    /\ worker' = Receiving
    /\ \/ Answer(TRUE, disk, failed) /\ UNCHANGED faults
       \/ /\ faults < MaxFaults /\ faults' = faults + 1
          /\ \/ Answer(FALSE, Nothing, failed)
             \/ /\ worker.msg.op = "list"
                /\ \E n \in Names : Answer(TRUE, [disk EXCEPT ![n] = 0], failed \cup {<<n, disk[n]>>})
    /\ UNCHANGED <<chan, open, pending, overdue, disk, lastError, latest, deleted,
                   count, failed, verdict>>

\* delete removes the session after the drain, or fails.
ServeDelete ==
    /\ Drained /\ worker.msg.op = "delete"
    /\ worker' = Receiving
    /\ \/ /\ disk' = [disk EXCEPT ![worker.msg.name] = worker.msg.num]
          /\ Answer(TRUE, Nothing, failed)
          /\ UNCHANGED <<failed, faults>>
       \/ /\ faults < MaxFaults /\ faults' = faults + 1
          /\ failed' = failed \cup {<<worker.msg.name, worker.msg.num>>}
          /\ Answer(FALSE, Nothing, failed)
          /\ UNCHANGED disk
    /\ UNCHANGED <<chan, open, pending, overdue, lastError, latest, deleted, count,
                   verdict>>

----------------------------------------------------------------------------
(* Time.                                                                   *)

\* The oldest buffered snapshot has waited for max_delay.
CeilingPasses ==
    /\ worker.pc = "recv" /\ Buffered # {} /\ ~overdue
    /\ overdue' = TRUE
    /\ UNCHANGED <<chan, open, worker, pending, disk, lastError, client, latest,
                   deleted, count, failed, verdict, faults>>

Thread ==
    \/ ThreadStarts \/ Receive \/ TimerFires \/ ChannelClosed
    \/ \E n \in Names : WriteOk(n)
    \/ DrainEnds \/ ServeFlush \/ ServeRead \/ ServeDelete

Next ==
    \/ Thread \/ ThreadFails \/ CeilingPasses \/ DropHandle \/ ProcessEnds
    \/ \E n \in Names : WriteFails(n)
    \/ \E c \in Clients :
          \/ Return(c)
          \/ \E n \in Names : Save(c, n)
          \/ \E op \in Ops, n \in Names \cup {NoName} : Call(c, op, n)

Spec == Init /\ [][Next]_vars

\* The thread is scheduled and its backend calls return; time passes.  Clients do
\* what they like.
FairSpec == Spec /\ WF_vars(Thread) /\ WF_vars(CeilingPasses)

----------------------------------------------------------------------------
(* Properties.                                                             *)

\* The variables hold what the handles and the thread hold.
TypeOK ==
    /\ chan \in Seq(Message) /\ open \in BOOLEAN
    /\ worker \in [pc : {"start", "recv", "drain", "gone", "dead"}, msg : Message,
                   left : [Names -> Numbers], err : BOOLEAN, known : SUBSET (Names \X Numbers)]
    /\ pending \in [Names -> Numbers] /\ overdue \in BOOLEAN
    /\ disk \in [Names -> Numbers] /\ lastError \in Names \cup {NoName}
    /\ client \in [Clients -> [st : {"idle", "parked", "answered", "degraded"}, op : Ops,
                               name : Names \cup {NoName}, expect : [Names -> Numbers],
                               ok : BOOLEAN, got : [Names -> Numbers],
                               excused : SUBSET (Names \X Numbers)]]
    /\ latest \in [Names -> Numbers] /\ deleted \in SUBSET Names /\ count \in Numbers
    /\ failed \in SUBSET (Names \X Numbers) /\ faults \in 0 .. MaxFaults
    /\ verdict \in [Names -> {"none", "ok", "failed", "masked"}]

\* load and list see every save and delete requested before them, buffered or not,
\* except one whose own backend call has failed.
ReadsSeeEarlierRequests ==
    \A c \in Clients :
        LET r == client[c]
        IN r.st = "answered" /\ r.ok /\ r.op \in {"load", "list"} =>
              \A n \in IF r.op = "load" THEN {r.name} ELSE Names :
                  r.got[n] = r.expect[n] \/ <<n, r.expect[n]>> \in r.excused

\* The thread could not be started: whoever still holds a handle saves to nobody.
NeverStarted == worker.pc = "gone" /\ open

\* When flush returns Ok, answered or not, everything saved before it is in the
\* backend, with two exceptions: what an earlier drain had already failed to
\* write, and a writer whose thread never started, where all of it is lost.
FlushIsDurable ==
    \A c \in Clients :
        LET r == client[c]
        IN r.st \in {"answered", "degraded"} /\ r.ok /\ r.op = "flush" =>
              \/ \A n \in Names : disk[n] >= r.expect[n] \/ <<n, r.expect[n]>> \in r.excused
              \/ NeverStarted

\* The backend never goes back: no older snapshot replaces a newer one, and no
\* buffered save brings back a session that was deleted after it.
DiskNeverGoesBack == [][\A n \in Names : disk'[n] >= disk[n]]_vars

\* The health slot names a session exactly while its last write has failed and no
\* later failure of another session has taken the slot: a failure is reported
\* until that session recovers or is masked, and a masked one is not reported
\* again, also when the slot has become empty.
HealthSlotTruthful == \A n \in Names : lastError = n <=> verdict[n] = "failed"

\* A buffered snapshot reaches the backend, fails, or is superseded by a later one
\* that does, even under a stream of saves that leaves no pause; the process may
\* end before.
SavesSettle ==
    \A n \in Names, num \in 1 .. MaxNumber :
        pending[n] = num ~> \/ disk[n] >= num \/ ~Alive
                          \/ \E k \in num .. MaxNumber : <<n, k>> \in failed
=============================================================================
