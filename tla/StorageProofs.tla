--------------------------- MODULE StorageProofs ---------------------------
(***************************************************************************)
(* What caliban keeps on disk: its sessions, module SessionWriter, and its *)
(* checkpoints, module Checkpoint.                                         *)
(*                                                                         *)
(* The session store for any sessions, clients and bounds: its types, what *)
(* a load, a list and a flush may rely on, that the backend never goes     *)
(* back, and what the health slot tells.  The checkpoints for any          *)
(* processes, files and bounds: that a manifest restores what the files    *)
(* held when its prompt began, that its blobs are there, and that its slot *)
(* is its own.                                                             *)
(***************************************************************************)
EXTENDS SessionWriter, Checkpoint, SequenceTheorems, WellFoundedInduction, TLAPS

----------------------------------------------------------------------------
(* The session store: what a queue, a thread and a call hold.              *)

Reads  == {"flush", "load", "list"}
Writes == {"persist", "delete"}

\* What a handle may queue, and what the thread may be serving.
Requests ==
    {m \in Message :
        /\ m.op \in Writes \cup Reads
        /\ m.op \in Writes => m.name \in Names /\ m.num # 0
        /\ m.op = "persist" <=> m.from = NoName}
Jobs == {m \in Requests : m.op # "persist"} \cup {Internal("timer"), Internal("exit")}

Workers == [pc : {"start", "recv", "drain", "gone", "dead"}, msg : Jobs,
            left : [Names -> Numbers], err : BOOLEAN, known : SUBSET (Names \X Numbers)]
Calls   == [st : {"idle", "parked", "answered", "degraded"}, op : Ops,
            name : Names \cup {NoName}, expect : [Names -> Numbers], ok : BOOLEAN,
            got : [Names -> Numbers], excused : SUBSET (Names \X Numbers)]

QueueOK   == chan \in Seq(Requests) /\ open \in BOOLEAN
ThreadOK  == worker \in Workers /\ pending \in [Names -> Numbers] /\ overdue \in BOOLEAN
BackendOK == disk \in [Names -> Numbers] /\ failed \in SUBSET (Names \X Numbers)
HandlesOK ==
    /\ client \in [Clients -> Calls] /\ latest \in [Names -> Numbers]
    /\ deleted \in SUBSET Names /\ count \in Numbers
HealthOK ==
    /\ lastError \in Names \cup {NoName} /\ faults \in 0 .. MaxFaults
    /\ verdict \in [Names -> {"none", "ok", "failed", "masked"}]

TypeInv == QueueOK /\ ThreadOK /\ BackendOK /\ HandlesOK /\ HealthOK

----------------------------------------------------------------------------
(* Types.                                                                  *)

LEMMA Zero == 0 \in Numbers /\ Nothing \in [Names -> Numbers]
<1>1. 0 \in Numbers
    BY WriterAssumption DEF Numbers
<1> QED BY <1>1 DEF Nothing

LEMMA JobTypes ==
    /\ Internal("timer") \in Jobs /\ Internal("exit") \in Jobs /\ Jobs \subseteq Message
    /\ Requests \subseteq Message
<1>1. /\ Internal("timer") \in Message /\ Internal("exit") \in Message
    BY Zero DEF Internal, Message
<1> QED BY <1>1 DEF Jobs, Requests

\* A thread that is drained, starts, ends or is gone.
LEMMA ReceivingTyped ==
    /\ Receiving \in Workers
    /\ \A p \in {"start", "gone", "dead"} : [Receiving EXCEPT !.pc = p] \in Workers
<1>1. Internal("timer") \in Jobs /\ Nothing \in [Names -> Numbers]
    BY JobTypes, Zero
<1>2. Receiving \in Workers
    BY <1>1 DEF Receiving, Workers
<1> QED BY <1>2 DEF Workers

LEMMA IdleTyped == IdleClient \in Calls
BY Zero DEF IdleClient, Calls, Ops

LEMMA InitTypeInv == Init => TypeInv
<1> SUFFICES ASSUME Init PROVE TypeInv
    OBVIOUS
<1>1. QueueOK
  <2>1. <<>> \in Seq(Requests)
      BY EmptySeq
  <2> QED BY <2>1 DEF Init, QueueOK
<1>2. ThreadOK
    BY ReceivingTyped, Zero DEF Init, ThreadOK
<1>3. BackendOK
    BY Zero DEF Init, BackendOK
<1>4. HandlesOK
    BY Zero, IdleTyped DEF Init, HandlesOK
<1>5. HealthOK
    BY WriterAssumption DEF Init, HealthOK
<1> QED BY <1>1, <1>2, <1>3, <1>4, <1>5 DEF TypeInv

\* The message of a save and that of a call are requests.
LEMMA PersistTyped ==
    ASSUME NEW n \in Names, NEW num \in 1 .. MaxNumber
    PROVE  [op |-> "persist", name |-> n, num |-> num, from |-> NoName] \in Requests
<1>1. num \in Numbers /\ num # 0
    BY WriterAssumption DEF Numbers
<1> QED BY <1>1 DEF Requests, Message, Writes, Reads

LEMMA CallTyped ==
    ASSUME NEW c \in Clients, NEW op \in Ops, NEW n \in Names \cup {NoName}, NEW num \in Numbers,
           op = "delete" => n \in Names /\ num # 0
    PROVE  [op |-> op, name |-> n, num |-> num, from |-> c] \in Requests
<1>1. c # NoName
    BY WriterAssumption
<1> QED BY <1>1 DEF Requests, Message, Writes, Reads, Ops

LEMMA StepQueue == TypeInv /\ [Next]_vars => QueueOK'
<1> SUFFICES ASSUME TypeInv, [Next]_vars PROVE QueueOK'
    OBVIOUS
<1>q. chan \in Seq(Requests) /\ open \in BOOLEAN
    BY DEF TypeInv, QueueOK
<1>1. ASSUME NEW c \in Clients, NEW n \in Names, Save(c, n) PROVE QueueOK'
  <2>1. PICK num \in 1 .. MaxNumber :
            chan' = IF Running
                    THEN Append(chan, [op |-> "persist", name |-> n, num |-> num, from |-> NoName])
                    ELSE chan
      BY <1>1 DEF Save
  <2>2. chan' \in Seq(Requests)
      BY <2>1, <1>q, PersistTyped, AppendProperties
  <2> QED BY <2>2, <1>1, <1>q DEF Save, QueueOK
<1>2. ASSUME NEW c \in Clients, NEW op \in Ops, NEW n \in Names \cup {NoName}, Call(c, op, n)
      PROVE  QueueOK'
  <2> DEFINE num == IF op = "delete" THEN count + 1 ELSE 0
             m   == [op |-> op, name |-> n, num |-> num, from |-> c]
  <2>1. num \in Numbers /\ (op = "delete" => n \in Names /\ num # 0)
      BY <1>2, WriterAssumption DEF Call, TypeInv, HandlesOK, Numbers, Ops
  <2>2. chan' = IF Running THEN Append(chan, m) ELSE chan
      BY <1>2 DEF Call
  <2> HIDE DEF num
  <2>3. m \in Requests
      BY <2>1, CallTyped
  <2>4. chan' \in Seq(Requests)
    <3> HIDE DEF m
    <3> QED BY <2>2, <2>3, <1>q, AppendProperties
  <2> QED BY <2>4, <1>2, <1>q DEF Call, QueueOK
<1>3. CASE Receive
  <2>1. Tail(chan) \in Seq(Requests)
      BY <1>3, <1>q, HeadTailProperties DEF Receive
  <2> QED BY <1>3, <2>1, <1>q DEF Receive, QueueOK
<1>4. CASE ThreadFails \/ ProcessEnds
  <2>1. <<>> \in Seq(Requests)
      BY EmptySeq
  <2> QED BY <1>4, <2>1, <1>q DEF ThreadFails, ProcessEnds, QueueOK
<1>5. CASE DropHandle
    BY <1>5, <1>q DEF DropHandle, QueueOK
<1>6. CASE UNCHANGED <<chan, open>>
    BY <1>6, <1>q DEF QueueOK
<1> QED BY <1>1, <1>2, <1>3, <1>4, <1>5, <1>6
    DEF Next, Thread, ThreadStarts, TimerFires, ChannelClosed, WriteOk, WriteFails, DrainEnds,
        ServeFlush, ServeRead, ServeDelete, CeilingPasses, Return, vars

LEMMA DrainTyped ==
    ASSUME NEW msg \in Jobs, NEW snapshots \in [Names -> Numbers], TypeInv,
           StartDrain(msg, snapshots)
    PROVE  ThreadOK'
<1>1. (IF msg.op = "flush" THEN failed ELSE {}) \in SUBSET (Names \X Numbers)
    BY DEF TypeInv, BackendOK
<1>2. worker' \in Workers
    BY <1>1 DEF StartDrain, Workers
<1> QED BY <1>2, Zero DEF StartDrain, ThreadOK

LEMMA StepThread == TypeInv /\ [Next]_vars => ThreadOK'
<1> SUFFICES ASSUME TypeInv, [Next]_vars PROVE ThreadOK'
    OBVIOUS
<1>t. worker \in Workers /\ pending \in [Names -> Numbers] /\ overdue \in BOOLEAN
    BY DEF TypeInv, ThreadOK
<1>z. 0 \in Numbers /\ Nothing \in [Names -> Numbers]
    BY Zero
<1>1. CASE Receive
  <2> DEFINE m == Head(chan)
  <2>1. m \in Requests
      BY <1>1, HeadTailProperties DEF Receive, TypeInv, QueueOK
  <2>2. CASE m.op = "persist" /\ Buffer(m)
    <3>1. m.num \in Numbers
        BY <2>1 DEF Requests, Message
    <3>2. [pending EXCEPT ![m.name] = m.num] \in [Names -> Numbers]
        BY <3>1, <1>t
    <3>3. CASE overdue
        BY <2>2, <3>2, <3>3, DrainTyped, JobTypes DEF Buffer
    <3>4. CASE ~overdue
        BY <2>2, <3>2, <3>4, <1>t DEF Buffer, ThreadOK
    <3> QED BY <3>3, <3>4
  <2>3. CASE m.op # "persist" /\ StartDrain(m, pending)
    <3>1. m \in Jobs
        BY <2>1, <2>3 DEF Jobs
    <3> QED BY <3>1, <2>3, <1>t, DrainTyped
  <2> QED BY <1>1, <2>2, <2>3 DEF Receive
<1>2. CASE TimerFires \/ ChannelClosed
    BY <1>2, <1>t, JobTypes, DrainTyped DEF TimerFires, ChannelClosed
<1>3. ASSUME NEW n \in Names, WriteOk(n) \/ WriteFails(n) PROVE ThreadOK'
  <2>1. [worker.left EXCEPT ![n] = 0] \in [Names -> Numbers]
      BY <1>t, <1>z DEF Workers
  <2>2. worker' \in Workers
      BY <1>3, <2>1, <1>t DEF WriteOk, WriteFails, Workers
  <2> QED BY <1>3, <2>2, <1>t DEF WriteOk, WriteFails, ThreadOK
<1>4. CASE ThreadStarts \/ ThreadFails \/ DrainEnds \/ ServeFlush \/ ServeRead \/ ServeDelete
    BY <1>4, <1>t, ReceivingTyped
       DEF ThreadStarts, ThreadFails, DrainEnds, ServeFlush, ServeRead, ServeDelete, ThreadOK
<1>5. CASE ProcessEnds
    BY <1>5, <1>z, ReceivingTyped DEF ProcessEnds, ThreadOK
<1>6. CASE CeilingPasses
    BY <1>6, <1>t DEF CeilingPasses, ThreadOK
<1>7. CASE UNCHANGED <<worker, pending, overdue>>
    BY <1>7, <1>t DEF ThreadOK
<1> QED BY <1>1, <1>2, <1>3, <1>4, <1>5, <1>6, <1>7
    DEF Next, Thread, DropHandle, Return, Save, Call, vars

LEMMA StepBackend == TypeInv /\ [Next]_vars => BackendOK'
<1> SUFFICES ASSUME TypeInv, [Next]_vars PROVE BackendOK'
    OBVIOUS
<1>b. disk \in [Names -> Numbers] /\ failed \in SUBSET (Names \X Numbers)
    BY DEF TypeInv, BackendOK
<1>t. worker.msg \in Jobs /\ worker.left \in [Names -> Numbers]
    BY DEF TypeInv, ThreadOK, Workers
<1>1. ASSUME NEW n \in Names, WriteOk(n) \/ WriteFails(n) PROVE BackendOK'
  <2>1. worker.left[n] \in Numbers
      BY <1>t
  <2> QED BY <1>1, <2>1, <1>b DEF WriteOk, WriteFails, BackendOK
<1>2. CASE ServeDelete
  <2>1. worker.msg.op = "delete" => worker.msg.name \in Names /\ worker.msg.num \in Numbers
      BY <1>t DEF Jobs, Requests, Message, Internal, Writes
  <2>2. PICK n \in Names, k \in Numbers : n = worker.msg.name /\ k = worker.msg.num
      BY <1>2, <2>1 DEF ServeDelete, Drained
  <2>3. \/ disk' = [disk EXCEPT ![n] = k] /\ UNCHANGED failed
        \/ failed' = failed \cup {<<n, k>>} /\ UNCHANGED disk
      BY <1>2, <2>2 DEF ServeDelete
  <2> QED BY <2>3, <1>b DEF BackendOK
<1>3. CASE ProcessEnds
    BY <1>3, <1>b DEF ProcessEnds, BackendOK
<1>4. CASE UNCHANGED <<disk, failed>>
    BY <1>4, <1>b DEF BackendOK
<1> QED BY <1>1, <1>2, <1>3, <1>4
    DEF Next, Thread, ThreadStarts, ThreadFails, Receive, TimerFires, ChannelClosed, DrainEnds,
        ServeFlush, ServeRead, CeilingPasses, DropHandle, Return, Save, Call, vars

LEMMA AnswerTyped ==
    ASSUME client \in [Clients -> Calls], NEW ok \in BOOLEAN, NEW got \in [Names -> Numbers],
           NEW excused \in SUBSET (Names \X Numbers), Answer(ok, got, excused)
    PROVE  client' \in [Clients -> Calls]
<1> DEFINE c == worker.msg.from
<1>1. CASE c \in Clients
  <2>0. PICK r \in Calls : r = client[c]
      BY <1>1
  <2>1. [r EXCEPT !.st = "answered", !.ok = ok, !.got = got, !.excused = excused] \in Calls
      BY DEF Calls
  <2> QED BY <1>1, <2>0, <2>1 DEF Answer
<1>2. CASE c \notin Clients
    BY <1>2 DEF Answer
<1> QED BY <1>1, <1>2

LEMMA StepHandles == TypeInv /\ [Next]_vars => HandlesOK'
<1> SUFFICES ASSUME TypeInv, [Next]_vars PROVE HandlesOK'
    OBVIOUS
<1>h. /\ client \in [Clients -> Calls] /\ latest \in [Names -> Numbers]
      /\ deleted \in SUBSET Names /\ count \in Numbers
    BY DEF TypeInv, HandlesOK
<1>b. /\ disk \in [Names -> Numbers] /\ failed \in SUBSET (Names \X Numbers)
      /\ worker.known \in SUBSET (Names \X Numbers) /\ worker.err \in BOOLEAN
    BY DEF TypeInv, BackendOK, ThreadOK, Workers
<1>z. 0 \in Numbers /\ Nothing \in [Names -> Numbers]
    BY Zero
<1>1. ASSUME NEW c \in Clients, NEW n \in Names, Save(c, n) PROVE HandlesOK'
  <2>1. PICK num \in 1 .. MaxNumber : /\ latest' = [latest EXCEPT ![n] = num]
                                      /\ count' = IF num > count THEN num ELSE count
      BY <1>1 DEF Save
  <2>2. num \in Numbers
      BY WriterAssumption DEF Numbers
  <2> QED BY <1>1, <2>1, <2>2, <1>h DEF Save, HandlesOK
<1>2. ASSUME NEW c \in Clients, NEW op \in Ops, NEW n \in Names \cup {NoName}, Call(c, op, n)
      PROVE  HandlesOK'
  <2> DEFINE num  == IF op = "delete" THEN count + 1 ELSE 0
             next == IF op = "delete" THEN [latest EXCEPT ![n] = num] ELSE latest
             st   == IF Running THEN "parked" ELSE "degraded"
  <2>1. num \in Numbers /\ (op = "delete" => n \in Names)
      BY <1>2, <1>h, WriterAssumption DEF Call, Numbers, Ops
  <2>2. /\ latest' = next /\ count' = (IF op = "delete" THEN num ELSE count)
        /\ deleted' = (IF op = "delete" THEN deleted \cup {n} ELSE deleted)
        /\ client' = [client EXCEPT ![c] =
              [IdleClient EXCEPT !.st = st, !.op = op, !.name = n, !.expect = next]]
      BY <1>2 DEF Call
  <2>3. st \in {"parked", "degraded"}
      OBVIOUS
  <2> HIDE DEF num, st
  <2>4. next \in [Names -> Numbers]
      BY <2>1, <1>h
  <2> HIDE DEF next
  <2>5. [IdleClient EXCEPT !.st = st, !.op = op, !.name = n, !.expect = next] \in Calls
      BY <2>3, <2>4, IdleTyped DEF Calls
  <2> QED BY <2>1, <2>2, <2>4, <2>5, <1>h DEF HandlesOK
<1>3. CASE ServeFlush
  <2>1. (~worker.err) \in BOOLEAN
      BY <1>b
  <2> QED BY <1>3, <2>1, <1>h, <1>b, <1>z, AnswerTyped DEF ServeFlush, HandlesOK
<1>4. CASE ServeRead
  <2>1. ASSUME NEW n \in Names, Answer(TRUE, [disk EXCEPT ![n] = 0], failed \cup {<<n, disk[n]>>})
        PROVE  client' \in [Clients -> Calls]
    <3>1. /\ [disk EXCEPT ![n] = 0] \in [Names -> Numbers]
          /\ failed \cup {<<n, disk[n]>>} \in SUBSET (Names \X Numbers)
        BY <1>b, <1>z
    <3> QED BY <2>1, <3>1, <1>h, AnswerTyped
  <2>2. client' \in [Clients -> Calls]
      BY <1>4, <2>1, <1>h, <1>b, <1>z, AnswerTyped DEF ServeRead
  <2> QED BY <1>4, <2>2, <1>h DEF ServeRead, HandlesOK
<1>5. CASE ServeDelete
  <2>1. client' \in [Clients -> Calls]
      BY <1>5, <1>h, <1>b, <1>z, AnswerTyped DEF ServeDelete
  <2> QED BY <1>5, <2>1, <1>h DEF ServeDelete, HandlesOK
<1>6. CASE ThreadFails
  <2>1. \A c \in Clients : [client[c] EXCEPT !.st = "degraded"] \in Calls
      BY <1>h DEF Calls
  <2>2. client' \in [Clients -> Calls]
      BY <1>6, <2>1, <1>h DEF ThreadFails
  <2> QED BY <1>6, <2>2, <1>h DEF ThreadFails, HandlesOK
<1>7. CASE ProcessEnds
    BY <1>7, <1>h, <1>b, IdleTyped DEF ProcessEnds, HandlesOK
<1>8. ASSUME NEW c \in Clients, Return(c) PROVE HandlesOK'
    BY <1>8, <1>h, IdleTyped DEF Return, HandlesOK
<1>9. CASE UNCHANGED <<client, latest, deleted, count>>
    BY <1>9, <1>h DEF HandlesOK
<1> QED BY <1>1, <1>2, <1>3, <1>4, <1>5, <1>6, <1>7, <1>8, <1>9
    DEF Next, Thread, ThreadStarts, Receive, TimerFires, ChannelClosed, WriteOk, WriteFails,
        DrainEnds, CeilingPasses, DropHandle, vars

LEMMA StepHealth == TypeInv /\ [Next]_vars => HealthOK'
<1> SUFFICES ASSUME TypeInv, [Next]_vars PROVE HealthOK'
    OBVIOUS
<1> USE WriterAssumption DEF HealthOK
<1>h. HealthOK
    BY DEF TypeInv
<1>1. ASSUME NEW n \in Names, WriteOk(n) \/ WriteFails(n) PROVE HealthOK'
    BY <1>1, <1>h DEF WriteOk, WriteFails
<1>2. CASE ProcessEnds
    BY <1>2, <1>h DEF ProcessEnds
<1>3. CASE ThreadFails \/ ServeRead \/ ServeDelete
  <2>1. \/ faults' = faults
        \/ faults < MaxFaults /\ faults' = faults + 1
      BY <1>3 DEF ThreadFails, ServeRead, ServeDelete
  <2>2. UNCHANGED <<lastError, verdict>>
      BY <1>3 DEF ThreadFails, ServeRead, ServeDelete
  <2> QED BY <2>1, <2>2, <1>h
<1>4. CASE UNCHANGED <<lastError, verdict, faults>>
    BY <1>4, <1>h
<1> QED BY <1>1, <1>2, <1>3, <1>4
    DEF Next, Thread, ThreadStarts, Receive, TimerFires, ChannelClosed, DrainEnds, ServeFlush,
        CeilingPasses, DropHandle, Return, Save, Call, vars

LEMMA StepTypeInv == TypeInv /\ [Next]_vars => TypeInv'
<1> SUFFICES ASSUME TypeInv, [Next]_vars PROVE TypeInv'
    OBVIOUS
<1> QED BY StepQueue, StepThread, StepBackend, StepHandles, StepHealth DEF TypeInv

\* For any sessions, clients and bounds: the variables of handles and thread keep
\* their types; in particular the thread only ever drains for a flush, a load, a
\* list, a delete, its timer or its end, and a delete names a session.
THEOREM SessionWriterTypeCorrect == Spec => []TypeOK
<1>1. Init => TypeInv
    BY InitTypeInv
<1>2. TypeInv /\ [Next]_vars => TypeInv'
    BY StepTypeInv
<1>3. TypeInv => TypeOK
  <2> SUFFICES ASSUME TypeInv PROVE TypeOK
      OBVIOUS
  <2>1. chan \in Seq(Message)
    <3>1. chan \in Seq(Requests) /\ Requests \subseteq Message
        BY JobTypes DEF TypeInv, QueueOK
    <3> QED BY <3>1, SeqDef
  <2>2. worker \in [pc : {"start", "recv", "drain", "gone", "dead"}, msg : Message,
                    left : [Names -> Numbers], err : BOOLEAN,
                    known : SUBSET (Names \X Numbers)]
      BY JobTypes DEF TypeInv, ThreadOK, Workers
  <2> QED BY <2>1, <2>2 DEF TypeInv, QueueOK, ThreadOK, BackendOK, HandlesOK, HealthOK, TypeOK,
                            Calls
<1> QED BY <1>1, <1>2, <1>3, PTL DEF Spec

----------------------------------------------------------------------------
(* The health slot.                                                        *)

\* For any sessions and faults: the health slot names a session exactly while its
\* last write has failed and no later failure of another one has taken the slot.
THEOREM HealthSlotHonest == Spec => []HealthSlotTruthful
<1>1. Init => HealthSlotTruthful
    BY WriterAssumption DEF Init, HealthSlotTruthful
<1>2. TypeInv /\ HealthSlotTruthful /\ [Next]_vars => HealthSlotTruthful'
  <2> SUFFICES ASSUME TypeInv, HealthSlotTruthful, [Next]_vars PROVE HealthSlotTruthful'
      OBVIOUS
  <2> USE DEF HealthSlotTruthful
  <2>1. ASSUME NEW n \in Names, WriteOk(n) \/ WriteFails(n) PROVE HealthSlotTruthful'
      BY <2>1, WriterAssumption DEF WriteOk, WriteFails, TypeInv, HealthOK
  <2>2. CASE ProcessEnds
      BY <2>2, WriterAssumption DEF ProcessEnds
  <2>3. CASE UNCHANGED <<lastError, verdict>>
      BY <2>3
  <2> QED BY <2>1, <2>2, <2>3
      DEF Next, Thread, ThreadStarts, ThreadFails, Receive, TimerFires, ChannelClosed, DrainEnds,
          ServeFlush, ServeRead, ServeDelete, CeilingPasses, DropHandle, Return, Save, Call, vars
<1> QED BY <1>1, <1>2, InitTypeInv, StepTypeInv, PTL DEF Spec

----------------------------------------------------------------------------
(* What is under way.                                                      *)

\* The request that a drained delete is about to apply.
Doing(msg, n) == IF msg.op = "delete" /\ msg.name = n THEN msg.num ELSE 0

\* The numbers of a session that the thread and the backend have.
Hand == [n \in Names |->
            {0, disk[n], worker.left[n], pending[n], Doing(worker.msg, n)}]

\* Message m writes session n.
WritesTo(m, n) == m.op \in Writes /\ m.name = n

\* The requests e, one per session, are the last ones before place j of the
\* channel q: nothing before that place is later, and each is queued there, in
\* hand, or has failed.
Covers(e, j, q, hand, lost) ==
    \A n \in Names :
        /\ \A k \in hand[n] : k <= e[n]
        /\ \A i \in 1 .. j - 1 : WritesTo(q[i], n) => q[i].num <= e[n]
        /\ \/ e[n] \in hand[n] \/ <<n, e[n]>> \in lost
           \/ \E i \in 1 .. j - 1 : WritesTo(q[i], n) /\ q[i].num = e[n]

\* The thread's places are used one at a time.
ThreadPlaces ==
    /\ worker.pc # "drain" => worker.left = Nothing /\ worker.msg = Internal("timer")
    /\ worker.pc # "recv" => pending = Nothing
    /\ ~Running => chan = <<>>
    /\ worker.msg.op = "exit" => chan = <<>> /\ ~open

\* In hand, the backend has the earliest request and a delete is the latest.
HandOrdered ==
    \A n \in Names :
        /\ worker.left[n] # 0 => disk[n] <= worker.left[n]
        /\ pending[n] # 0 => disk[n] <= pending[n]
        /\ Doing(worker.msg, n) # 0 => /\ disk[n] <= Doing(worker.msg, n)
                                       /\ worker.left[n] <= Doing(worker.msg, n)

\* The writes queued for a session come in the order of their numbers, after
\* everything in hand.
Sorted(q, hand) ==
    \A j \in 1 .. Len(q) : q[j].op \in Writes =>
        /\ \A k \in hand[q[j].name] : k <= q[j].num
        /\ \A i \in 1 .. j - 1 : WritesTo(q[i], q[j].name) => q[i].num <= q[j].num

\* Nothing under way is later than the last request.
Bounded ==
    /\ \A n \in Names : latest[n] <= count /\ \A k \in Hand[n] : k <= latest[n]
    /\ \A j \in 1 .. Len(chan) : chan[j].op \in Writes => chan[j].num <= latest[chan[j].name]

OrderInv == ThreadPlaces /\ HandOrdered /\ Sorted(chan, Hand) /\ Bounded

\* A queued or served call is that of a parked client, which has no other.
ParkedFor(m, cl) ==
    m.from \in Clients => cl[m.from].st = "parked" /\ cl[m.from].op = m.op
                          /\ cl[m.from].name = m.name
Parked(q, msg, cl) ==
    /\ \A j \in 1 .. Len(q) : ParkedFor(q[j], cl)
    /\ ParkedFor(msg, cl)
    /\ \A i, j \in 1 .. Len(q) : q[i].from \in Clients /\ q[i].from = q[j].from => i = j
    /\ msg.from \in Clients => \A j \in 1 .. Len(q) : q[j].from # msg.from
ParkedOnce == Parked(chan, worker.msg, client)

LoadsNamed == \A c \in Clients : client[c].op = "load" => client[c].name \in Names

\* What a read will rely on, queued or served; and the next one, if it is called now.
CallsCovered ==
    /\ \A j \in 1 .. Len(chan) : chan[j].op \in Reads =>
           Covers(client[chan[j].from].expect, j, chan, Hand, failed)
    /\ worker.msg.op \in Reads =>
           Covers(client[worker.msg.from].expect, 1, chan, Hand, failed)
    /\ Running => Covers(latest, Len(chan) + 1, chan, Hand, failed)

\* A flush whose drain has met no error knows of every failure.
FailuresKnown == worker.msg.op = "flush" /\ ~worker.err => failed \subseteq worker.known

CallInv == ParkedOnce /\ LoadsNamed /\ CallsCovered /\ FailuresKnown

\* The thread with nothing to do.
AtRest(w) == w.left = Nothing /\ w.msg = Internal("timer")

LEMMA RestIsRest ==
    /\ AtRest(Receiving) /\ Receiving.pc = "recv"
    /\ \A p \in {"start", "gone", "dead"} :
           AtRest([Receiving EXCEPT !.pc = p]) /\ [Receiving EXCEPT !.pc = p].pc = p
BY DEF AtRest, Receiving

LEMMA NotDoing ==
    /\ \A n \in Names : Nothing[n] = 0
    /\ \A n : Doing(Internal("timer"), n) = 0 /\ Doing(Internal("exit"), n) = 0
    /\ Internal("timer").op = "timer" /\ Internal("exit").op = "exit"
    /\ Internal("timer").from = NoName /\ Internal("exit").from = NoName
BY DEF Nothing, Doing, Internal

LEMMA StepPlaces == TypeInv /\ ThreadPlaces /\ [Next]_vars => ThreadPlaces'
<1> SUFFICES ASSUME TypeInv, ThreadPlaces, [Next]_vars PROVE ThreadPlaces'
    OBVIOUS
<1>w. worker \in Workers
    BY DEF TypeInv, ThreadOK
\* The thread comes to rest.
<1>r. ASSUME AtRest(worker'), pending' = Nothing, worker'.pc \in {"start", "recv"} \/ chan' = <<>>
      PROVE  ThreadPlaces'
    BY <1>r, NotDoing DEF ThreadPlaces, AtRest, Running
<1>d. ASSUME NEW msg, NEW snapshots, StartDrain(msg, snapshots),
             msg.op = "exit" => chan' = <<>> /\ ~open'
      PROVE  ThreadPlaces'
  <2>1. worker'.pc = "drain" /\ pending' = Nothing /\ worker'.msg = msg
      BY <1>d DEF StartDrain
  <2> QED BY <1>d, <2>1 DEF ThreadPlaces, Running
<1>k. ASSUME UNCHANGED <<worker, pending>>, (Running /\ open) \/ chan' = chan, open' => open
      PROVE  ThreadPlaces'
    BY <1>k DEF ThreadPlaces, Running
<1>1. CASE Receive
  <2>1. CASE UNCHANGED worker
      BY <1>1, <2>1, NotDoing DEF Receive, ThreadPlaces, Running
  <2>2. CASE ~UNCHANGED worker
    <3>1. Head(chan) \in Requests
        BY <1>1, HeadTailProperties DEF Receive, TypeInv, QueueOK
    <3>2. Head(chan).op # "exit"
        BY <3>1 DEF Requests, Writes, Reads
    <3> QED BY <1>1, <2>2, <3>2, <1>d, NotDoing DEF Receive, Buffer
  <2> QED BY <2>1, <2>2
<1>2. CASE TimerFires \/ ChannelClosed
    BY <1>2, <1>d, NotDoing DEF TimerFires, ChannelClosed
<1>3. ASSUME NEW n \in Names, WriteOk(n) \/ WriteFails(n) PROVE ThreadPlaces'
  <2>1. worker'.pc = "drain" /\ worker.pc = "drain" /\ worker'.msg = worker.msg
      BY <1>3, <1>w DEF WriteOk, WriteFails, Workers
  <2> QED BY <1>3, <2>1 DEF WriteOk, WriteFails, ThreadPlaces, Running
<1>4. CASE ThreadStarts \/ ServeFlush \/ ServeRead \/ ServeDelete
    BY <1>4, <1>r, RestIsRest
       DEF ThreadStarts, ServeFlush, ServeRead, ServeDelete, Drained, ThreadPlaces
<1>5. CASE DrainEnds
    BY <1>5, <1>r, RestIsRest DEF DrainEnds, Drained, ThreadPlaces
<1>6. CASE ThreadFails \/ ProcessEnds
    BY <1>6, <1>r, RestIsRest DEF ThreadFails, ProcessEnds, ThreadPlaces
<1>7. CASE UNCHANGED <<worker, pending, chan>> /\ (open' => open)
    BY <1>7, <1>k
<1>8. ASSUME NEW c \in Clients, NEW n \in Names \cup {NoName},
             Save(c, n) \/ \E op \in Ops : Call(c, op, n)
      PROVE  ThreadPlaces'
    BY <1>8, <1>k DEF Save, Call
<1> QED BY <1>1, <1>2, <1>3, <1>4, <1>5, <1>6, <1>7, <1>8
    DEF Next, Thread, CeilingPasses, DropHandle, Return, vars

----------------------------------------------------------------------------
(* Channels and what is in hand.                                           *)

\* What the request m adds to the hand.
Taken(m, n)   == IF WritesTo(m, n) THEN {m.num} ELSE {}
Plus(hand, m) == [n \in Names |-> hand[n] \cup Taken(m, n)]

\* A hand loses a number only to a failure or for a later one, and a failure is
\* forgotten only for a number in hand.
Evolves(hand, lost, hand2, lost2) ==
    \A n \in Names :
        /\ hand2[n] \subseteq hand[n]
        /\ \A k \in hand[n] : \/ k \in hand2[n] \/ <<n, k>> \in lost2
                              \/ \E l \in hand[n] : k < l
        /\ \A k : <<n, k>> \in lost => <<n, k>> \in lost2 \/ k \in hand2[n]

Hands == [Names -> SUBSET Numbers]

LEMMA NumbersAreNats == Numbers \subseteq Nat
BY WriterAssumption DEF Numbers

LEMMA RequestNum == \A m \in Requests : /\ m.num \in Numbers
                                        /\ m.op \in Writes => m.name \in Names /\ m.num # 0
BY DEF Requests, Message

LEMMA CoversEvolve ==
    ASSUME NEW e \in [Names -> Numbers], NEW j, NEW q, NEW hand \in Hands, NEW lost,
           NEW hand2, NEW lost2, Covers(e, j, q, hand, lost),
           Evolves(hand, lost, hand2, lost2)
    PROVE  Covers(e, j, q, hand2, lost2)
<1> SUFFICES ASSUME NEW n \in Names
             PROVE  /\ \A k \in hand2[n] : k <= e[n]
                    /\ \A i \in 1 .. j - 1 : WritesTo(q[i], n) => q[i].num <= e[n]
                    /\ \/ e[n] \in hand2[n] \/ <<n, e[n]>> \in lost2
                       \/ \E i \in 1 .. j - 1 : WritesTo(q[i], n) /\ q[i].num = e[n]
    BY DEF Covers
<1>1. /\ \A k \in hand[n] : k <= e[n]
      /\ \A i \in 1 .. j - 1 : WritesTo(q[i], n) => q[i].num <= e[n]
      /\ \/ e[n] \in hand[n] \/ <<n, e[n]>> \in lost
         \/ \E i \in 1 .. j - 1 : WritesTo(q[i], n) /\ q[i].num = e[n]
    BY DEF Covers
<1>2. hand2[n] \subseteq hand[n]
    BY DEF Evolves
<1>3. e[n] \in hand[n] => e[n] \in hand2[n] \/ <<n, e[n]>> \in lost2
  <2> SUFFICES ASSUME e[n] \in hand[n], ~(e[n] \in hand2[n] \/ <<n, e[n]>> \in lost2)
               PROVE  FALSE
      OBVIOUS
  <2>1. PICK l \in hand[n] : e[n] < l
      BY DEF Evolves
  <2>2. l <= e[n] /\ l \in Nat /\ e[n] \in Nat
      BY <1>1, NumbersAreNats DEF Hands
  <2> QED BY <2>1, <2>2
<1>4. <<n, e[n]>> \in lost => <<n, e[n]>> \in lost2 \/ e[n] \in hand2[n]
    BY DEF Evolves
<1> QED BY <1>1, <1>2, <1>3, <1>4

\* Reading the channel's head moves its number into the hand.
LEMMA CoversTail ==
    ASSUME NEW e \in [Names -> Numbers], NEW q \in Seq(Requests), q # <<>>,
           NEW j \in 2 .. Len(q) + 1, NEW hand \in Hands, NEW lost, Covers(e, j, q, hand, lost)
    PROVE  Covers(e, j - 1, Tail(q), Plus(hand, Head(q)), lost)
<1> SUFFICES ASSUME NEW n \in Names
             PROVE  /\ \A k \in hand[n] \cup Taken(q[1], n) : k <= e[n]
                    /\ \A i \in 1 .. j - 2 :
                           WritesTo(Tail(q)[i], n) => Tail(q)[i].num <= e[n]
                    /\ \/ e[n] \in hand[n] \cup Taken(q[1], n) \/ <<n, e[n]>> \in lost
                       \/ \E i \in 1 .. j - 2 :
                              WritesTo(Tail(q)[i], n) /\ Tail(q)[i].num = e[n]
  <2>1. Head(q) = q[1] /\ (j - 1) - 1 = j - 2
      BY HeadTailProperties
  <2> QED BY <2>1 DEF Covers, Plus
<1>l. Len(q) \in Nat /\ Len(q) > 0
    BY LenProperties, EmptySeq
<1>1. \A i \in 1 .. j - 2 : Tail(q)[i] = q[i + 1] /\ i + 1 \in 1 .. j - 1
    BY <1>l, HeadTailProperties
<1>2. 1 \in 1 .. j - 1
    BY <1>l
<1>3. /\ \A k \in hand[n] : k <= e[n]
      /\ \A i \in 1 .. j - 1 : WritesTo(q[i], n) => q[i].num <= e[n]
      /\ \/ e[n] \in hand[n] \/ <<n, e[n]>> \in lost
         \/ \E i \in 1 .. j - 1 : WritesTo(q[i], n) /\ q[i].num = e[n]
    BY DEF Covers
<1>4. \A k \in Taken(q[1], n) : k <= e[n]
    BY <1>2, <1>3 DEF Taken
<1>5. ASSUME NEW i \in 1 .. j - 1, WritesTo(q[i], n), q[i].num = e[n]
      PROVE  \/ e[n] \in Taken(q[1], n)
             \/ \E h \in 1 .. j - 2 : WritesTo(Tail(q)[h], n) /\ Tail(q)[h].num = e[n]
  <2>1. CASE i = 1
      BY <1>5, <2>1 DEF Taken
  <2>2. CASE i # 1
    <3>1. i - 1 \in 1 .. j - 2 /\ (i - 1) + 1 = i
        BY <2>2
    <3> QED BY <1>1, <1>5, <3>1
  <2> QED BY <2>1, <2>2
<1> QED BY <1>1, <1>3, <1>4, <1>5

LEMMA CoversAppend ==
    ASSUME NEW e, NEW q \in Seq(Requests), NEW m \in Requests, NEW j \in 1 .. Len(q) + 1,
           NEW hand, NEW lost, Covers(e, j, q, hand, lost)
    PROVE  Covers(e, j, Append(q, m), hand, lost)
<1>1. \A i \in 1 .. j - 1 : Append(q, m)[i] = q[i]
    BY AppendProperties, LenProperties
<1> QED BY <1>1 DEF Covers

\* A channel in order stays in order as its head is read and as requests are
\* queued.
LEMMA SortedShrinks ==
    ASSUME NEW q \in Seq(Requests), NEW hand, NEW hand2, Sorted(q, hand),
           \A n \in Names : hand2[n] \subseteq hand[n]
    PROVE  Sorted(q, hand2)
<1>1. \A j \in 1 .. Len(q) : q[j].op \in Writes => q[j].name \in Names
    BY RequestNum, ElementOfSeq
<1> QED BY <1>1 DEF Sorted

LEMMA SortedTail ==
    ASSUME NEW q \in Seq(Requests), q # <<>>, NEW hand \in Hands, Sorted(q, hand)
    PROVE  Sorted(Tail(q), Plus(hand, Head(q)))
<1>l. Len(q) \in Nat /\ Len(q) > 0 /\ Len(Tail(q)) = Len(q) - 1 /\ Head(q) = q[1]
    BY LenProperties, EmptySeq, HeadTailProperties
<1>1. \A i \in 1 .. Len(Tail(q)) : Tail(q)[i] = q[i + 1] /\ i + 1 \in 1 .. Len(q)
    BY <1>l, HeadTailProperties
<1> SUFFICES ASSUME NEW j \in 1 .. Len(Tail(q)), Tail(q)[j].op \in Writes
             PROVE  /\ \A k \in Plus(hand, q[1])[Tail(q)[j].name] : k <= Tail(q)[j].num
                    /\ \A i \in 1 .. j - 1 :
                           WritesTo(Tail(q)[i], Tail(q)[j].name) => Tail(q)[i].num <= Tail(q)[j].num
    BY <1>l DEF Sorted
<1> DEFINE m == q[j + 1]
<1>2. Tail(q)[j] = m /\ j + 1 \in 1 .. Len(q) /\ 1 \in 1 .. (j + 1) - 1
    BY <1>1
<1>3. /\ \A k \in hand[m.name] : k <= m.num
      /\ \A i \in 1 .. (j + 1) - 1 : WritesTo(q[i], m.name) => q[i].num <= m.num
    BY <1>2 DEF Sorted
<1>4. m.name \in Names
    BY <1>2, RequestNum, ElementOfSeq
<1>5. \A k \in Taken(q[1], m.name) : k <= m.num
    BY <1>2, <1>3 DEF Taken
<1>6. Plus(hand, q[1])[m.name] = hand[m.name] \cup Taken(q[1], m.name)
    BY <1>4 DEF Plus
<1>7. \A i \in 1 .. j - 1 : i \in 1 .. Len(Tail(q)) /\ i + 1 \in 1 .. (j + 1) - 1
    BY <1>l
<1> QED BY <1>1, <1>2, <1>3, <1>5, <1>6, <1>7

LEMMA SortedAppend ==
    ASSUME NEW q \in Seq(Requests), NEW m \in Requests, NEW hand, Sorted(q, hand),
           m.op \in Writes =>
               /\ \A k \in hand[m.name] : k <= m.num
               /\ \A i \in 1 .. Len(q) : WritesTo(q[i], m.name) => q[i].num <= m.num
    PROVE  Sorted(Append(q, m), hand)
<1>l. Len(q) \in Nat /\ Len(Append(q, m)) = Len(q) + 1
    BY LenProperties, AppendProperties
<1>1. /\ \A i \in 1 .. Len(q) : Append(q, m)[i] = q[i]
      /\ Append(q, m)[Len(q) + 1] = m
    BY AppendProperties, LenProperties
<1> SUFFICES ASSUME NEW j \in 1 .. Len(q) + 1, Append(q, m)[j].op \in Writes
             PROVE  /\ \A k \in hand[Append(q, m)[j].name] : k <= Append(q, m)[j].num
                    /\ \A i \in 1 .. j - 1 : WritesTo(Append(q, m)[i], Append(q, m)[j].name)
                           => Append(q, m)[i].num <= Append(q, m)[j].num
    BY <1>l DEF Sorted
<1>2. \A i \in 1 .. j - 1 : i \in 1 .. Len(q)
    BY <1>l
<1>3. CASE j = Len(q) + 1
    BY <1>1, <1>2, <1>3
<1>4. CASE j \in 1 .. Len(q)
    BY <1>1, <1>2, <1>4 DEF Sorted
<1> QED BY <1>3, <1>4, <1>l

----------------------------------------------------------------------------
(* Steps and the hand.                                                     *)

LEMMA HandIs ==
    ASSUME TypeInv
    PROVE  /\ Hand \in Hands
           /\ \A n \in Names :
                  /\ Hand[n] = {0, disk[n], worker.left[n], pending[n], Doing(worker.msg, n)}
                  /\ disk[n] \in Numbers /\ worker.left[n] \in Numbers
                  /\ pending[n] \in Numbers /\ Doing(worker.msg, n) \in Numbers
<1>1. ASSUME NEW n \in Names
      PROVE  /\ disk[n] \in Numbers /\ worker.left[n] \in Numbers
             /\ pending[n] \in Numbers /\ Doing(worker.msg, n) \in Numbers
  <2>1. worker.msg \in Jobs /\ worker.left \in [Names -> Numbers]
      BY DEF TypeInv, ThreadOK, Workers
  <2>2. worker.msg.num \in Numbers
      BY <2>1, JobTypes DEF Message
  <2> QED BY <2>1, <2>2, Zero DEF TypeInv, ThreadOK, BackendOK, Doing
<1> QED BY <1>1, Zero DEF Hand, Hands

\* A step that leaves the thread's and the backend's numbers where they are.
Keeps ==
    /\ UNCHANGED <<disk, failed, pending>> /\ worker'.left = worker.left
    /\ \A n \in Names : Doing(worker'.msg, n) = Doing(worker.msg, n)
\* A step that takes what is buffered.
Takes ==
    /\ UNCHANGED <<disk, failed>> /\ worker.left = Nothing /\ worker'.left = pending
    /\ pending' = Nothing
    /\ \A n \in Names : Doing(worker'.msg, n) = 0 /\ Doing(worker.msg, n) = 0

LEMMA Kinds ==
    ASSUME TypeInv, ThreadPlaces, [Next]_vars
    PROVE  \/ Keeps \/ Takes \/ Receive \/ ServeDelete \/ ProcessEnds
           \/ \E n \in Names : WriteOk(n) \/ WriteFails(n)
<1>1. CASE TimerFires \/ ChannelClosed
  <2>1. /\ worker.left = Nothing /\ worker.msg = Internal("timer")
        /\ worker'.left = pending /\ pending' = Nothing
        /\ worker'.msg = Internal("timer") \/ worker'.msg = Internal("exit")
      BY <1>1 DEF TimerFires, ChannelClosed, StartDrain, ThreadPlaces
  <2> QED BY <1>1, <2>1, NotDoing DEF TimerFires, ChannelClosed, Takes
<1>2. CASE ThreadStarts \/ ThreadFails
  <2>1. AtRest(worker) /\ AtRest(worker')
      BY <1>2, RestIsRest DEF ThreadStarts, ThreadFails, ThreadPlaces, AtRest
  <2> QED BY <1>2, <2>1 DEF ThreadStarts, ThreadFails, Keeps, AtRest
<1>3. CASE DrainEnds \/ ServeFlush \/ ServeRead
  <2>1. AtRest(worker') /\ worker.left = Nothing /\ worker.msg.op # "delete"
      BY <1>3, RestIsRest DEF DrainEnds, ServeFlush, ServeRead, Drained
  <2>2. \A n \in Names : Doing(worker.msg, n) = 0 /\ Doing(worker'.msg, n) = 0
      BY <2>1, NotDoing DEF Doing, AtRest
  <2> QED BY <1>3, <2>1, <2>2 DEF DrainEnds, ServeFlush, ServeRead, Keeps, AtRest
<1>4. CASE UNCHANGED <<worker, disk, failed, pending>>
    BY <1>4 DEF Keeps
<1> QED BY <1>1, <1>2, <1>3, <1>4
    DEF Next, Thread, CeilingPasses, DropHandle, Return, Save, Call, vars

\* Except when a request is read or the process ends, the hand evolves and stays
\* in order.
LEMMA HandEvolves ==
    ASSUME TypeInv, TypeInv', ThreadPlaces, HandOrdered,
           Keeps \/ Takes \/ ServeDelete \/ \E n \in Names : WriteOk(n) \/ WriteFails(n)
    PROVE  Evolves(Hand, failed, Hand', failed') /\ HandOrdered'
<1>h. \A n \in Names :
          /\ Hand[n] = {0, disk[n], worker.left[n], pending[n], Doing(worker.msg, n)}
          /\ disk[n] \in Nat /\ worker.left[n] \in Nat
          /\ pending[n] \in Nat /\ Doing(worker.msg, n) \in Nat
    BY HandIs, NumbersAreNats
<1>g. \A n \in Names :
          Hand'[n] = {0, disk'[n], worker'.left[n], pending'[n], Doing(worker'.msg, n)}
    BY DEF Hand
<1>1. CASE Keeps
  <2>1. HandOrdered'
      BY <1>1 DEF Keeps, HandOrdered
  <2>2. \A n \in Names : Hand'[n] = Hand[n]
      BY <1>1, <1>h, <1>g DEF Keeps
  <2> QED BY <1>1, <2>1, <2>2 DEF Keeps, Evolves
<1>2. CASE Takes
  <2>1. \A n \in Names : /\ worker.left[n] = 0 /\ pending'[n] = 0
                         /\ Doing(worker.msg, n) = 0 /\ Doing(worker'.msg, n) = 0
                         /\ worker'.left[n] = pending[n] /\ disk'[n] = disk[n]
      BY <1>2, NotDoing DEF Takes
  <2>2. HandOrdered'
      BY <2>1 DEF HandOrdered
  <2>3. ASSUME NEW n \in Names PROVE Hand'[n] = Hand[n]
    <3>1. Hand[n] = {0, disk[n], 0, pending[n], 0} /\ Hand'[n] = {0, disk[n], pending[n], 0, 0}
        BY <2>1, <1>h, <1>g, Zenon
    <3> QED BY <3>1
  <2> QED BY <1>2, <2>2, <2>3 DEF Takes, Evolves
<1>3. ASSUME NEW m \in Names, WriteOk(m) \/ WriteFails(m)
      PROVE  Evolves(Hand, failed, Hand', failed') /\ HandOrdered'
  <2> DEFINE l == worker.left[m]
  <2>w. worker.left \in [Names -> Numbers] /\ worker \in Workers
      BY DEF TypeInv, ThreadOK, Workers
  <2>1. /\ worker.pc = "drain" /\ l # 0
        /\ worker'.left = [worker.left EXCEPT ![m] = 0] /\ worker'.msg = worker.msg
        /\ UNCHANGED pending
      BY <1>3, <2>w DEF WriteOk, WriteFails, Workers
  <2>2. \A n \in Names : /\ worker'.left[n] = IF n = m THEN 0 ELSE worker.left[n]
                         /\ pending[n] = 0 /\ pending'[n] = 0
      BY <2>1, <2>w, NotDoing DEF ThreadPlaces
  <2>3. disk[m] <= l
      BY <2>1 DEF HandOrdered
  <2>4. \/ /\ \A n \in Names : disk'[n] = IF n = m THEN l ELSE disk[n]
           /\ failed' = failed \ {<<m, l>>}
        \/ /\ UNCHANGED disk
           /\ failed' = failed \cup {<<m, l>>}
      BY <1>3 DEF WriteOk, WriteFails, TypeInv, BackendOK
  <2>5. HandOrdered'
      BY <2>1, <2>2, <2>3, <2>4, <1>h DEF HandOrdered
  <2>6. ASSUME NEW n \in Names, n # m
        PROVE  Hand'[n] = Hand[n] /\ \A k : <<n, k>> \in failed' <=> <<n, k>> \in failed
    <3>1. disk'[n] = disk[n] /\ worker'.left[n] = worker.left[n] /\ pending'[n] = pending[n]
        BY <2>2, <2>4, <2>6
    <3>2. Hand'[n] = Hand[n]
        BY <2>1, <3>1, <1>h, <1>g, Zenon
    <3>3. \A k : <<n, k>> \in failed' <=> <<n, k>> \in failed
        BY <2>4, <2>6
    <3> QED BY <3>2, <3>3
  <2>7. /\ Hand[m] = {0, disk[m], l, Doing(worker.msg, m)}
        /\ Hand'[m] = {0, disk'[m], Doing(worker.msg, m)}
      BY <2>1, <2>2, <1>h, <1>g
  <2>8. /\ Hand'[m] \subseteq Hand[m]
        /\ \A k \in Hand[m] : k \in Hand'[m] \/ <<m, k>> \in failed' \/ \E x \in Hand[m] : k < x
        /\ \A k : <<m, k>> \in failed => <<m, k>> \in failed' \/ k \in Hand'[m]
    <3> HIDE DEF l
    <3>1. CASE disk'[m] = l /\ failed' = failed \ {<<m, l>>}
      <4>1. disk[m] = l \/ disk[m] < l
          BY <2>3, <1>h DEF l
      <4> QED BY <2>7, <3>1, <4>1
    <3>2. CASE disk'[m] = disk[m] /\ failed' = failed \cup {<<m, l>>}
        BY <2>7, <3>2
    <3> QED BY <2>4, <3>1, <3>2
  <2> QED BY <2>5, <2>6, <2>8 DEF Evolves
<1>4. CASE ServeDelete
  <2>0. worker.msg \in Jobs /\ worker.msg.op = "delete" /\ AtRest(worker')
      BY <1>4, RestIsRest DEF ServeDelete, Drained, TypeInv, ThreadOK, Workers
  <2>1. PICK m \in Names, l \in Numbers : m = worker.msg.name /\ l = worker.msg.num /\ l # 0
      BY <2>0, NotDoing DEF Jobs, Requests, Message, Writes
  <2>2. \A n \in Names : /\ worker.left[n] = 0 /\ pending[n] = 0 /\ pending'[n] = 0
                         /\ worker'.left[n] = 0 /\ Doing(worker'.msg, n) = 0
                         /\ Doing(worker.msg, n) = IF n = m THEN l ELSE 0
      BY <1>4, <2>0, <2>1, NotDoing DEF ServeDelete, Drained, ThreadPlaces, AtRest, Doing
  <2>3. disk[m] <= l
      BY <2>1, <2>2 DEF HandOrdered
  <2>4. \/ /\ \A n \in Names : disk'[n] = IF n = m THEN l ELSE disk[n]
           /\ UNCHANGED failed
        \/ /\ UNCHANGED disk
           /\ failed' = failed \cup {<<m, l>>}
      BY <1>4, <2>1 DEF ServeDelete, TypeInv, BackendOK
  <2>5. HandOrdered'
      BY <2>2 DEF HandOrdered
  <2>6. ASSUME NEW n \in Names, n # m
        PROVE  Hand'[n] = Hand[n] /\ \A k : <<n, k>> \in failed' <=> <<n, k>> \in failed
    <3>1. \A k : <<n, k>> \in failed' <=> <<n, k>> \in failed
        BY <2>4, <2>6
    <3>2. disk'[n] = disk[n]
        BY <2>4, <2>6
    <3>3. Doing(worker.msg, n) = 0 /\ Doing(worker'.msg, n) = 0
        BY <2>2, <2>6
    <3>4. Hand'[n] = Hand[n]
      <4>1. Hand[n] = {0, disk[n], worker.left[n], pending[n], Doing(worker.msg, n)}
          BY <1>h
      <4>2. Hand'[n] = {0, disk'[n], worker'.left[n], pending'[n], Doing(worker'.msg, n)}
          BY <1>g
      <4>3. /\ worker.left[n] = 0 /\ pending[n] = 0
            /\ worker'.left[n] = 0 /\ pending'[n] = 0
          BY <2>2
      <4> QED BY <3>2, <3>3, <4>1, <4>2, <4>3
    <3> QED BY <3>1, <3>4
  <2>7. Hand[m] = {0, disk[m], l} /\ Hand'[m] = {0, disk'[m]}
      BY <2>2, <1>h, <1>g
  <2>8. /\ Hand'[m] \subseteq Hand[m]
        /\ \A k \in Hand[m] : k \in Hand'[m] \/ <<m, k>> \in failed' \/ \E x \in Hand[m] : k < x
        /\ \A k : <<m, k>> \in failed => <<m, k>> \in failed' \/ k \in Hand'[m]
    <3>1. CASE disk'[m] = l /\ UNCHANGED failed
      <4>1. disk[m] = l \/ disk[m] < l
          BY <2>3, <1>h, NumbersAreNats
      <4> QED BY <2>7, <3>1, <4>1
    <3>2. CASE disk'[m] = disk[m] /\ failed' = failed \cup {<<m, l>>}
        BY <2>7, <3>2
    <3> QED BY <2>4, <3>1, <3>2
  <2> QED BY <2>5, <2>6, <2>8 DEF Evolves
<1> QED BY <1>1, <1>2, <1>3, <1>4

\* Reading a request puts its number in hand, in place of an earlier one.
LEMMA HandReceives ==
    ASSUME TypeInv, TypeInv', ThreadPlaces, HandOrdered, Sorted(chan, Hand), Receive
    PROVE  Evolves(Plus(Hand, Head(chan)), failed, Hand', failed') /\ HandOrdered'
<1> DEFINE m == Head(chan)
<1>q. chan \in Seq(Requests) /\ chan # <<>> /\ m \in Requests /\ m = chan[1] /\ 1 \in 1 .. Len(chan)
    BY HeadTailProperties, LenProperties, EmptySeq DEF Receive, TypeInv, QueueOK
<1>m. m.num \in Nat /\ (m.op \in Writes => m.name \in Names /\ m.num # 0)
    BY <1>q, RequestNum, NumbersAreNats
<1>n. \A n \in Names :
          /\ worker.left[n] = 0 /\ Doing(worker.msg, n) = 0
          /\ disk[n] \in Nat /\ pending[n] \in Nat /\ Hand[n] = {0, disk[n], 0, pending[n], 0}
  <2>1. worker.left = Nothing /\ worker.msg = Internal("timer")
      BY DEF Receive, ThreadPlaces
  <2>2. \A n \in Names : worker.left[n] = 0 /\ Doing(worker.msg, n) = 0
      BY <2>1, NotDoing, Zenon
  <2>3. \A n \in Names : disk[n] \in Nat /\ pending[n] \in Nat
      BY HandIs, NumbersAreNats
  <2>4. \A n \in Names : Hand[n] = {0, disk[n], 0, pending[n], 0}
      BY <2>2, HandIs, Zenon
  <2> QED BY <2>2, <2>3, <2>4
<1>s. m.op \in Writes => disk[m.name] <= m.num /\ pending[m.name] <= m.num
    BY <1>q, <1>m, <1>n DEF Sorted
<1>o. \A n \in Names : pending[n] # 0 => disk[n] <= pending[n]
    BY DEF HandOrdered
<1>g. \A n \in Names :
          Hand'[n] = {0, disk'[n], worker'.left[n], pending'[n], Doing(worker'.msg, n)}
    BY DEF Hand
<1>p. \A n \in Names : Plus(Hand, m)[n] = {0, disk[n], pending[n]} \cup Taken(m, n)
    BY <1>n DEF Plus
<1>d. disk' = disk /\ failed' = failed
    BY DEF Receive
<1> HIDE DEF m
<1>1. CASE m.op = "persist"
  <2> DEFINE snap == [pending EXCEPT ![m.name] = m.num]
  <2>1. m.name \in Names /\ m.num # 0 /\ disk[m.name] <= m.num /\ pending[m.name] <= m.num
      BY <1>1, <1>m, <1>s DEF Writes
  <2>2. \A n \in Names : snap[n] = IF n = m.name THEN m.num ELSE pending[n]
      BY <2>1 DEF TypeInv, ThreadOK
  <2>3. \/ worker'.left = snap /\ pending' = Nothing /\ worker'.msg = Internal("timer")
        \/ UNCHANGED worker /\ pending' = snap
      BY <1>1 DEF Receive, Buffer, StartDrain, m
  <2> HIDE DEF snap
  <2>4. \A n \in Names :
            /\ Doing(worker'.msg, n) = 0
            /\ \/ worker'.left[n] = snap[n] /\ pending'[n] = 0
               \/ worker'.left[n] = 0 /\ pending'[n] = snap[n]
      BY <2>3, <1>n, NotDoing
  <2>5. HandOrdered'
      BY <2>1, <2>2, <2>4, <1>d, <1>o DEF HandOrdered
  <2>6. ASSUME NEW n \in Names PROVE Hand'[n] = {0, disk[n], snap[n]}
      BY <2>4, <1>g, <1>d
  <2>7. ASSUME NEW n \in Names, n # m.name
        PROVE  Plus(Hand, m)[n] = Hand'[n]
    <3>1. Taken(m, n) = {} /\ snap[n] = pending[n]
        BY <2>2, <2>7 DEF Taken, WritesTo
    <3> QED BY <2>6, <3>1, <1>p
  <2>8. /\ Plus(Hand, m)[m.name] = {0, disk[m.name], pending[m.name], m.num}
        /\ Hand'[m.name] = {0, disk[m.name], m.num}
    <3>1. Taken(m, m.name) = {m.num}
        BY <1>1 DEF Taken, WritesTo, Writes
    <3> QED BY <2>1, <2>2, <2>6, <3>1, <1>p
  <2>9. pending[m.name] = m.num \/ pending[m.name] < m.num
      BY <2>1, <1>n, <1>m
  <2>10. Evolves(Plus(Hand, m), failed, Hand', failed')
      BY <2>1, <2>7, <2>8, <2>9, <1>d DEF Evolves
  <2> QED BY <2>5, <2>10 DEF m
<1>2. CASE m.op # "persist"
  <2>1. worker'.left = pending /\ pending' = Nothing /\ worker'.msg = m
      BY <1>2 DEF Receive, StartDrain, m
  <2>2. \A n \in Names : /\ pending'[n] = 0 /\ worker'.left[n] = pending[n]
                         /\ Doing(worker'.msg, n) = Doing(m, n)
      BY <2>1, NotDoing
  <2>3. \A n \in Names : /\ Doing(m, n) # 0 => m.op \in Writes /\ m.name = n /\ Doing(m, n) = m.num
                         /\ Taken(m, n) \subseteq {Doing(m, n)} /\ Doing(m, n) \in Taken(m, n) \cup {0}
      BY <1>2 DEF Doing, Taken, WritesTo, Writes
  <2>4. HandOrdered'
      BY <2>2, <2>3, <1>d, <1>o, <1>s DEF HandOrdered
  <2>5. ASSUME NEW n \in Names PROVE Hand'[n] = Plus(Hand, m)[n]
    <3>1. Hand'[n] = {0, disk[n], pending[n], 0, Doing(m, n)}
        BY <2>2, <1>g, <1>d, Zenon
    <3>2. {0, disk[n], pending[n], 0, Doing(m, n)} = {0, disk[n], pending[n]} \cup Taken(m, n)
        BY <2>3
    <3> QED BY <3>1, <3>2, <1>p
  <2>6. Evolves(Plus(Hand, m), failed, Hand', failed')
      BY <2>5, <1>d DEF Evolves
  <2> QED BY <2>4, <2>6 DEF m
<1> QED BY <1>1, <1>2

\* A save and a call queue a request with the latest number, or none.
Queued(m) == chan' = (IF Running THEN Append(chan, m) ELSE chan)

LEMMA SaveQueues ==
    ASSUME TypeInv, \A n \in Names : latest[n] <= count,
           NEW c \in Clients, NEW n \in Names, Save(c, n)
    PROVE  \E m \in Requests :
               /\ Queued(m) /\ m.op = "persist" /\ m.name = n /\ latest[n] <= m.num
               /\ latest' = [latest EXCEPT ![n] = m.num]
               /\ \A x \in Names : latest'[x] <= count'
<1>t. latest \in [Names -> Numbers] /\ count \in Numbers
    BY DEF TypeInv, HandlesOK
<1>1. PICK num \in {count + 1} \cup (IF n \in deleted THEN {} ELSE {latest[n]}) :
          /\ num \in 1 .. MaxNumber
          /\ latest' = [latest EXCEPT ![n] = num]
          /\ count' = IF num > count THEN num ELSE count
          /\ Queued([op |-> "persist", name |-> n, num |-> num, from |-> NoName])
    BY DEF Save, Queued
<1>2. [op |-> "persist", name |-> n, num |-> num, from |-> NoName] \in Requests
    BY <1>1, PersistTyped
<1>3. num \in Nat /\ count \in Nat /\ \A x \in Names : latest[x] \in Nat
  <2>1. num \in Nat
      BY <1>1, WriterAssumption
  <2> QED BY <2>1, <1>t, NumbersAreNats
<1>4. latest[n] <= num
    BY <1>1, <1>3
<1>5. \A x \in Names : latest'[x] <= count'
    BY <1>1, <1>3, <1>t
<1> QED BY <1>1, <1>2, <1>4, <1>5

LEMMA CallQueues ==
    ASSUME TypeInv, \A n \in Names : latest[n] <= count,
           NEW c \in Clients, NEW op \in Ops, NEW n \in Names \cup {NoName}, Call(c, op, n)
    PROVE  \E m \in Requests :
               /\ Queued(m) /\ m.op = op /\ m.name = n /\ m.from = c
               /\ \/ /\ op = "delete" /\ latest[n] <= m.num
                     /\ latest' = [latest EXCEPT ![n] = m.num]
                  \/ op # "delete" /\ latest' = latest
               /\ \A x \in Names : latest'[x] <= count'
<1>t. latest \in [Names -> Numbers] /\ count \in Numbers
    BY DEF TypeInv, HandlesOK
<1> DEFINE num == IF op = "delete" THEN count + 1 ELSE 0
           m   == [op |-> op, name |-> n, num |-> num, from |-> c]
<1>1. num \in Numbers /\ (op = "delete" => n \in Names /\ num # 0)
    BY WriterAssumption, <1>t DEF Call, Numbers, Ops
<1>2. m \in Requests
  <2> HIDE DEF num
  <2> QED BY <1>1, CallTyped
<1>3. /\ Queued(m) /\ latest' = (IF op = "delete" THEN [latest EXCEPT ![n] = num] ELSE latest)
      /\ count' = IF op = "delete" THEN num ELSE count
    BY DEF Call, Queued
<1>4. count \in Nat /\ \A x \in Names : latest[x] \in Nat
    BY <1>t, NumbersAreNats
<1>5. op = "delete" => latest[n] <= num
    BY <1>1, <1>4
<1>6. \A x \in Names : latest'[x] <= count'
    BY <1>1, <1>3, <1>4, <1>t
<1>7. m.op = op /\ m.name = n /\ m.num = num /\ m.from = c
    BY Zenon
<1> HIDE DEF num, m
<1>8. \/ op = "delete" /\ latest[n] <= m.num /\ latest' = [latest EXCEPT ![n] = m.num]
      \/ op # "delete" /\ latest' = latest
    BY <1>3, <1>5, <1>7
<1> QED BY <1>2, <1>3, <1>6, <1>7, <1>8

\* A new request is in order behind the others.
LEMMA OrderQueued ==
    ASSUME TypeInv, TypeInv', Sorted(chan, Hand), Bounded, ThreadPlaces, Keeps,
           NEW m \in Requests, Queued(m), \A x \in Names : latest'[x] <= count',
           \/ /\ m.op \in Writes /\ latest[m.name] <= m.num
              /\ latest' = [latest EXCEPT ![m.name] = m.num]
           \/ m.op \notin Writes /\ latest' = latest
    PROVE  Sorted(chan', Hand') /\ Bounded'
<1>q. chan \in Seq(Requests) /\ Len(chan) \in Nat
    BY LenProperties DEF TypeInv, QueueOK
<1>m. /\ m.num \in Nat /\ (m.op \in Writes => m.name \in Names)
      /\ \A j \in 1 .. Len(chan) : chan[j].num \in Nat
                                   /\ (chan[j].op \in Writes => chan[j].name \in Names)
    BY <1>q, RequestNum, ElementOfSeq, NumbersAreNats
<1>l. latest \in [Names -> Numbers] /\ \A x \in Names : latest[x] \in Nat
    BY NumbersAreNats DEF TypeInv, HandlesOK
<1>h. /\ Hand' = Hand
      /\ \A x \in Names : \A k \in Hand[x] : k \in Nat
  <2>1. Hand' = Hand
      BY DEF Keeps, Hand
  <2> QED BY <2>1, HandIs, NumbersAreNats DEF Hands
<1>n. \A x \in Names : /\ latest[x] <= latest'[x] /\ latest'[x] \in Nat
                       /\ m.op \in Writes /\ m.name = x => latest'[x] = m.num
    BY <1>l, <1>m
<1>b. /\ \A x \in Names : \A k \in Hand[x] : k <= latest[x]
      /\ \A j \in 1 .. Len(chan) : chan[j].op \in Writes => chan[j].num <= latest[chan[j].name]
    BY DEF Bounded
<1>1. /\ \A x \in Names : \A k \in Hand[x] : k <= latest'[x]
      /\ \A j \in 1 .. Len(chan) : chan[j].op \in Writes => chan[j].num <= latest'[chan[j].name]
    BY <1>b, <1>n, <1>h, <1>l, <1>m
<1>2. CASE chan' = chan
  <2>1. Sorted(chan', Hand')
      BY <1>2, <1>h
  <2>2. Bounded'
      BY <1>1, <1>2, <1>h DEF Bounded
  <2> QED BY <2>1, <2>2
<1>3. CASE chan' = Append(chan, m)
  <2>1. Sorted(Append(chan, m), Hand)
    <3>1. m.op \in Writes =>
              /\ \A k \in Hand[m.name] : k <= m.num
              /\ \A i \in 1 .. Len(chan) : WritesTo(chan[i], m.name) => chan[i].num <= m.num
        BY <1>1, <1>m, <1>n DEF WritesTo
    <3> QED BY <3>1, <1>q, SortedAppend
  <2>2. /\ Len(chan') = Len(chan) + 1 /\ chan'[Len(chan) + 1] = m
        /\ \A i \in 1 .. Len(chan) : chan'[i] = chan[i]
      BY <1>3, <1>q, AppendProperties
  <2>3. m.op \in Writes => m.num <= latest'[m.name]
      BY <1>m, <1>n
  <2>4. \A j \in 1 .. Len(chan') : chan'[j].op \in Writes => chan'[j].num <= latest'[chan'[j].name]
      BY <1>1, <1>q, <2>2, <2>3
  <2>5. Bounded'
      BY <1>1, <1>h, <2>4 DEF Bounded
  <2> QED BY <1>3, <1>h, <2>1, <2>5
<1> QED BY <1>2, <1>3 DEF Queued

LEMMA StepOrderInv == TypeInv /\ OrderInv /\ [Next]_vars => OrderInv'
<1> SUFFICES ASSUME TypeInv, OrderInv, [Next]_vars PROVE OrderInv'
    OBVIOUS
<1>t. TypeInv' /\ ThreadPlaces /\ HandOrdered /\ Sorted(chan, Hand) /\ Bounded
    BY StepTypeInv DEF OrderInv
<1>p. ThreadPlaces'
    BY <1>t, StepPlaces
<1>q. chan \in Seq(Requests)
    BY DEF TypeInv, QueueOK
<1>h. Hand \in Hands
    BY HandIs
<1>1. CASE Receive
  <2>1. chan # <<>> /\ chan' = Tail(chan) /\ UNCHANGED <<latest, count>>
      BY <1>1 DEF Receive
  <2>2. Evolves(Plus(Hand, Head(chan)), failed, Hand', failed') /\ HandOrdered'
      BY <1>1, <1>t, HandReceives
  <2>3. Sorted(Tail(chan), Plus(Hand, Head(chan)))
      BY <2>1, <1>q, <1>h, <1>t, SortedTail
  <2>4. \A n \in Names : Hand'[n] \subseteq Plus(Hand, Head(chan))[n]
      BY <2>2 DEF Evolves
  <2>5. Tail(chan) \in Seq(Requests)
      BY <2>1, <1>q, HeadTailProperties
  <2>6. Sorted(chan', Hand')
      BY <2>1, <2>3, <2>4, <2>5, SortedShrinks
  <2>7. Bounded'
    <3>l. Len(chan) \in Nat /\ 1 \in 1 .. Len(chan) /\ Head(chan) = chan[1]
        BY <2>1, <1>q, LenProperties, EmptySeq, HeadTailProperties
    <3>1. \A n \in Names : \A k \in Taken(Head(chan), n) : k <= latest[n]
        BY <1>t, <3>l DEF Bounded, Taken, WritesTo
    <3>2. \A n \in Names : \A k \in Hand'[n] : k <= latest[n]
        BY <2>4, <3>1, <1>t DEF Bounded, Plus
    <3>3. \A i \in 1 .. Len(Tail(chan)) : Tail(chan)[i] = chan[i + 1] /\ i + 1 \in 1 .. Len(chan)
        BY <2>1, <3>l, <1>q, HeadTailProperties
    <3> QED BY <2>1, <3>2, <3>3, <1>t DEF Bounded
  <2> QED BY <1>p, <2>2, <2>6, <2>7 DEF OrderInv
<1>2. CASE ProcessEnds
  <2>1. /\ AtRest(worker') /\ chan' = <<>> /\ pending' = Nothing /\ UNCHANGED <<disk, count>>
        /\ latest' = disk
      BY <1>2, RestIsRest DEF ProcessEnds
  <2>2. \A n \in Names : /\ worker'.left[n] = 0 /\ pending'[n] = 0
                         /\ Doing(worker'.msg, n) = 0 /\ disk'[n] = disk[n]
      BY <2>1, NotDoing DEF AtRest
  <2>3. HandOrdered'
      BY <2>2 DEF HandOrdered
  <2>4. Len(chan') = 0
      BY <2>1
  <2>5. Sorted(chan', Hand')
      BY <2>4 DEF Sorted
  <2>6. ASSUME NEW n \in Names
        PROVE  disk[n] <= count /\ \A k \in Hand'[n] : k <= disk[n]
    <3>1. disk[n] \in Hand[n] /\ disk[n] \in Nat /\ count \in Nat /\ latest[n] \in Nat
        BY HandIs, NumbersAreNats DEF TypeInv, HandlesOK
    <3>2. disk[n] <= latest[n] /\ latest[n] <= count
        BY <3>1, <1>t DEF Bounded
    <3>3. Hand'[n] = {0, disk[n], 0, 0, 0}
        BY <2>2, Zenon DEF Hand
    <3> QED BY <3>1, <3>2, <3>3
  <2>7. Bounded'
      BY <2>1, <2>4, <2>6 DEF Bounded
  <2> QED BY <1>p, <2>3, <2>5, <2>7 DEF OrderInv
<1>3. ASSUME Keeps \/ Takes \/ ServeDelete \/ \E n \in Names : WriteOk(n) \/ WriteFails(n),
             UNCHANGED <<latest, count>>, chan' = chan \/ chan' = <<>>
      PROVE  OrderInv'
  <2>1. Evolves(Hand, failed, Hand', failed') /\ HandOrdered'
      BY <1>3, <1>t, HandEvolves
  <2>2. \A n \in Names : Hand'[n] \subseteq Hand[n]
      BY <2>1 DEF Evolves
  <2>3. Sorted(chan', Hand')
    <3>1. Sorted(chan, Hand')
        BY <2>2, <1>q, <1>t, SortedShrinks
    <3>2. CASE chan' = <<>>
      <4>1. Len(chan') = 0
          BY <3>2
      <4> QED BY <4>1 DEF Sorted
    <3> QED BY <3>1, <3>2, <1>3
  <2>4. Bounded'
    <3>1. CASE chan' = chan
        BY <3>1, <2>2, <1>3, <1>t DEF Bounded
    <3>2. CASE chan' = <<>>
      <4>1. Len(chan') = 0
          BY <3>2
      <4> QED BY <4>1, <2>2, <1>3, <1>t DEF Bounded
    <3> QED BY <3>1, <3>2, <1>3
  <2> QED BY <1>p, <2>1, <2>3, <2>4 DEF OrderInv
<1>4. ASSUME Keeps, NEW m \in Requests, Queued(m), \A x \in Names : latest'[x] <= count',
             \/ /\ m.op \in Writes /\ latest[m.name] <= m.num
                /\ latest' = [latest EXCEPT ![m.name] = m.num]
             \/ m.op \notin Writes /\ latest' = latest
      PROVE  OrderInv'
  <2>1. Sorted(chan', Hand') /\ Bounded'
      BY <1>4, <1>t, OrderQueued
  <2>2. HandOrdered'
      BY <1>4, <1>t, HandEvolves
  <2> QED BY <1>p, <2>1, <2>2 DEF OrderInv
<1>b. \A n \in Names : latest[n] <= count
    BY <1>t DEF Bounded
<1>5. ASSUME NEW c \in Clients, NEW n \in Names, Save(c, n) PROVE OrderInv'
  <2>1. Keeps
      BY <1>5 DEF Save, Keeps
  <2> QED BY <1>4, <1>5, <1>b, <2>1, SaveQueues DEF Writes
<1>6. ASSUME NEW c \in Clients, NEW op \in Ops, NEW n \in Names \cup {NoName}, Call(c, op, n)
      PROVE  OrderInv'
  <2>1. Keeps
      BY <1>6 DEF Call, Keeps
  <2> QED BY <1>4, <1>6, <1>b, <2>1, CallQueues DEF Writes, Ops
<1>k. \/ Keeps \/ Takes \/ Receive \/ ServeDelete \/ ProcessEnds
      \/ \E n \in Names : WriteOk(n) \/ WriteFails(n)
    BY <1>t, Kinds
<1>7. \/ Receive \/ ProcessEnds
      \/ \E c \in Clients : \E n \in Names : Save(c, n)
      \/ \E c \in Clients : \E op \in Ops, n \in Names \cup {NoName} : Call(c, op, n)
      \/ UNCHANGED <<latest, count>> /\ (chan' = chan \/ chan' = <<>>)
    BY DEF Next, Thread, ThreadStarts, ThreadFails, TimerFires, ChannelClosed, WriteOk, WriteFails,
           DrainEnds, ServeFlush, ServeRead, ServeDelete, CeilingPasses, DropHandle, Return, vars
<1> QED BY <1>1, <1>2, <1>3, <1>5, <1>6, <1>7, <1>k

LEMMA InitOrderInv == Init => OrderInv
<1> SUFFICES ASSUME Init PROVE OrderInv
    OBVIOUS
<1>1. AtRest(worker) /\ worker.pc = "start" /\ Len(chan) = 0
    BY RestIsRest DEF Init
<1>2. \A n \in Names : /\ disk[n] = 0 /\ pending[n] = 0 /\ worker.left[n] = 0 /\ latest[n] = 0
                       /\ Doing(worker.msg, n) = 0
    BY <1>1, NotDoing DEF Init, AtRest
<1>3. \A n \in Names : Hand[n] = {0, 0, 0, 0, 0}
    BY <1>2, Zenon DEF Hand
<1>4. ThreadPlaces
    BY <1>1, NotDoing DEF Init, AtRest, ThreadPlaces, Running
<1>5. HandOrdered
    BY <1>2 DEF HandOrdered
<1>6. Sorted(chan, Hand)
    BY <1>1 DEF Sorted
<1>7. Bounded
    BY <1>1, <1>2, <1>3 DEF Bounded, Init
<1> QED BY <1>4, <1>5, <1>6, <1>7 DEF OrderInv

\* For any sessions, clients and faults: whatever is buffered, drained, re-saved or
\* deleted in between, no write to the backend replaces the result of a later
\* request by that of an earlier one.
THEOREM BackendNeverGoesBack == Spec => DiskNeverGoesBack
<1>1. TypeInv /\ OrderInv /\ [Next]_vars => [\A n \in Names : disk'[n] >= disk[n]]_vars
  <2> SUFFICES ASSUME TypeInv, OrderInv, [Next]_vars, NEW n \in Names
               PROVE  disk'[n] >= disk[n]
      OBVIOUS
  <2>1. disk[n] \in Nat /\ worker.left[n] \in Nat /\ Doing(worker.msg, n) \in Nat
      BY HandIs, NumbersAreNats
  <2>2. ASSUME NEW m \in Names, WriteOk(m) PROVE disk'[n] >= disk[n]
      BY <2>1, <2>2 DEF WriteOk, OrderInv, HandOrdered, TypeInv, BackendOK
  <2>3. CASE ServeDelete
    <3>1. CASE disk' = [disk EXCEPT ![worker.msg.name] = worker.msg.num] /\ worker.msg.name = n
      <4>1. worker.msg \in Jobs /\ worker.msg.op = "delete"
          BY <2>3 DEF ServeDelete, Drained, TypeInv, ThreadOK, Workers
      <4>2. Doing(worker.msg, n) = worker.msg.num /\ worker.msg.num # 0
          BY <3>1, <4>1, NotDoing DEF Doing, Jobs, Requests, Writes
      <4>3. disk[n] <= Doing(worker.msg, n)
          BY <4>2 DEF OrderInv, HandOrdered
      <4>4. disk'[n] = worker.msg.num
          BY <3>1 DEF TypeInv, BackendOK
      <4> QED BY <2>1, <4>2, <4>3, <4>4
    <3>2. CASE disk'[n] = disk[n]
        BY <3>2, <2>1
    <3> QED BY <2>3, <3>1, <3>2 DEF ServeDelete, TypeInv, BackendOK
  <2>4. CASE UNCHANGED disk
      BY <2>1, <2>4
  <2> QED BY <2>2, <2>3, <2>4
      DEF Next, Thread, ThreadStarts, ThreadFails, Receive, TimerFires, ChannelClosed, WriteFails,
          DrainEnds, ServeFlush, ServeRead, CeilingPasses, DropHandle, ProcessEnds, Return, Save,
          Call, vars
<1> QED BY <1>1, InitTypeInv, StepTypeInv, InitOrderInv, StepOrderInv, PTL
        DEF Spec, DiskNeverGoesBack

----------------------------------------------------------------------------
(* Parked callers.                                                         *)

LEMMA RequestFrom ==
    \A m \in Requests : /\ m.from = NoName \/ m.from \in Clients
                        /\ m.op # "persist" => m.from \in Clients
                        /\ m.op = "persist" => m.from \notin Clients
BY WriterAssumption DEF Requests, Message

LEMMA ParkedTail ==
    ASSUME NEW q \in Seq(Requests), q # <<>>, NEW msg, NEW cl, Parked(q, msg, cl)
    PROVE  /\ Parked(Tail(q), Head(q), cl)
           /\ \A msg2 : msg2.from \notin Clients => Parked(Tail(q), msg2, cl)
<1>1. /\ Len(q) \in Nat /\ 1 \in 1 .. Len(q) /\ Head(q) = q[1] /\ Len(Tail(q)) = Len(q) - 1
    BY LenProperties, EmptySeq, HeadTailProperties
<1>2. \A i \in 1 .. Len(Tail(q)) :
          Tail(q)[i] = q[i + 1] /\ i + 1 \in 1 .. Len(q) /\ i + 1 # 1
    BY <1>1, HeadTailProperties
<1>3. \A i, j \in 1 .. Len(Tail(q)) : i + 1 = j + 1 => i = j
    BY <1>1
<1> DEFINE t == Tail(q)
           h == Head(q)
<1>4. /\ \A j \in 1 .. Len(t) : ParkedFor(t[j], cl)
      /\ \A i, j \in 1 .. Len(t) : t[i].from \in Clients /\ t[i].from = t[j].from => i = j
    BY <1>2, <1>3 DEF Parked
<1>5. ParkedFor(h, cl)
    BY <1>1 DEF Parked
<1>6. h.from \in Clients => \A j \in 1 .. Len(t) : t[j].from # h.from
    BY <1>1, <1>2 DEF Parked
<1> HIDE DEF t, h
<1>7. Parked(t, h, cl)
    BY <1>4, <1>5, <1>6 DEF Parked
<1>8. \A msg2 : msg2.from \notin Clients => Parked(t, msg2, cl)
    BY <1>4 DEF Parked, ParkedFor
<1> QED BY <1>7, <1>8 DEF t, h

LEMMA ParkedRests ==
    ASSUME NEW q, NEW msg, NEW cl, Parked(q, msg, cl), NEW msg2, msg2.from \notin Clients
    PROVE  Parked(q, msg2, cl)
BY DEF Parked, ParkedFor

\* A client that is not parked has no request under way, and a client without one
\* may change.
LEMMA ParkedNot ==
    ASSUME NEW q, NEW msg, NEW cl, NEW c \in Clients, Parked(q, msg, cl), cl[c].st # "parked"
    PROVE  msg.from # c /\ \A j \in 1 .. Len(q) : q[j].from # c
BY DEF Parked, ParkedFor

LEMMA ParkedOthers ==
    ASSUME NEW q, NEW msg, NEW cl, NEW cl2, NEW c, Parked(q, msg, cl),
           msg.from # c, \A j \in 1 .. Len(q) : q[j].from # c,
           \A d \in Clients : d # c => cl2[d] = cl[d]
    PROVE  Parked(q, msg, cl2)
BY DEF Parked, ParkedFor

LEMMA ParkedAppend ==
    ASSUME NEW q \in Seq(Requests), NEW m \in Requests, NEW msg, NEW cl, Parked(q, msg, cl),
           ParkedFor(m, cl),
           m.from \in Clients => msg.from # m.from /\ \A j \in 1 .. Len(q) : q[j].from # m.from
    PROVE  Parked(Append(q, m), msg, cl)
<1> DEFINE a == Append(q, m)
<1>1. /\ Len(q) \in Nat /\ Len(a) = Len(q) + 1 /\ a[Len(q) + 1] = m
      /\ \A i \in 1 .. Len(q) : a[i] = q[i]
    BY LenProperties, AppendProperties
<1>2. \A i \in 1 .. Len(a) : i \in 1 .. Len(q) \/ i = Len(q) + 1
    BY <1>1
<1> HIDE DEF a
<1>3. \A j \in 1 .. Len(a) : ParkedFor(a[j], cl)
    BY <1>1, <1>2 DEF Parked
<1>4. \A i, j \in 1 .. Len(a) : a[i].from \in Clients /\ a[i].from = a[j].from => i = j
    BY <1>1, <1>2 DEF Parked
<1>5. msg.from \in Clients => \A j \in 1 .. Len(a) : a[j].from # msg.from
    BY <1>1, <1>2 DEF Parked
<1> QED BY <1>3, <1>4, <1>5 DEF Parked, a

\* Nothing is queued and nobody served.
LEMMA ParkedNobody ==
    ASSUME NEW msg, NEW cl, msg.from \notin Clients PROVE Parked(<<>>, msg, cl)
BY DEF Parked, ParkedFor

LEMMA RestFrom ==
    /\ Receiving.msg.from \notin Clients
    /\ \A p \in {"start", "gone", "dead"} : [Receiving EXCEPT !.pc = p].msg.from \notin Clients
    /\ Internal("timer").from \notin Clients /\ Internal("exit").from \notin Clients
BY RestIsRest, NotDoing, WriterAssumption DEF AtRest

LEMMA CallParks ==
    ASSUME TypeInv, NEW c \in Clients, NEW op \in Ops, NEW n \in Names \cup {NoName},
           Call(c, op, n)
    PROVE  /\ client[c].st = "idle" /\ client'[c].op = op /\ client'[c].name = n
           /\ client'[c].expect = latest' /\ client'[c].st = IF Running THEN "parked" ELSE "degraded"
           /\ \A d \in Clients : d # c => client'[d] = client[d]
<1> DEFINE st   == IF Running THEN "parked" ELSE "degraded"
           next == IF op = "delete" THEN [latest EXCEPT ![n] = count + 1] ELSE latest
           call == [IdleClient EXCEPT !.st = st, !.op = op, !.name = n, !.expect = next]
<1>1. client[c].st = "idle" /\ latest' = next /\ client' = [client EXCEPT ![c] = call]
    BY DEF Call
<1> HIDE DEF st, next
<1>2. call.op = op /\ call.name = n /\ call.expect = next /\ call.st = st
    BY IdleTyped DEF Calls
<1> HIDE DEF call
<1>3. client \in [Clients -> Calls]
    BY DEF TypeInv, HandlesOK
<1> QED BY <1>1, <1>2, <1>3 DEF st

\* An answer changes the served client only, and not what it asked for.
LEMMA AnswerShape ==
    ASSUME TypeInv, NEW ok, NEW got, NEW excused, Answer(ok, got, excused)
    PROVE  /\ \A d \in Clients : d # worker.msg.from => client'[d] = client[d]
           /\ \A d \in Clients : /\ client'[d].op = client[d].op
                                 /\ client'[d].name = client[d].name
                                 /\ client'[d].expect = client[d].expect
           /\ worker.msg.from \in Clients =>
                 LET r == client'[worker.msg.from]
                 IN  r.st = "answered" /\ r.ok = ok /\ r.got = got /\ r.excused = excused
<1> DEFINE c == worker.msg.from
<1>0. client \in [Clients -> Calls]
    BY DEF TypeInv, HandlesOK
<1>1. CASE c \notin Clients
    BY <1>0, <1>1 DEF Answer
<1>2. CASE c \in Clients
  <2>1. PICK r \in Calls : r = client[c]
      BY <1>0, <1>2
  <2> DEFINE a == [r EXCEPT !.st = "answered", !.ok = ok, !.got = got, !.excused = excused]
  <2>2. client' = [client EXCEPT ![c] = a]
      BY <2>1 DEF Answer
  <2>3. /\ a.op = r.op /\ a.name = r.name /\ a.expect = r.expect
        /\ a.st = "answered" /\ a.ok = ok /\ a.got = got /\ a.excused = excused
      BY DEF Calls
  <2> HIDE DEF a
  <2> QED BY <1>0, <1>2, <2>1, <2>2, <2>3
<1> QED BY <1>1, <1>2

LEMMA ServesAnswer ==
    ASSUME ServeFlush \/ ServeRead \/ ServeDelete
    PROVE  /\ worker' = Receiving /\ UNCHANGED chan
           /\ \E ok, got, excused : Answer(ok, got, excused)
BY DEF ServeFlush, ServeRead, ServeDelete

LEMMA StepParked == TypeInv /\ OrderInv /\ ParkedOnce /\ [Next]_vars => ParkedOnce'
<1> SUFFICES ASSUME TypeInv, OrderInv, ParkedOnce, [Next]_vars PROVE Parked(chan', worker'.msg, client')
    BY DEF ParkedOnce
<1>p. Parked(chan, worker.msg, client)
    BY DEF ParkedOnce
<1>q. chan \in Seq(Requests)
    BY DEF TypeInv, QueueOK
<1>o. ThreadPlaces
    BY DEF OrderInv
<1>b. \A n \in Names : latest[n] <= count
    BY DEF OrderInv, Bounded
<1>1. ASSUME NEW c \in Clients, NEW n \in Names, Save(c, n)
      PROVE  Parked(chan', worker'.msg, client')
  <2>1. PICK m \in Requests : Queued(m) /\ m.op = "persist"
      BY <1>1, <1>b, SaveQueues
  <2>2. m.from \notin Clients
      BY <2>1, RequestFrom
  <2>3. UNCHANGED <<worker, client>>
      BY <1>1 DEF Save
  <2> QED BY <2>1, <2>2, <2>3, <1>p, <1>q, ParkedAppend DEF Queued, ParkedFor
<1>2. ASSUME NEW c \in Clients, NEW op \in Ops, NEW n \in Names \cup {NoName}, Call(c, op, n)
      PROVE  Parked(chan', worker'.msg, client')
  <2>1. PICK m \in Requests : Queued(m) /\ m.op = op /\ m.name = n /\ m.from = c
      BY <1>2, <1>b, CallQueues
  <2>2. worker.msg.from # c /\ \A j \in 1 .. Len(chan) : chan[j].from # c
    <3>1. client[c].st # "parked"
        BY <1>2, CallParks
    <3> QED BY <1>p, <3>1, ParkedNot
  <2>3. Parked(chan, worker.msg, client')
    <3>1. \A d \in Clients : d # c => client'[d] = client[d]
        BY <1>2, CallParks
    <3> QED BY <1>p, <2>2, <3>1, ParkedOthers, Zenon
  <2>4. UNCHANGED worker
      BY <1>2 DEF Call
  <2>5. CASE Running
    <3>1. ParkedFor(m, client')
        BY <1>2, <2>1, <2>5, CallParks DEF ParkedFor
    <3> QED BY <2>1, <2>2, <2>3, <2>4, <2>5, <3>1, <1>q, ParkedAppend DEF Queued
  <2>6. CASE ~Running
      BY <2>1, <2>3, <2>4, <2>6 DEF Queued
  <2> QED BY <2>5, <2>6
<1>3. ASSUME NEW c \in Clients, Return(c) PROVE Parked(chan', worker'.msg, client')
  <2>1. /\ client[c].st # "parked" /\ UNCHANGED <<chan, worker>>
        /\ \A d \in Clients : d # c => client'[d] = client[d]
      BY <1>3 DEF Return, TypeInv, HandlesOK
  <2>2. worker.msg.from # c /\ \A j \in 1 .. Len(chan) : chan[j].from # c
      BY <2>1, <1>p, ParkedNot
  <2>3. Parked(chan, worker.msg, client')
      BY <2>1, <2>2, <1>p, ParkedOthers, Zenon
  <2> QED BY <2>1, <2>3
<1>4. CASE Receive
  <2>1. /\ chan # <<>> /\ chan' = Tail(chan) /\ UNCHANGED client
        /\ worker.msg = Internal("timer")
        /\ worker'.msg \in {Head(chan), Internal("timer"), worker.msg}
      BY <1>4, <1>o DEF Receive, Buffer, StartDrain, ThreadPlaces
  <2> QED BY <2>1, <1>p, <1>q, RestFrom, ParkedTail
<1>5. CASE ServeFlush \/ ServeRead \/ ServeDelete
  <2>1. /\ worker' = Receiving /\ UNCHANGED chan
        /\ \A d \in Clients : d # worker.msg.from => client'[d] = client[d]
      BY <1>5, ServesAnswer, AnswerShape
  <2>2. Parked(chan, Receiving.msg, client)
      BY <1>p, RestFrom, ParkedRests
  <2>3. CASE worker.msg.from \in Clients
    <3>1. \A j \in 1 .. Len(chan) : chan[j].from # worker.msg.from
        BY <2>3, <1>p DEF Parked
    <3>2. Receiving.msg.from # worker.msg.from
        BY <2>3, RestFrom
    <3> QED BY <2>1, <2>2, <3>1, <3>2, ParkedOthers
  <2>4. CASE worker.msg.from \notin Clients
    <3>1. \A d \in Clients : client'[d] = client[d]
        BY <2>1, <2>4
    <3> QED BY <2>1, <2>2, <3>1 DEF Parked, ParkedFor
  <2> QED BY <2>3, <2>4
<1>6. CASE ThreadFails \/ ProcessEnds
  <2>1. chan' = <<>> /\ worker'.msg.from \notin Clients
      BY <1>6, RestFrom DEF ThreadFails, ProcessEnds
  <2>2. Parked(<<>>, worker'.msg, client')
      BY <2>1, ParkedNobody
  <2> QED BY <2>1, <2>2
<1>7. CASE TimerFires \/ ChannelClosed \/ ThreadStarts \/ DrainEnds
  <2>1. UNCHANGED <<chan, client>>
      BY <1>7 DEF TimerFires, ChannelClosed, ThreadStarts, DrainEnds
  <2>2. worker'.msg.from \notin Clients
    <3>1. CASE TimerFires \/ ChannelClosed
      <4>1. worker'.msg \in {Internal("timer"), Internal("exit")}
          BY <3>1 DEF TimerFires, ChannelClosed, StartDrain
      <4> QED BY <4>1, RestFrom
    <3>2. CASE ThreadStarts \/ DrainEnds
        BY <3>2, RestFrom DEF ThreadStarts, DrainEnds
    <3> QED BY <1>7, <3>1, <3>2
  <2>3. Parked(chan, worker'.msg, client)
      BY <2>2, <1>p, ParkedRests
  <2> QED BY <2>1, <2>3
<1>8. ASSUME NEW n \in Names, WriteOk(n) \/ WriteFails(n)
      PROVE  Parked(chan', worker'.msg, client')
  <2>1. UNCHANGED <<chan, client>> /\ worker'.msg = worker.msg
      BY <1>8 DEF WriteOk, WriteFails, TypeInv, ThreadOK, Workers
  <2> QED BY <2>1, <1>p
<1>9. CASE UNCHANGED <<chan, worker, client>>
    BY <1>9, <1>p
<1> QED BY <1>1, <1>2, <1>3, <1>4, <1>5, <1>6, <1>7, <1>8, <1>9
    DEF Next, Thread, CeilingPasses, DropHandle, vars

LEMMA StepLoadsNamed == TypeInv /\ LoadsNamed /\ [Next]_vars => LoadsNamed'
<1> SUFFICES ASSUME TypeInv, LoadsNamed, [Next]_vars PROVE LoadsNamed'
    OBVIOUS
<1>c. client \in [Clients -> Calls]
    BY DEF TypeInv, HandlesOK
<1> USE DEF LoadsNamed
<1>1. ASSUME NEW c \in Clients, NEW op \in Ops, NEW n \in Names \cup {NoName}, Call(c, op, n)
      PROVE  LoadsNamed'
  <2>1. op = "load" => n \in Names
      BY <1>1 DEF Call
  <2> QED BY <1>1, <2>1, CallParks
<1>2. ASSUME NEW c \in Clients, Return(c) PROVE LoadsNamed'
    BY <1>2, <1>c DEF Return, IdleClient
<1>3. CASE ServeFlush \/ ServeRead \/ ServeDelete
    BY <1>3, ServesAnswer, AnswerShape
<1>4. CASE ThreadFails
  <2>1. \A c \in Clients : client'[c].op = client[c].op /\ client'[c].name = client[c].name
      BY <1>4, <1>c DEF ThreadFails, Calls
  <2> QED BY <2>1
<1>5. CASE ProcessEnds
    BY <1>5 DEF ProcessEnds, IdleClient
<1>6. CASE UNCHANGED client
    BY <1>6
<1> QED BY <1>1, <1>2, <1>3, <1>4, <1>5, <1>6
    DEF Next, Thread, ThreadStarts, Receive, TimerFires, ChannelClosed, WriteOk, WriteFails,
        DrainEnds, CeilingPasses, DropHandle, Save, vars

LEMMA StepFailuresKnown == TypeInv /\ OrderInv /\ FailuresKnown /\ [Next]_vars => FailuresKnown'
<1> SUFFICES ASSUME TypeInv, OrderInv, FailuresKnown, [Next]_vars PROVE FailuresKnown'
    OBVIOUS
<1> USE DEF FailuresKnown
<1>w. worker \in Workers
    BY DEF TypeInv, ThreadOK
<1>d. ASSUME NEW msg, NEW snapshots, StartDrain(msg, snapshots), UNCHANGED failed
      PROVE  FailuresKnown'
  <2>1. worker'.msg = msg /\ worker'.known = IF msg.op = "flush" THEN failed ELSE {}
      BY <1>d DEF StartDrain
  <2> QED BY <1>d, <2>1
<1>1. CASE Receive
    BY <1>1, <1>d DEF Receive, Buffer
<1>2. CASE TimerFires \/ ChannelClosed
    BY <1>2, <1>d DEF TimerFires, ChannelClosed
<1>3. ASSUME NEW n \in Names, WriteOk(n) PROVE FailuresKnown'
  <2>1. /\ worker'.msg = worker.msg /\ worker'.err = worker.err /\ worker'.known = worker.known
        /\ failed' \subseteq failed
      BY <1>3, <1>w DEF WriteOk, Workers
  <2> QED BY <2>1
<1>4. ASSUME NEW n \in Names, WriteFails(n) PROVE FailuresKnown'
  <2>1. worker'.err
      BY <1>4, <1>w DEF WriteFails, Workers
  <2> QED BY <2>1
<1>5. CASE ThreadStarts \/ ThreadFails \/ DrainEnds \/ ServeFlush \/ ServeRead \/ ServeDelete
           \/ ProcessEnds
  <2>1. AtRest(worker')
      BY <1>5, RestIsRest DEF ThreadStarts, ThreadFails, DrainEnds, ServeFlush, ServeRead,
                              ServeDelete, ProcessEnds
  <2>2. worker'.msg.op = "timer"
      BY <2>1, NotDoing DEF AtRest
  <2> QED BY <2>2
<1>6. CASE UNCHANGED <<worker, failed>>
    BY <1>6
<1> QED BY <1>1, <1>2, <1>3, <1>4, <1>5, <1>6
    DEF Next, Thread, CeilingPasses, DropHandle, Return, Save, Call, vars

\* While a client is parked, what it expects stays.
LEMMA ExpectKept ==
    ASSUME TypeInv, [Next]_vars, ~ProcessEnds
    PROVE  \A d \in Clients : client[d].st = "parked" => client'[d].expect = client[d].expect
<1>c. client \in [Clients -> Calls]
    BY DEF TypeInv, HandlesOK
<1> DEFINE Kept == \A d \in Clients : client[d].st = "parked" =>
                                          client'[d].expect = client[d].expect
<1>1. ASSUME NEW c \in Clients, NEW op \in Ops, NEW n \in Names \cup {NoName}, Call(c, op, n)
      PROVE  Kept
  <2>1. client[c].st = "idle" /\ \A d \in Clients : d # c => client'[d] = client[d]
      BY <1>1, CallParks
  <2> QED BY <2>1
<1>2. ASSUME NEW c \in Clients, Return(c) PROVE Kept
  <2>1. client[c].st # "parked" /\ \A d \in Clients : d # c => client'[d] = client[d]
      BY <1>2, <1>c DEF Return
  <2> QED BY <2>1
<1>3. CASE ServeFlush \/ ServeRead \/ ServeDelete
    BY <1>3, ServesAnswer, AnswerShape
<1>4. CASE ThreadFails
    BY <1>4, <1>c DEF ThreadFails, Calls
<1>5. CASE UNCHANGED client
    BY <1>5
<1> QED BY <1>1, <1>2, <1>3, <1>4, <1>5
    DEF Next, Thread, ThreadStarts, Receive, TimerFires, ChannelClosed, WriteOk, WriteFails,
        DrainEnds, CeilingPasses, DropHandle, Save, vars

\* The head of the channel is a read: what it covers, it still covers when served.
LEMMA CoversFirst ==
    ASSUME NEW e, NEW q, NEW q2, NEW hand, NEW lost, NEW m, m.op \notin Writes,
           Covers(e, 1, q, hand, lost)
    PROVE  Covers(e, 1, q2, Plus(hand, m), lost)
<1>1. \A n \in Names : Plus(hand, m)[n] = hand[n]
    BY DEF Plus, Taken, WritesTo
<1>2. 1 .. 1 - 1 = {}
    OBVIOUS
<1> QED BY <1>1, <1>2 DEF Covers

\* A queued request is the last one of its session.
LEMMA CoversNew ==
    ASSUME NEW e \in [Names -> Numbers], NEW q \in Seq(Requests), NEW m \in Requests,
           NEW hand \in Hands, NEW lost, Covers(e, Len(q) + 1, q, hand, lost),
           NEW e2, \/ m.op \in Writes /\ e[m.name] <= m.num /\ e2 = [e EXCEPT ![m.name] = m.num]
                   \/ m.op \notin Writes /\ e2 = e
    PROVE  Covers(e2, Len(q) + 2, Append(q, m), hand, lost)
<1> DEFINE a == Append(q, m)
<1>l. /\ Len(q) \in Nat /\ (Len(q) + 1) - 1 = Len(q) /\ (Len(q) + 2) - 1 = Len(q) + 1
      /\ a[Len(q) + 1] = m /\ \A i \in 1 .. Len(q) : a[i] = q[i] /\ i \in 1 .. Len(q) + 1
    BY LenProperties, AppendProperties
<1>i. \A i \in 1 .. Len(q) + 1 : i \in 1 .. Len(q) \/ i = Len(q) + 1
    BY <1>l
<1>j. Len(q) + 1 \in 1 .. Len(q) + 1
    BY <1>l
<1>m. m.num \in Nat /\ (m.op \in Writes => m.name \in Names)
    BY RequestNum, NumbersAreNats
<1>q. \A i \in 1 .. Len(q) : q[i].num \in Nat
    BY RequestNum, NumbersAreNats, ElementOfSeq
<1>e. \A n \in Names : e[n] \in Nat /\ \A k \in hand[n] : k \in Nat
    BY NumbersAreNats DEF Hands
<1> HIDE DEF a
<1> SUFFICES ASSUME NEW n \in Names
             PROVE  /\ \A k \in hand[n] : k <= e2[n]
                    /\ \A i \in 1 .. Len(q) + 1 : WritesTo(a[i], n) => a[i].num <= e2[n]
                    /\ \/ e2[n] \in hand[n] \/ <<n, e2[n]>> \in lost
                       \/ \E i \in 1 .. Len(q) + 1 : WritesTo(a[i], n) /\ a[i].num = e2[n]
    BY <1>l DEF Covers, a
<1>1. /\ \A k \in hand[n] : k <= e[n]
      /\ \A i \in 1 .. Len(q) : WritesTo(q[i], n) => q[i].num <= e[n]
      /\ \/ e[n] \in hand[n] \/ <<n, e[n]>> \in lost
         \/ \E i \in 1 .. Len(q) : WritesTo(q[i], n) /\ q[i].num = e[n]
    BY <1>l DEF Covers
<1>2. CASE WritesTo(m, n)
  <2>1. e2[n] = m.num /\ e[n] <= m.num
      BY <1>2 DEF WritesTo
  <2>2. \A k \in hand[n] : k <= m.num
      BY <1>1, <1>e, <1>m, <2>1
  <2>3. \A i \in 1 .. Len(q) : WritesTo(q[i], n) => q[i].num <= m.num
      BY <1>1, <1>e, <1>m, <1>q, <2>1
  <2> QED BY <1>2, <1>i, <1>j, <1>l, <1>m, <2>1, <2>2, <2>3
<1>3. CASE ~WritesTo(m, n)
  <2>1. e2[n] = e[n]
      BY <1>3, <1>m DEF WritesTo
  <2> QED BY <1>1, <1>3, <1>i, <1>l, <2>1
<1> QED BY <1>2, <1>3

LEMMA StepCovered == TypeInv /\ OrderInv /\ CallInv /\ [Next]_vars => CallsCovered'
<1> SUFFICES ASSUME TypeInv, OrderInv, CallInv, [Next]_vars PROVE CallsCovered'
    OBVIOUS
<1>t. /\ TypeInv' /\ ThreadPlaces /\ HandOrdered /\ Sorted(chan, Hand) /\ Bounded
      /\ Parked(chan, worker.msg, client) /\ CallsCovered
    BY StepTypeInv DEF OrderInv, CallInv, ParkedOnce
<1>q. /\ chan \in Seq(Requests) /\ Len(chan) \in Nat /\ Hand \in Hands
      /\ \A j \in 1 .. Len(chan) : chan[j] \in Requests
    BY HandIs, LenProperties, ElementOfSeq DEF TypeInv, QueueOK
<1>h. /\ latest \in [Names -> Numbers] /\ client \in [Clients -> Calls]
      /\ \A c \in Clients : client[c].expect \in [Names -> Numbers]
    BY DEF TypeInv, HandlesOK, Calls
<1>w. worker.msg \in Jobs /\ (worker.msg.op \in Reads => worker.msg \in Requests)
    BY NotDoing DEF TypeInv, ThreadOK, Workers, Jobs, Reads
\* The callers of the reads under way.
<1>f. /\ \A j \in 1 .. Len(chan) : chan[j].op \in Reads =>
             chan[j].from \in Clients /\ client[chan[j].from].st = "parked"
      /\ worker.msg.op \in Reads =>
             worker.msg.from \in Clients /\ client[worker.msg.from].st = "parked"
    BY <1>t, <1>q, <1>w, RequestFrom DEF Parked, ParkedFor, Reads
<1>x. ~ProcessEnds =>
        /\ \A j \in 1 .. Len(chan) : chan[j].op \in Reads =>
               client'[chan[j].from].expect = client[chan[j].from].expect
        /\ worker.msg.op \in Reads =>
               client'[worker.msg.from].expect = client[worker.msg.from].expect
    BY <1>f, ExpectKept
\* The channel stays and the hand evolves.
<1>e. ASSUME Keeps \/ Takes \/ ServeDelete \/ \E n \in Names : WriteOk(n) \/ WriteFails(n),
             UNCHANGED <<chan, latest>>, Running' => Running, ~ProcessEnds,
             worker'.msg = worker.msg \/ worker'.msg.op \notin Reads
      PROVE  CallsCovered'
  <2>1. Evolves(Hand, failed, Hand', failed')
      BY <1>e, <1>t, HandEvolves
  <2>2. ASSUME NEW j \in 1 .. Len(chan), chan[j].op \in Reads
        PROVE  Covers(client'[chan[j].from].expect, j, chan, Hand', failed')
    <3>1. Covers(client[chan[j].from].expect, j, chan, Hand, failed)
        BY <2>2, <1>t DEF CallsCovered
    <3>2. PICK e \in [Names -> Numbers] : e = client[chan[j].from].expect
        BY <2>2, <1>f, <1>h
    <3>3. Covers(e, j, chan, Hand', failed')
        BY <2>1, <3>1, <3>2, <1>q, CoversEvolve
    <3> QED BY <2>2, <3>2, <3>3, <1>x, <1>e
  <2>3. ASSUME worker.msg.op \in Reads
        PROVE  Covers(client'[worker.msg.from].expect, 1, chan, Hand', failed')
    <3>1. Covers(client[worker.msg.from].expect, 1, chan, Hand, failed)
        BY <2>3, <1>t DEF CallsCovered
    <3>2. PICK e \in [Names -> Numbers] : e = client[worker.msg.from].expect
        BY <2>3, <1>f, <1>h
    <3>3. Covers(e, 1, chan, Hand', failed')
        BY <2>1, <3>1, <3>2, <1>q, CoversEvolve
    <3> QED BY <2>3, <3>2, <3>3, <1>x, <1>e
  <2>4. Running => Covers(latest, Len(chan) + 1, chan, Hand', failed')
      BY <2>1, <1>t, <1>q, <1>h, CoversEvolve DEF CallsCovered
  <2> QED BY <1>e, <2>2, <2>3, <2>4 DEF CallsCovered
\* Nothing is queued or served any more.
<1>n. ASSUME chan' = <<>>, worker'.msg.op \notin Reads, ~Running' PROVE CallsCovered'
  <2>1. Len(chan') = 0
      BY <1>n
  <2> QED BY <1>n, <2>1 DEF CallsCovered
<1>1. CASE Receive
  <2> DEFINE m == Head(chan)
             plus == Plus(Hand, m)
  <2>1. /\ chan # <<>> /\ chan' = Tail(chan) /\ UNCHANGED <<latest, failed, client>>
        /\ m = chan[1] /\ 1 \in 1 .. Len(chan) /\ Len(Tail(chan)) = Len(chan) - 1
        /\ \A i \in 1 .. Len(Tail(chan)) : Tail(chan)[i] = chan[i + 1]
      BY <1>1, <1>q, HeadTailProperties, LenProperties, EmptySeq DEF Receive
  <2>2. Evolves(plus, failed, Hand', failed')
      BY <1>1, <1>t, HandReceives
  <2>p. plus \in Hands
    <3>1. \A n \in Names : Taken(m, n) \subseteq Numbers
        BY <2>1, <1>q, RequestNum DEF Taken
    <3> QED BY <3>1, <1>q DEF Plus, Hands
  <2> HIDE DEF m, plus
  <2>3. ASSUME NEW e \in [Names -> Numbers], NEW j \in 2 .. Len(chan) + 1,
               Covers(e, j, chan, Hand, failed)
        PROVE  Covers(e, j - 1, chan', Hand', failed')
    <3>1. Covers(e, j - 1, Tail(chan), plus, failed)
        BY <2>1, <2>3, <1>q, CoversTail DEF plus, m
    <3>2. PICK i : i = j - 1
        OBVIOUS
    <3> QED BY <2>1, <2>2, <2>p, <3>1, <3>2, CoversEvolve
  <2>4. ASSUME NEW j \in 1 .. Len(chan'), chan'[j].op \in Reads
        PROVE  Covers(client'[chan'[j].from].expect, j, chan', Hand', failed')
    <3>1. chan'[j] = chan[j + 1] /\ j + 1 \in 2 .. Len(chan) + 1 /\ j + 1 \in 1 .. Len(chan)
          /\ (j + 1) - 1 = j
        BY <2>1, <2>4, <1>q
    <3>2. Covers(client[chan[j + 1].from].expect, j + 1, chan, Hand, failed)
        BY <2>4, <3>1, <1>t DEF CallsCovered
    <3>3. client[chan[j + 1].from].expect \in [Names -> Numbers]
        BY <2>4, <3>1, <1>f, <1>h
    <3>4. Covers(client[chan[j + 1].from].expect, j, chan', Hand', failed')
        BY <2>3, <3>1, <3>2, <3>3
    <3> QED BY <2>1, <3>1, <3>4
  <2>5. Covers(latest', Len(chan') + 1, chan', Hand', failed')
    <3>1. /\ Len(chan) + 1 \in 2 .. Len(chan) + 1 /\ (Len(chan) + 1) - 1 = Len(chan)
          /\ Len(chan') + 1 = Len(chan)
        BY <2>1, <1>q
    <3>2. Covers(latest, Len(chan) + 1, chan, Hand, failed)
        BY <1>1, <1>t DEF Receive, Running, CallsCovered
    <3>3. Covers(latest, Len(chan), chan', Hand', failed')
        BY <2>3, <3>1, <3>2, <1>h
    <3> QED BY <2>1, <3>1, <3>3
  <2>6. ASSUME worker'.msg.op \in Reads
        PROVE  Covers(client'[worker'.msg.from].expect, 1, chan', Hand', failed')
    <3>1. worker'.msg = m /\ m.op \notin Writes
      <4>1. worker.msg.op = "timer"
          BY <1>1, <1>t, NotDoing DEF Receive, ThreadPlaces
      <4> QED BY <1>1, <2>6, <4>1, NotDoing DEF Receive, Buffer, StartDrain, m, Reads, Writes
    <3>2. Covers(client[m.from].expect, 1, chan, Hand, failed)
        BY <2>1, <2>6, <3>1, <1>t DEF CallsCovered
    <3>3. client[m.from].expect \in [Names -> Numbers]
        BY <2>1, <2>6, <3>1, <1>f, <1>h
    <3>4. Covers(client[m.from].expect, 1, chan', plus, failed)
        BY <3>1, <3>2, CoversFirst DEF plus
    <3>5. Covers(client[m.from].expect, 1, chan', Hand', failed')
        BY <2>2, <2>p, <3>3, <3>4, CoversEvolve
    <3> QED BY <2>1, <3>1, <3>5
  <2> QED BY <2>4, <2>5, <2>6 DEF CallsCovered
<1>2. CASE ThreadFails \/ ProcessEnds
  <2>1. /\ chan' = <<>> /\ AtRest(worker') /\ worker'.pc \in {"gone", "dead"}
      BY <1>2, RestIsRest DEF ThreadFails, ProcessEnds
  <2>2. worker'.msg.op \notin Reads
      BY <2>1, NotDoing DEF AtRest, Reads
  <2>3. ~Running'
      BY <2>1 DEF Running
  <2> QED BY <2>1, <2>2, <2>3, <1>n
\* A request is queued.
<1>3. ASSUME Keeps, UNCHANGED worker, NEW m \in Requests, Queued(m), ~ProcessEnds,
             \/ /\ m.op \in Writes /\ latest[m.name] <= m.num
                /\ latest' = [latest EXCEPT ![m.name] = m.num]
             \/ m.op \notin Writes /\ latest' = latest,
             m.op \in Reads /\ Running => client'[m.from].expect = latest
      PROVE  CallsCovered'
  <2>h. Hand' = Hand /\ failed' = failed /\ Running' = Running /\ worker'.msg = worker.msg
      BY <1>3 DEF Keeps, Hand, Running
  <2>1. CASE ~Running
    <3>1. chan = <<>> /\ chan' = <<>>
        BY <2>1, <1>3, <1>t DEF ThreadPlaces, Queued
    <3>2. worker.msg.op \notin Reads
        BY <2>1, <1>t, NotDoing DEF ThreadPlaces, Running, Reads
    <3> QED BY <2>1, <2>h, <3>1, <3>2, <1>n
  <2>2. CASE Running
    <3>1. /\ chan' = Append(chan, m) /\ Len(chan') = Len(chan) + 1 /\ chan'[Len(chan) + 1] = m
          /\ \A i \in 1 .. Len(chan) : chan'[i] = chan[i]
        BY <2>2, <1>3, <1>q, AppendProperties DEF Queued
    <3>2. Covers(latest, Len(chan) + 1, chan, Hand, failed)
        BY <2>2, <1>t DEF CallsCovered
    <3>3. ASSUME NEW e, NEW j \in 1 .. Len(chan) + 1, Covers(e, j, chan, Hand, failed)
          PROVE  Covers(e, j, chan', Hand', failed')
        BY <2>h, <3>1, <3>3, <1>q, CoversAppend
    <3>4. ASSUME NEW j \in 1 .. Len(chan'), chan'[j].op \in Reads
          PROVE  Covers(client'[chan'[j].from].expect, j, chan', Hand', failed')
      <4>1. CASE j \in 1 .. Len(chan)
        <5>1. Covers(client[chan[j].from].expect, j, chan, Hand, failed) /\ j \in 1 .. Len(chan) + 1
            BY <3>1, <3>4, <4>1, <1>t, <1>q DEF CallsCovered
        <5>2. Covers(client[chan[j].from].expect, j, chan', Hand', failed')
            BY <5>1, <3>3
        <5> QED BY <5>2, <3>1, <3>4, <4>1, <1>3, <1>x
      <4>2. CASE j = Len(chan) + 1
        <5>1. Covers(latest, j, chan', Hand', failed')
            BY <3>2, <3>3, <4>2, <1>q
        <5> QED BY <5>1, <2>2, <3>1, <3>4, <4>2, <1>3
      <4> QED BY <3>1, <4>1, <4>2, <1>q
    <3>5. ASSUME worker.msg.op \in Reads
          PROVE  Covers(client'[worker.msg.from].expect, 1, chan', Hand', failed')
      <4>1. Covers(client[worker.msg.from].expect, 1, chan, Hand, failed) /\ 1 \in 1 .. Len(chan) + 1
          BY <3>5, <1>t, <1>q DEF CallsCovered
      <4>2. Covers(client[worker.msg.from].expect, 1, chan', Hand', failed')
          BY <4>1, <3>3
      <4> QED BY <4>2, <3>5, <1>3, <1>x
    <3>6. Covers(latest', Len(chan') + 1, chan', Hand', failed')
      <4>1. Covers(latest', Len(chan) + 2, Append(chan, m), Hand, failed)
          BY <3>2, <1>3, <1>h, <1>q, CoversNew
      <4>2. Len(chan') + 1 = Len(chan) + 2
          BY <3>1, <1>q
      <4> QED BY <4>1, <4>2, <3>1, <2>h
    <3> QED BY <2>h, <3>4, <3>5, <3>6 DEF CallsCovered
  <2> QED BY <2>1, <2>2
<1>b. \A n \in Names : latest[n] <= count
    BY <1>t DEF Bounded
<1>4. ASSUME NEW c \in Clients, NEW n \in Names, Save(c, n) PROVE CallsCovered'
  <2>1. Keeps /\ UNCHANGED worker
      BY <1>4 DEF Save, Keeps
  <2>2. ~ProcessEnds
      BY <1>4, RestIsRest DEF Save, ProcessEnds, Alive
  <2> QED BY <1>3, <1>4, <1>b, <2>1, <2>2, SaveQueues DEF Writes, Reads
<1>5. ASSUME NEW c \in Clients, NEW op \in Ops, NEW n \in Names \cup {NoName}, Call(c, op, n)
      PROVE  CallsCovered'
  <2>1. Keeps /\ UNCHANGED worker
      BY <1>5 DEF Call, Keeps
  <2>2. ~ProcessEnds
      BY <1>5, RestIsRest DEF Call, ProcessEnds, Alive
  <2>3. client'[c].expect = latest'
      BY <1>5, CallParks
  <2>4. PICK m \in Requests :
            /\ Queued(m) /\ m.op = op /\ m.name = n /\ m.from = c
            /\ \/ /\ op = "delete" /\ latest[n] <= m.num
                  /\ latest' = [latest EXCEPT ![n] = m.num]
               \/ op # "delete" /\ latest' = latest
      BY <1>5, <1>b, CallQueues
  <2>5. op \in Writes <=> op = "delete"
      BY DEF Writes, Ops
  <2> QED BY <1>3, <2>1, <2>2, <2>3, <2>4, <2>5 DEF Reads
<1>6. CASE DrainEnds \/ ServeFlush \/ ServeRead \/ ServeDelete \/ ThreadStarts \/ TimerFires
           \/ ChannelClosed
  <2>1. UNCHANGED <<chan, latest>> /\ Running
      BY <1>6 DEF DrainEnds, ServeFlush, ServeRead, ServeDelete, ThreadStarts, TimerFires,
                  ChannelClosed, Drained, Running
  <2>2. worker'.msg.op \notin Reads
    <3>1. CASE TimerFires \/ ChannelClosed
        BY <3>1, NotDoing DEF TimerFires, ChannelClosed, StartDrain, Reads
    <3>2. CASE DrainEnds \/ ServeFlush \/ ServeRead \/ ServeDelete \/ ThreadStarts
      <4>1. AtRest(worker')
          BY <3>2, RestIsRest DEF DrainEnds, ServeFlush, ServeRead, ServeDelete, ThreadStarts
      <4> QED BY <4>1, NotDoing DEF AtRest, Reads
    <3> QED BY <1>6, <3>1, <3>2
  <2> QED BY <2>1, <2>2, <1>1, <1>2, <1>e, <1>t, Kinds
<1>7. ASSUME NEW n \in Names, WriteOk(n) \/ WriteFails(n) PROVE CallsCovered'
  <2>1. UNCHANGED <<chan, latest>> /\ Running
      BY <1>7 DEF WriteOk, WriteFails, Running
  <2>2. worker'.msg = worker.msg
      BY <1>7 DEF WriteOk, WriteFails, TypeInv, ThreadOK, Workers
  <2> QED BY <1>7, <2>1, <2>2, <1>2, <1>e
<1>8. CASE UNCHANGED <<worker, chan, latest, disk, failed, pending>>
  <2>1. Keeps /\ (Running' => Running)
      BY <1>8 DEF Keeps, Running
  <2> QED BY <1>8, <2>1, <1>2, <1>e
<1> QED BY <1>1, <1>2, <1>4, <1>5, <1>6, <1>7, <1>8
    DEF Next, Thread, CeilingPasses, DropHandle, Return, vars

LEMMA StepCallInv == TypeInv /\ OrderInv /\ CallInv /\ [Next]_vars => CallInv'
<1> SUFFICES ASSUME TypeInv, OrderInv, CallInv, [Next]_vars PROVE CallInv'
    OBVIOUS
<1> QED BY StepParked, StepLoadsNamed, StepCovered, StepFailuresKnown DEF CallInv

LEMMA InitCallInv == Init => CallInv
<1> SUFFICES ASSUME Init PROVE CallInv
    OBVIOUS
<1>1. AtRest(worker) /\ Len(chan) = 0 /\ chan = <<>> /\ worker.msg = Internal("timer")
    BY RestIsRest DEF Init, AtRest
<1>2. ParkedOnce
    BY <1>1, RestFrom, ParkedNobody DEF ParkedOnce
<1>3. LoadsNamed
    BY DEF Init, LoadsNamed, IdleClient
<1>4. FailuresKnown
    BY <1>1, NotDoing DEF FailuresKnown
<1>5. CallsCovered
  <2>1. \A n \in Names : /\ disk[n] = 0 /\ pending[n] = 0 /\ worker.left[n] = 0 /\ latest[n] = 0
                         /\ Doing(worker.msg, n) = 0
      BY <1>1, NotDoing DEF Init, AtRest
  <2>2. \A n \in Names : Hand[n] = {0, 0, 0, 0, 0}
      BY <2>1, Zenon DEF Hand
  <2>3. \A n \in Names : (\A k \in Hand[n] : k <= latest[n]) /\ latest[n] \in Hand[n]
      BY <2>1, <2>2
  <2>4. 1 .. (Len(chan) + 1) - 1 = {}
      BY <1>1
  <2>5. Covers(latest, Len(chan) + 1, chan, Hand, failed)
      BY <2>3, <2>4 DEF Covers
  <2> QED BY <1>1, <2>5, NotDoing DEF CallsCovered, Reads
<1> QED BY <1>2, <1>3, <1>4, <1>5 DEF CallInv

----------------------------------------------------------------------------
(* What the callers are told.                                              *)

WriterInv == TypeInv /\ OrderInv /\ CallInv

\* Once drained, the backend has what the served caller expects, or it failed.
LEMMA DrainedSettled ==
    ASSUME WriterInv, Drained, worker.msg.op \in Reads
    PROVE  /\ worker.msg.from \in Clients
           /\ client[worker.msg.from].op = worker.msg.op
           /\ \A n \in Names : LET k == client[worker.msg.from].expect[n]
                               IN  disk[n] = k \/ <<n, k>> \in failed
<1> DEFINE c == worker.msg.from
<1>1. c \in Clients /\ client[c].op = worker.msg.op
  <2>1. worker.msg \in Requests
      BY NotDoing DEF WriterInv, TypeInv, ThreadOK, Workers, Jobs, Reads
  <2>2. c \in Clients
      BY <2>1, RequestFrom DEF Reads
  <2> QED BY <2>2 DEF WriterInv, CallInv, ParkedOnce, Parked, ParkedFor
<1>2. ASSUME NEW n \in Names
      PROVE  disk[n] = client[c].expect[n] \/ <<n, client[c].expect[n]>> \in failed
  <2>1. PICK e \in [Names -> Numbers] : e = client[c].expect
      BY <1>1 DEF WriterInv, TypeInv, HandlesOK, Calls
  <2>2. Covers(e, 1, chan, Hand, failed)
      BY <2>1 DEF WriterInv, CallInv, CallsCovered
  <2>3. 1 .. 1 - 1 = {}
      OBVIOUS
  <2>4. (\A k \in Hand[n] : k <= e[n]) /\ (e[n] \in Hand[n] \/ <<n, e[n]>> \in failed)
      BY <2>2, <2>3 DEF Covers
  <2>5. worker.left[n] = 0 /\ pending[n] = 0 /\ Doing(worker.msg, n) = 0
    <3>1. worker.left = Nothing /\ pending = Nothing
        BY DEF Drained, WriterInv, OrderInv, ThreadPlaces
    <3> QED BY <3>1, NotDoing DEF Doing, Reads
  <2>6. Hand[n] = {0, disk[n], 0, 0, 0} /\ disk[n] \in Nat /\ e[n] \in Nat
    <3>1. Hand[n] = {0, disk[n], 0, 0, 0}
        BY <2>5, Zenon DEF Hand
    <3> QED BY <3>1, HandIs, NumbersAreNats DEF WriterInv
  <2>7. disk[n] = e[n] \/ <<n, e[n]>> \in failed
      BY <2>4, <2>6
  <2> QED BY <2>1, <2>7
<1> QED BY <1>1, <1>2

\* What an answered call may rely on.
ReadOK(r) ==
    r.st = "answered" /\ r.ok /\ r.op \in {"load", "list"} =>
        \A n \in IF r.op = "load" THEN {r.name} ELSE Names :
            r.got[n] = r.expect[n] \/ <<n, r.expect[n]>> \in r.excused
FlushOK(r, backend) ==
    r.st = "answered" /\ r.ok /\ r.op = "flush" =>
        \A n \in Names : backend[n] >= r.expect[n] \/ <<n, r.expect[n]>> \in r.excused

\* A step either leaves a call as it is, ends it, or answers it with what the
\* drained backend has.
LEMMA StepAnswers ==
    ASSUME WriterInv, [Next]_vars, NEW c \in Clients
    PROVE  \/ client'[c] = client[c] \/ client'[c].st # "answered"
           \/ ReadOK(client'[c]) /\ FlushOK(client'[c], disk)
<1>t. TypeInv /\ client \in [Clients -> Calls]
    BY DEF WriterInv, TypeInv, HandlesOK
<1>1. CASE ServeFlush \/ ServeRead \/ ServeDelete
  <2>1. CASE c # worker.msg.from
      BY <1>1, <2>1, <1>t, ServesAnswer, AnswerShape
  <2>2. CASE c = worker.msg.from /\ ServeDelete
    <3>1. worker.msg.op = "delete"
        BY <2>2 DEF ServeDelete, Drained
    <3>2. client[c].op = worker.msg.op
        BY <2>2 DEF WriterInv, CallInv, ParkedOnce, Parked, ParkedFor
    <3>3. client'[c].op = "delete"
        BY <2>2, <3>1, <3>2, <1>t, ServesAnswer, AnswerShape
    <3> QED BY <3>3 DEF ReadOK, FlushOK
  <2>3. CASE c = worker.msg.from /\ ServeFlush
    <3>1. Drained /\ worker.msg.op = "flush" /\ worker.msg.op \in Reads
        BY <2>3 DEF ServeFlush, Reads
    <3>2. \A n \in Names : LET k == client[c].expect[n] IN disk[n] = k \/ <<n, k>> \in failed
        BY <2>3, <3>1, DrainedSettled
    <3>3. /\ client'[c].op = "flush" /\ client'[c].expect = client[c].expect
          /\ client'[c].ok = ~worker.err /\ client'[c].excused = worker.known
        BY <2>3, <3>1, <1>t, AnswerShape, DrainedSettled DEF ServeFlush
    <3>4. ~worker.err => failed \subseteq worker.known
        BY <3>1 DEF WriterInv, CallInv, FailuresKnown
    <3>5. \A n \in Names : disk[n] \in Nat
        BY <1>t, HandIs, NumbersAreNats
    <3>6. ASSUME client'[c].ok, NEW n \in Names
          PROVE  disk[n] >= client'[c].expect[n]
                 \/ <<n, client'[c].expect[n]>> \in client'[c].excused
      <4>1. CASE disk[n] = client[c].expect[n]
          BY <3>3, <3>5, <4>1
      <4>2. CASE <<n, client[c].expect[n]>> \in failed
          BY <3>3, <3>4, <3>6, <4>2
      <4> QED BY <3>2, <4>1, <4>2
    <3> QED BY <3>3, <3>6 DEF ReadOK, FlushOK
  <2>4. CASE c = worker.msg.from /\ ServeRead
    <3>1. Drained /\ worker.msg.op \in {"load", "list"} /\ worker.msg.op \in Reads
        BY <2>4 DEF ServeRead, Reads
    <3>2. \A n \in Names : LET k == client[c].expect[n] IN disk[n] = k \/ <<n, k>> \in failed
        BY <2>4, <3>1, DrainedSettled
    <3>3. /\ client'[c].op = client[c].op /\ client[c].op = worker.msg.op
          /\ client'[c].name = client[c].name /\ client'[c].expect = client[c].expect
        BY <2>4, <3>1, <1>t, ServesAnswer, AnswerShape, DrainedSettled
    <3>4. client'[c].op = "load" => client'[c].name \in Names
        BY <3>3 DEF WriterInv, CallInv, LoadsNamed
    <3>5. \/ client'[c].got = disk /\ client'[c].excused = failed
          \/ ~client'[c].ok
          \/ \E x \in Names : /\ client'[c].got = [disk EXCEPT ![x] = 0]
                              /\ client'[c].excused = failed \cup {<<x, disk[x]>>}
      <4>1. \/ Answer(TRUE, disk, failed) \/ Answer(FALSE, Nothing, failed)
            \/ \E x \in Names : Answer(TRUE, [disk EXCEPT ![x] = 0], failed \cup {<<x, disk[x]>>})
          BY <2>4 DEF ServeRead
      <4>2. CASE Answer(TRUE, disk, failed)
          BY <2>4, <4>2, <1>t, AnswerShape
      <4>3. CASE Answer(FALSE, Nothing, failed)
        <5>1. client'[c].ok = FALSE
            BY <2>4, <4>3, <1>t, AnswerShape
        <5> QED BY <5>1
      <4>4. ASSUME NEW x \in Names,
                   Answer(TRUE, [disk EXCEPT ![x] = 0], failed \cup {<<x, disk[x]>>})
            PROVE  /\ client'[c].got = [disk EXCEPT ![x] = 0]
                   /\ client'[c].excused = failed \cup {<<x, disk[x]>>}
          BY <2>4, <4>4, <1>t, AnswerShape
      <4> QED BY <4>1, <4>2, <4>3, <4>4
    <3>6. ASSUME client'[c].ok, NEW n \in Names
          PROVE  client'[c].got[n] = client'[c].expect[n]
                 \/ <<n, client'[c].expect[n]>> \in client'[c].excused
      <4>1. CASE client'[c].got = disk /\ client'[c].excused = failed
          BY <3>2, <3>3, <4>1
      <4>2. ASSUME NEW x \in Names, client'[c].got = [disk EXCEPT ![x] = 0],
                   client'[c].excused = failed \cup {<<x, disk[x]>>}
            PROVE  client'[c].got[n] = client'[c].expect[n]
                   \/ <<n, client'[c].expect[n]>> \in client'[c].excused
        <5>1. x # n => client'[c].got[n] = disk[n]
            BY <4>2, <1>t DEF TypeInv, BackendOK
        <5> QED BY <3>2, <3>3, <4>2, <5>1
      <4> QED BY <3>5, <3>6, <4>1, <4>2
    <3> QED BY <3>1, <3>3, <3>4, <3>6 DEF ReadOK, FlushOK
  <2> QED BY <1>1, <2>1, <2>2, <2>3, <2>4
<1>2. ASSUME NEW d \in Clients, NEW op \in Ops, NEW n \in Names \cup {NoName}, Call(d, op, n)
      PROVE  client'[c] = client[c] \/ client'[c].st # "answered"
    BY <1>2, <1>t, CallParks
<1>3. ASSUME NEW d \in Clients, Return(d)
      PROVE  client'[c] = client[c] \/ client'[c].st # "answered"
    BY <1>3, <1>t DEF Return, IdleClient
<1>4. CASE ThreadFails
    BY <1>4, <1>t DEF ThreadFails, Calls
<1>5. CASE ProcessEnds
    BY <1>5 DEF ProcessEnds, IdleClient
<1>6. CASE UNCHANGED client
    BY <1>6
<1> QED BY <1>1, <1>2, <1>3, <1>4, <1>5, <1>6
    DEF Next, Thread, ThreadStarts, Receive, TimerFires, ChannelClosed, WriteOk, WriteFails,
        DrainEnds, CeilingPasses, DropHandle, Save, vars

LEMMA WriterInvHolds == Spec => []WriterInv
<1>1. Init => WriterInv
    BY InitTypeInv, InitOrderInv, InitCallInv DEF WriterInv
<1>2. WriterInv /\ [Next]_vars => WriterInv'
    BY StepTypeInv, StepOrderInv, StepCallInv DEF WriterInv
<1> QED BY <1>1, <1>2, PTL DEF Spec

\* For any sessions, clients, interleavings and faults: a load or list that
\* answers Ok shows the last save or delete requested before it was called, buffered
\* or not, except where the backend call of that very request had failed.
THEOREM ReadsAreCurrent == Spec => []ReadsSeeEarlierRequests
<1>1. Init => ReadsSeeEarlierRequests
    BY DEF Init, ReadsSeeEarlierRequests, IdleClient
<1>2. WriterInv /\ ReadsSeeEarlierRequests /\ [Next]_vars => ReadsSeeEarlierRequests'
  <2> SUFFICES ASSUME WriterInv, ReadsSeeEarlierRequests, [Next]_vars, NEW c \in Clients
               PROVE  ReadOK(client'[c])
      BY DEF ReadsSeeEarlierRequests, ReadOK
  <2>1. ReadOK(client[c])
      BY DEF ReadsSeeEarlierRequests, ReadOK
  <2>2. client'[c].st # "answered" => ReadOK(client'[c])
      BY DEF ReadOK
  <2> QED BY <2>1, <2>2, StepAnswers
<1> QED BY <1>1, <1>2, WriterInvHolds, PTL DEF Spec

\* A caller holds a handle, and one that the thread left without an answer faces a
\* thread that never started.
CallersOpen ==
    /\ \A c \in Clients : client[c].st # "idle" => open
    /\ \A c \in Clients : client[c].st = "degraded" => worker.pc = "gone"

LEMMA StepCallersOpen == TypeInv /\ ParkedOnce /\ CallersOpen /\ [Next]_vars => CallersOpen'
<1> SUFFICES ASSUME TypeInv, ParkedOnce, CallersOpen, [Next]_vars PROVE CallersOpen'
    OBVIOUS
<1>t. client \in [Clients -> Calls] /\ worker \in Workers
    BY DEF TypeInv, HandlesOK, ThreadOK
<1>w. worker.pc \in {"start", "recv", "drain", "gone", "dead"}
    BY <1>t DEF Workers
<1> USE DEF CallersOpen
<1>1. ASSUME NEW c \in Clients, NEW op \in Ops, NEW n \in Names \cup {NoName}, Call(c, op, n)
      PROVE  CallersOpen'
  <2>1. open' /\ worker' = worker /\ (~Running => worker.pc = "gone")
      BY <1>1, <1>w DEF Call, Alive, Running
  <2>2. /\ client'[c].st = IF Running THEN "parked" ELSE "degraded"
        /\ \A d \in Clients \ {c} : client'[d] = client[d]
      BY <1>1, <1>t, CallParks
  <2> QED BY <2>1, <2>2
<1>2. ASSUME NEW c \in Clients, Return(c) PROVE CallersOpen'
    BY <1>2, <1>t DEF Return, IdleClient
<1>3. CASE ThreadFails
  <2>1. /\ worker'.pc = "gone" /\ open' = open
        /\ \A c \in Clients : client'[c].st # "idle" => client[c].st # "idle"
      BY <1>3, <1>t DEF ThreadFails, Calls, Receiving
  <2> QED BY <2>1
<1>4. CASE ProcessEnds
    BY <1>4 DEF ProcessEnds, IdleClient
<1>5. CASE DropHandle
    BY <1>5 DEF DropHandle
<1>6. CASE ServeFlush \/ ServeRead \/ ServeDelete
  <2>1. worker.pc = "drain" /\ open' = open
      BY <1>6 DEF ServeFlush, ServeRead, ServeDelete, Drained
  <2>2. PICK ok, got, excused : Answer(ok, got, excused)
      BY <1>6, ServesAnswer
  <2>3. \A c \in Clients : client[c].st # "degraded"
      BY <2>1
  <2>4. \A c \in Clients : c # worker.msg.from => client'[c] = client[c]
      BY <2>2, AnswerShape
  <2>5. worker.msg.from \in Clients =>
            client'[worker.msg.from].st = "answered" /\ client[worker.msg.from].st = "parked"
      BY <2>2, AnswerShape DEF ParkedOnce, Parked, ParkedFor
  <2>6. \A c \in Clients :
            client'[c].st # "degraded" /\ (client'[c].st # "idle" => client[c].st # "idle")
      BY <2>3, <2>4, <2>5
  <2> QED BY <2>1, <2>6
<1>7. CASE /\ UNCHANGED <<client, open>>
           /\ worker' = worker \/ worker.pc \in {"start", "recv", "drain"}
    BY <1>7
<1>8. Next => \/ \E c \in Clients, op \in Ops, n \in Names \cup {NoName} : Call(c, op, n)
              \/ \E c \in Clients : Return(c)
              \/ ThreadFails \/ ProcessEnds \/ DropHandle
              \/ ServeFlush \/ ServeRead \/ ServeDelete
              \/ /\ UNCHANGED <<client, open>>
                 /\ worker' = worker \/ worker.pc \in {"start", "recv", "drain"}
    BY DEF Next, Thread, ThreadStarts, Receive, TimerFires, ChannelClosed, WriteOk, WriteFails,
           DrainEnds, Drained, CeilingPasses, Save
<1>9. UNCHANGED vars => UNCHANGED <<client, open, worker>>
    BY DEF vars
<1> QED BY <1>1, <1>2, <1>3, <1>4, <1>5, <1>6, <1>7, <1>8, <1>9

\* An answered flush is durable, and stays so.
LEMMA StepFlush ==
    ASSUME WriterInv, [Next]_vars, NEW c \in Clients, FlushOK(client[c], disk),
           \A n \in Names : disk'[n] >= disk[n]
    PROVE  FlushOK(client'[c], disk')
<1>1. client'[c].st # "answered" => FlushOK(client'[c], disk')
    BY DEF FlushOK
<1>2. TypeInv /\ TypeInv'
    BY StepTypeInv DEF WriterInv
<1>3. FlushOK(client'[c], disk) => FlushOK(client'[c], disk')
  <2>1. \A n \in Names : disk[n] \in Nat /\ disk'[n] \in Nat /\ client'[c].expect[n] \in Nat
    <3>1. disk \in [Names -> Numbers] /\ disk' \in [Names -> Numbers]
        BY <1>2 DEF TypeInv, BackendOK
    <3>2. client'[c] \in Calls
        BY <1>2 DEF TypeInv, HandlesOK
    <3>3. client'[c].expect \in [Names -> Numbers]
        BY <3>2 DEF Calls
    <3> QED BY <3>1, <3>3, NumbersAreNats
  <2> QED BY <2>1 DEF FlushOK
<1> QED BY <1>1, <1>3, StepAnswers

FlushInv == CallersOpen /\ \A c \in Clients : FlushOK(client[c], disk)

\* For any sessions, clients, interleavings and faults: when a flush has returned
\* Ok, everything saved before it is in the backend and stays there, except what an
\* earlier drain had already failed to write and except where the writer's thread
\* never started; no other way of losing the thread leaves a caller with an Ok.
THEOREM FlushesAreDurable == Spec => []FlushIsDurable
<1>1. Init => FlushInv
    BY DEF Init, FlushInv, CallersOpen, FlushOK, IdleClient
<1>2. WriterInv /\ FlushInv /\ [Next]_vars /\ [\A n \in Names : disk'[n] >= disk[n]]_vars
          => FlushInv'
  <2> SUFFICES ASSUME WriterInv, FlushInv, [Next]_vars, \A n \in Names : disk'[n] >= disk[n]
               PROVE  FlushInv'
    <3>1. ASSUME WriterInv, UNCHANGED vars PROVE \A n \in Names : disk'[n] >= disk[n]
      <4>1. \A n \in Names : disk[n] \in Nat
          BY <3>1, HandIs, NumbersAreNats DEF WriterInv
      <4> QED BY <3>1, <4>1 DEF vars
    <3> QED BY <3>1
  <2>1. CallersOpen'
      BY StepCallersOpen DEF WriterInv, CallInv, FlushInv
  <2>2. \A c \in Clients : FlushOK(client'[c], disk')
      BY StepFlush DEF FlushInv
  <2> QED BY <2>1, <2>2 DEF FlushInv
<1>3. FlushInv => FlushIsDurable
    BY DEF FlushInv, FlushIsDurable, FlushOK, CallersOpen, NeverStarted
<1> QED BY <1>1, <1>2, <1>3, WriterInvHolds, BackendNeverGoesBack, PTL
        DEF Spec, DiskNeverGoesBack

----------------------------------------------------------------------------
(* The checkpoints.  Nothing is assumed of the constants.                  *)

\* A set of numbers has a least one.
LEMMA LeastOf ==
    ASSUME NEW S, S \subseteq Nat, S # {}
    PROVE  \E i \in S : \A j \in S : i <= j
<1>1. PICK x \in S : \A y \in S : ~(<<y, x>> \in OpToRel(<, Nat))
    BY NatLessThanWellFounded, WFMin
<1>2. \A y \in S : ~(y < x)
    BY <1>1 DEF OpToRel
<1> QED BY <1>2

\* The variables are the tables they should be, and the records have their fields.
DirFields == {"made", "man", "entries", "partial", "blobs"}
RecFields == {"open", "idx", "entries", "partial"}
TuiFields == {"pc", "idx", "planned", "turns", "todo", "scan", "total"}
Shapes ==
    /\ DOMAIN files = Files
    /\ DOMAIN dirs = Prompts /\ \A i \in Prompts : DirFields \subseteq DOMAIN dirs[i]
    /\ DOMAIN rec = Procs /\ \A p \in Procs : RecFields \subseteq DOMAIN rec[p]
    /\ DOMAIN tui = Procs /\ \A p \in Procs : TuiFields \subseteq DOMAIN tui[p]
    /\ DOMAIN began = Prompts /\ \A i \in Prompts : DOMAIN began[i] = Files

\* A prompt being recorded has a directory of its own, without a manifest.
Slots ==
    /\ \A i \in Prompts : ~dirs[i].made => dirs[i].man = "none"
    /\ \A i \in Prompts : dirs[i].man = "files" => DOMAIN dirs[i].entries \subseteq Files
    /\ \A p \in Procs : rec[p].open =>
          rec[p].idx \in Prompts /\ dirs[rec[p].idx].made /\ dirs[rec[p].idx].man = "none"
    /\ \A p, q \in Procs : rec[p].open /\ rec[q].open /\ rec[p].idx = rec[q].idx => p = q
    /\ \A p \in Procs : tui[p].pc = "claim" => tui[p].idx \in Prompts

\* Unless it is partial, a recorder has captured the files it is about to write, and
\* those it has not captured are as they were when its prompt began.
Captured ==
    \A p \in Procs : rec[p].open =>
        /\ DOMAIN rec[p].entries \subseteq Files
        /\ rec[p].partial
           \/ /\ tui[p].planned \subseteq DOMAIN rec[p].entries
              /\ \A f \in DOMAIN rec[p].entries : rec[p].entries[f].error
                    \/ began[rec[p].idx][f] \in {rec[p].entries[f].pre, Lost}
              /\ \A f \in Files \ DOMAIN rec[p].entries :
                    began[rec[p].idx][f] \in {files[f], Lost}

\* The blobs that a recorder's entries name are there, unless its prompt was swept.
Backed ==
    \A p \in Procs : rec[p].open /\ rec[p].idx \notin unattended =>
        \A f \in DOMAIN rec[p].entries : rec[p].entries[f].error
            \/ rec[p].entries[f].pre \in dirs[rec[p].idx].blobs \cup {0}

\* Blobs are dropped behind a cleared manifest, or behind none.
Sweeps ==
    \A p \in Procs :
        /\ DOMAIN tui[p].scan \subseteq Prompts
        /\ tui[p].pc = "evict" =>
              /\ Oldest(tui[p].scan) \in Prompts
              /\ \/ dirs[Oldest(tui[p].scan)].man = "cleared"
                 \/ Oldest(tui[p].scan) \in unattended

\* PreimagesFromStart and BlobsBehindManifests speak of saved manifests; the recorders and
\* the sweeps, which save them and clear them, have to keep the same promises before.
CheckpointInv ==
    /\ Shapes /\ Slots /\ Captured /\ Backed /\ Sweeps
    /\ PreimagesFromStart /\ BlobsBehindManifests

LEMMA IdleIs ==
    /\ TuiFields \subseteq DOMAIN Idle /\ Idle.pc = "idle" /\ Idle.planned = {}
    /\ DOMAIN Idle.scan = {}
BY DEF Idle, TuiFields

LEMMA ClosedIs == RecFields \subseteq DOMAIN Closed /\ Closed.open = FALSE
BY DEF Closed, RecFields

\* Steps that leave the files and the directories alone; the recorder keeps its prompt or
\* lets it go.
Quiet(p) ==
    /\ UNCHANGED <<files, dirs, began, unattended>>
    /\ rec' \in {rec, [rec EXCEPT ![p] = Closed]}
    /\ DOMAIN tui' = Procs /\ \A q \in Procs \ {p} : tui'[q] = tui[q]
    /\ TuiFields \subseteq DOMAIN tui'[p]
    /\ tui'[p].planned \subseteq tui[p].planned
    /\ DOMAIN tui'[p].scan \subseteq Prompts
    /\ tui'[p].pc # "evict"
    /\ tui'[p].pc = "claim" => tui'[p].idx \in Prompts

\* Such a step keeps the invariant.
LEMMA QuietKeeps == ASSUME CheckpointInv, NEW p \in Procs, Quiet(p) PROVE CheckpointInv'
<1> USE DEF CheckpointInv
<1>1. /\ DOMAIN rec' = Procs /\ \A q \in Procs : RecFields \subseteq DOMAIN rec'[q]
      /\ \A q \in Procs : rec'[q].open => rec'[q] = rec[q]
  <2>1. CASE rec' = rec
      BY <2>1 DEF Shapes
  <2>2. CASE rec' = [rec EXCEPT ![p] = Closed]
      BY <2>2, ClosedIs DEF Shapes
  <2> QED BY <2>1, <2>2 DEF Quiet
<1>2. Shapes'
    BY <1>1 DEF Shapes, Quiet
<1>3. Slots'
    BY <1>1 DEF Slots, Quiet
<1>4. Captured'
  <2> SUFFICES ASSUME NEW q \in Procs, rec'[q].open
      PROVE /\ DOMAIN rec'[q].entries \subseteq Files
            /\ rec'[q].partial
               \/ /\ tui'[q].planned \subseteq DOMAIN rec'[q].entries
                  /\ \A f \in DOMAIN rec'[q].entries : rec'[q].entries[f].error
                        \/ began'[rec'[q].idx][f] \in {rec'[q].entries[f].pre, Lost}
                  /\ \A f \in Files \ DOMAIN rec'[q].entries :
                        began'[rec'[q].idx][f] \in {files'[f], Lost}
      BY DEF Captured, Lost
  <2>1. rec'[q] = rec[q] /\ tui'[q].planned \subseteq tui[q].planned
      BY <1>1 DEF Quiet
  <2>2. began' = began /\ files' = files
      BY DEF Quiet
  <2> QED BY <2>1, <2>2 DEF Captured
<1>5. Backed'
    BY <1>1 DEF Backed, Quiet
<1>6. Sweeps'
    BY DEF Sweeps, Quiet
<1>7. PreimagesFromStart' /\ BlobsBehindManifests'
    BY DEF PreimagesFromStart, BlobsBehindManifests, Restorable, Quiet, Lost
<1> QED BY <1>2, <1>3, <1>4, <1>5, <1>6, <1>7

\* A process that goes idle takes such a step.
LEMMA IdleQuiet ==
    ASSUME CheckpointInv, NEW p \in Procs, UNCHANGED <<files, dirs, began, unattended>>,
           rec' \in {rec, [rec EXCEPT ![p] = Closed]}, tui' = [tui EXCEPT ![p] = Idle]
    PROVE  Quiet(p)
<1>1. tui'[p] = Idle /\ DOMAIN tui' = Procs /\ \A q \in Procs \ {p} : tui'[q] = tui[q]
    BY DEF CheckpointInv, Shapes
<1> QED BY <1>1, IdleIs DEF Quiet

\* A step that only moves process p.
LEMMA MoveQuiet ==
    ASSUME CheckpointInv, NEW p \in Procs, UNCHANGED <<files, dirs, rec, began, unattended>>, NEW t,
           tui' = [tui EXCEPT ![p] = t], TuiFields \subseteq DOMAIN t,
           t.planned \subseteq tui[p].planned, DOMAIN t.scan \subseteq Prompts, t.pc # "evict",
           t.pc = "claim" => t.idx \in Prompts
    PROVE  Quiet(p)
<1>1. tui'[p] = t /\ DOMAIN tui' = Procs /\ \A q \in Procs \ {p} : tui'[q] = tui[q]
    BY DEF CheckpointInv, Shapes
<1> QED BY <1>1 DEF Quiet

\* The steps that touch neither a file nor a directory.
LEMMA QuietSteps ==
    ASSUME CheckpointInv, NEW p \in Procs
    PROVE  /\ Submit(p) => Quiet(p)
           /\ ClaimFails(p) => Quiet(p)
           /\ CloseFails(p) \/ RunFails(p) \/ SweepEnds(p) \/ RestoreFails(p)
                 \/ FilesRestored(p) \/ Crash(p) => Quiet(p)
           /\ RunEnds(p) /\ ~rec[p].open => Quiet(p)
           /\ ScanBlobs(p) => Quiet(p)
           /\ Verify(p) => Quiet(p)
           /\ \A f \in Files : ToolFails(p, f) => Quiet(p)
           /\ \A i \in Prompts : Rewind(p, i) => Quiet(p)
<1>p. /\ TuiFields \subseteq DOMAIN tui[p] /\ DOMAIN tui[p].scan \subseteq Prompts
      /\ "pc" \in DOMAIN Idle /\ "idx" \in DOMAIN Idle /\ "scan" \in DOMAIN Idle
      /\ "total" \in DOMAIN Idle
    BY IdleIs DEF CheckpointInv, Shapes, Sweeps, TuiFields
\* From Idle with another place and index.
<1>i. ASSUME NEW c, NEW x, c # "evict", c = "claim" => x \in Prompts,
             tui' = [tui EXCEPT ![p] = [Idle EXCEPT !.pc = c, !.idx = x]],
             UNCHANGED <<files, dirs, rec, began, unattended>>
      PROVE  Quiet(p)
  <2> DEFINE t == [Idle EXCEPT !.pc = c, !.idx = x]
  <2>1. t.pc = c /\ t.idx = x /\ t.planned = Idle.planned /\ t.scan = Idle.scan
        /\ TuiFields \subseteq DOMAIN t
      BY <1>p, IdleIs DEF TuiFields
  <2> HIDE DEF t
  <2> QED BY <1>i, <2>1, IdleIs, MoveQuiet DEF t
<1>1. ASSUME Submit(p) PROVE Quiet(p)
    BY <1>1, <1>i DEF Submit, Prompts
<1>2. ASSUME ClaimFails(p) PROVE Quiet(p)
  <2>1. /\ tui' = [tui EXCEPT ![p] = [Idle EXCEPT !.pc = "run", !.idx = 0]]
        /\ UNCHANGED <<files, dirs, rec, began, unattended>>
      BY <1>2 DEF ClaimFails, StartRun
  <2>2. "run" # "evict" /\ "run" # "claim"
      OBVIOUS
  <2> QED BY <2>1, <2>2, <1>i
<1>3. ASSUME CloseFails(p) \/ RunFails(p) \/ SweepEnds(p) \/ RestoreFails(p)
                 \/ FilesRestored(p) \/ Crash(p)
      PROVE  Quiet(p)
    BY <1>3, IdleQuiet
    DEF CloseFails, RunFails, SweepEnds, RestoreFails, FilesRestored, Crash
<1>4. ASSUME RunEnds(p), ~rec[p].open PROVE Quiet(p)
    BY <1>4, IdleQuiet DEF RunEnds
<1>5. ASSUME ScanBlobs(p) PROVE Quiet(p)
  <2> DEFINE held == {i \in Prompts \ {tui[p].idx} : dirs[i].blobs # {}}
             s == [i \in held |-> Cardinality(dirs[i].blobs)]
             n == SumFunction(s)
             t == [Idle EXCEPT !.pc = "sweep", !.scan = s, !.total = n]
  <2>1. tui' = [tui EXCEPT ![p] = t] /\ UNCHANGED <<files, dirs, rec, began, unattended>>
      BY <1>5 DEF ScanBlobs
  <2>2. DOMAIN s \subseteq Prompts
      OBVIOUS
  <2> HIDE DEF s, n
  <2>3. t.pc = "sweep" /\ t.scan = s /\ t.planned = Idle.planned /\ TuiFields \subseteq DOMAIN t
      BY <1>p, IdleIs DEF TuiFields
  <2> HIDE DEF t
  <2> QED BY <2>1, <2>2, <2>3, IdleIs, MoveQuiet
<1>6. ASSUME Verify(p) PROVE Quiet(p)
  <2>1. CASE tui' = [tui EXCEPT ![p] = Idle]
      BY <1>6, <2>1, IdleQuiet DEF Verify
  <2>2. CASE tui' # [tui EXCEPT ![p] = Idle]
    <3>1. PICK todo : tui' = [tui EXCEPT ![p].pc = "apply", ![p].todo = todo]
        BY <1>6, <2>2 DEF Verify
    <3> DEFINE t == [tui[p] EXCEPT !.pc = "apply", !.todo = todo]
    <3>2. tui' = [tui EXCEPT ![p] = t] /\ UNCHANGED <<files, dirs, rec, began, unattended>>
        BY <1>6, <3>1 DEF Verify
    <3>3. t.pc = "apply" /\ t.scan = tui[p].scan /\ t.planned = tui[p].planned
          /\ TuiFields \subseteq DOMAIN t
        BY <1>p DEF TuiFields
    <3> HIDE DEF t
    <3> QED BY <1>p, <3>2, <3>3, MoveQuiet
  <2> QED BY <2>1, <2>2
<1>7. ASSUME NEW f \in Files, ToolFails(p, f) PROVE Quiet(p)
  <2>1. PICK c \in {"run", "stop", "tools"} :
            tui' = [tui EXCEPT ![p].planned = tui[p].planned \ {f}, ![p].pc = c]
      BY <1>7 DEF ToolFails, Returned
  <2> DEFINE t == [tui[p] EXCEPT !.planned = tui[p].planned \ {f}, !.pc = c]
  <2>2. tui' = [tui EXCEPT ![p] = t] /\ UNCHANGED <<files, dirs, rec, began, unattended>>
      BY <1>7, <2>1 DEF ToolFails
  <2>3. t.pc = c /\ t.scan = tui[p].scan /\ t.planned = tui[p].planned \ {f}
        /\ TuiFields \subseteq DOMAIN t
      BY <1>p DEF TuiFields
  <2> HIDE DEF t
  <2> QED BY <1>p, <2>2, <2>3, MoveQuiet
<1>8. ASSUME NEW i \in Prompts, Rewind(p, i) PROVE Quiet(p)
    BY <1>8, <1>i DEF Rewind
<1> QED BY <1>1, <1>2, <1>3, <1>4, <1>5, <1>6, <1>7, <1>8

----------------------------------------------------------------------------
\* A file changes, and the recorders that still could have captured it know.
LEMMA FileChangeKeeps ==
    ASSUME CheckpointInv, NEW f \in Files, NEW Q \in SUBSET Procs, NEW c, Taint(Q, f),
           files' = [files EXCEPT ![f] = c], UNCHANGED <<dirs, rec, unattended>>,
           \A p \in Procs \ Q : rec[p].open /\ ~rec[p].partial => f \in DOMAIN rec[p].entries,
           DOMAIN tui' = Procs,
           \A p \in Procs :
              /\ TuiFields \subseteq DOMAIN tui'[p] /\ tui'[p].planned \subseteq tui[p].planned
              /\ tui'[p].scan = tui[p].scan
              /\ tui'[p].pc = "claim" => tui'[p].idx \in Prompts
              /\ tui'[p].pc = "evict" => tui[p].pc = "evict"
    PROVE  CheckpointInv'
<1> USE DEF CheckpointInv
<1>1. /\ DOMAIN began' = Prompts
      /\ \A i \in Prompts :
            /\ DOMAIN began'[i] = Files
            /\ \A g \in Files : began'[i][g] = began[i][g] \/ began'[i][g] = Lost
            /\ (\E q \in Q : rec[q].open /\ rec[q].idx = i /\ f \notin DOMAIN rec[q].entries)
                  => began'[i][f] = Lost
  <2> HIDE DEF CheckpointInv
  <2>1. DOMAIN began' = Prompts
      BY DEF Taint
  <2>2. ASSUME NEW i \in Prompts
        PROVE  /\ DOMAIN began'[i] = Files
               /\ \A g \in Files : began'[i][g] = began[i][g] \/ began'[i][g] = Lost
               /\ (\E q \in Q : rec[q].open /\ rec[q].idx = i /\ f \notin DOMAIN rec[q].entries)
                     => began'[i][f] = Lost
    <3> DEFINE late == \E q \in Q : rec[q].open /\ rec[q].idx = i /\ f \notin DOMAIN rec[q].entries
    <3>1. began'[i] = IF late THEN [began[i] EXCEPT ![f] = Lost] ELSE began[i]
        BY DEF Taint
    <3>2. DOMAIN began[i] = Files
        BY DEF CheckpointInv, Shapes
    <3> HIDE DEF late
    <3>3. /\ DOMAIN began'[i] = Files
          /\ \A g \in Files : began'[i][g] = began[i][g] \/ began'[i][g] = Lost
          /\ late => began'[i][f] = Lost
        BY <3>1, <3>2
    <3> QED BY <3>3 DEF late
  <2> QED BY <2>1, <2>2
<1>2. DOMAIN files' = Files /\ \A g \in Files \ {f} : files'[g] = files[g]
    BY DEF Shapes
<1>3. Shapes'
    BY <1>1, <1>2 DEF Shapes
<1>4. Slots'
    BY DEF Slots
<1>5. Captured'
  <2> SUFFICES ASSUME NEW p \in Procs, rec[p].open
      PROVE /\ DOMAIN rec[p].entries \subseteq Files
            /\ rec[p].partial
               \/ /\ tui'[p].planned \subseteq DOMAIN rec[p].entries
                  /\ \A g \in DOMAIN rec[p].entries : rec[p].entries[g].error
                        \/ began'[rec[p].idx][g] \in {rec[p].entries[g].pre, Lost}
                  /\ \A g \in Files \ DOMAIN rec[p].entries :
                        began'[rec[p].idx][g] \in {files'[g], Lost}
      BY DEF Captured, Lost
  <2>0. rec[p].idx \in Prompts /\ DOMAIN rec[p].entries \subseteq Files
      BY DEF Slots, Captured
  <2> SUFFICES ASSUME ~rec[p].partial
      PROVE /\ tui'[p].planned \subseteq DOMAIN rec[p].entries
            /\ \A g \in DOMAIN rec[p].entries : rec[p].entries[g].error
                  \/ began'[rec[p].idx][g] \in {rec[p].entries[g].pre, Lost}
            /\ \A g \in Files \ DOMAIN rec[p].entries :
                  began'[rec[p].idx][g] \in {files'[g], Lost}
      BY <2>0
  <2>1. tui'[p].planned \subseteq DOMAIN rec[p].entries
      BY DEF Captured
  <2>2. ASSUME NEW g \in DOMAIN rec[p].entries
        PROVE  rec[p].entries[g].error
                  \/ began'[rec[p].idx][g] \in {rec[p].entries[g].pre, Lost}
    <3>1. rec[p].entries[g].error \/ began[rec[p].idx][g] \in {rec[p].entries[g].pre, Lost}
        BY DEF Captured
    <3> QED BY <1>1, <2>0, <3>1
  <2>3. ASSUME NEW g \in Files \ DOMAIN rec[p].entries
        PROVE  began'[rec[p].idx][g] \in {files'[g], Lost}
    <3>1. began[rec[p].idx][g] \in {files[g], Lost}
        BY DEF Captured
    <3>2. CASE g # f
        BY <1>1, <1>2, <2>0, <3>1, <3>2
    <3>3. CASE g = f
      <4>1. p \in Q
          BY <3>3
      <4> QED BY <1>1, <2>0, <3>3, <4>1
    <3> QED BY <3>2, <3>3
  <2> QED BY <2>1, <2>2, <2>3
<1>6. Backed' /\ Sweeps'
    BY DEF Backed, Sweeps
<1>7. BlobsBehindManifests'
    BY DEF BlobsBehindManifests, Restorable
<1>8. PreimagesFromStart'
  <2> SUFFICES ASSUME NEW i \in Prompts, dirs[i].man = "files", ~dirs[i].partial,
                      NEW g \in Restorable(i)
               PROVE  began'[i][g] \in {dirs[i].entries[g].pre, Lost}
      BY DEF PreimagesFromStart, Restorable, Lost
  <2>1. began[i][g] \in {dirs[i].entries[g].pre, Lost}
      BY DEF PreimagesFromStart
  <2>2. g \in Files
      BY DEF Slots, Restorable
  <2> QED BY <1>1, <2>1, <2>2
<1> QED BY <1>3, <1>4, <1>5, <1>6, <1>7, <1>8

\* A tool writes a file that its recorder has captured, or a restore writes one.
LEMMA WriteKeeps ==
    ASSUME CheckpointInv, NEW p \in Procs, NEW f \in Files, WriteFile(p, f) \/ Apply(p, f)
    PROVE  CheckpointInv'
<1>p. TuiFields \subseteq DOMAIN tui[p] /\ DOMAIN tui = Procs
    BY DEF CheckpointInv, Shapes
<1>1. CASE WriteFile(p, f)
  <2>1. PICK c \in {"run", "stop", "tools"} :
            tui' = [tui EXCEPT ![p].planned = tui[p].planned \ {f}, ![p].pc = c]
      BY <1>1 DEF WriteFile, Returned
  <2>2. /\ DOMAIN tui' = Procs /\ \A q \in Procs \ {p} : tui'[q] = tui[q]
        /\ TuiFields \subseteq DOMAIN tui'[p] /\ tui'[p].planned \subseteq tui[p].planned
        /\ tui'[p].scan = tui[p].scan /\ tui'[p].pc = c
      BY <1>p, <2>1 DEF TuiFields
  <2>3. /\ UNCHANGED <<dirs, rec, unattended>> /\ Taint(Procs \ {p}, f)
        /\ files' = [files EXCEPT ![f] = written + 1] /\ f \in tui[p].planned
      BY <1>1 DEF WriteFile
  <2>4. \A q \in Procs \ (Procs \ {p}) :
            rec[q].open /\ ~rec[q].partial => f \in DOMAIN rec[q].entries
      BY <2>3 DEF CheckpointInv, Captured
  <2>5. \A q \in Procs :
            /\ TuiFields \subseteq DOMAIN tui'[q] /\ tui'[q].planned \subseteq tui[q].planned
            /\ tui'[q].scan = tui[q].scan
            /\ tui'[q].pc = "claim" => tui'[q].idx \in Prompts
            /\ tui'[q].pc = "evict" => tui[q].pc = "evict"
      BY <2>2 DEF CheckpointInv, Shapes, Slots
  <2>6. Procs \ {p} \in SUBSET Procs
      OBVIOUS
  <2> QED BY <2>2, <2>3, <2>4, <2>5, <2>6, FileChangeKeeps
<1>2. CASE Apply(p, f)
  <2> DEFINE todo == tui[p].todo
             left == [g \in DOMAIN todo \ {f} |-> todo[g]]
  <2>1. /\ tui' = [tui EXCEPT ![p].todo = left] /\ tui[p].pc = "apply"
        /\ UNCHANGED <<dirs, rec, unattended>> /\ Taint(Procs, f)
        /\ files' = [files EXCEPT ![f] = todo[f].pre]
      BY <1>2 DEF Apply
  <2> HIDE DEF left, todo
  <2>2. /\ DOMAIN tui' = Procs /\ \A q \in Procs \ {p} : tui'[q] = tui[q]
        /\ TuiFields \subseteq DOMAIN tui'[p] /\ tui'[p].planned = tui[p].planned
        /\ tui'[p].scan = tui[p].scan /\ tui'[p].pc = "apply"
      BY <1>p, <2>1 DEF TuiFields
  <2>3. \A q \in Procs :
            /\ TuiFields \subseteq DOMAIN tui'[q] /\ tui'[q].planned \subseteq tui[q].planned
            /\ tui'[q].scan = tui[q].scan
            /\ tui'[q].pc = "claim" => tui'[q].idx \in Prompts
            /\ tui'[q].pc = "evict" => tui[q].pc = "evict"
      BY <2>2 DEF CheckpointInv, Shapes, Slots
  <2> QED BY <2>1, <2>2, <2>3, FileChangeKeeps
<1> QED BY <1>1, <1>2

\* A change past every recorder.
LEMMA UntrackedKeeps == ASSUME CheckpointInv, NEW f \in Files, Untracked(f) PROVE CheckpointInv'
<1>1. PICK c \in {0, written + 1} : files' = [files EXCEPT ![f] = c]
    BY DEF Untracked
<1>2. Taint(Procs, f) /\ UNCHANGED <<dirs, rec, tui, unattended>>
    BY DEF Untracked
<1>3. DOMAIN tui' = Procs /\
      \A q \in Procs :
          /\ TuiFields \subseteq DOMAIN tui'[q] /\ tui'[q].planned \subseteq tui[q].planned
          /\ tui'[q].scan = tui[q].scan
          /\ tui'[q].pc = "claim" => tui'[q].idx \in Prompts
          /\ tui'[q].pc = "evict" => tui[q].pc = "evict"
    BY <1>2 DEF CheckpointInv, Shapes, Slots
<1> QED BY <1>1, <1>2, <1>3, FileChangeKeeps

\* A prompt gets the first free directory, and begins with the files as they are.
\* A claim opens a prompt in a directory that nobody has, with the files as they are.
LEMMA ClaimKeeps == ASSUME CheckpointInv, NEW p \in Procs, Claim(p) PROVE CheckpointInv'
<1>1. PICK i \in tui[p].idx .. MaxPrompts :
          /\ i \notin Made /\ dirs' = [dirs EXCEPT ![i].made = TRUE]
          /\ began' = [began EXCEPT ![i] = files] /\ OpenPrompt(p, i) /\ StartRun(p, i)
    BY DEF Claim
<1>2. i \in Prompts /\ UNCHANGED <<files, unattended>>
  <2>1. tui[p].idx \in Prompts
      BY DEF Claim, CheckpointInv, Slots
  <2> QED BY <2>1 DEF Claim, Prompts
<1> DEFINE r == [Closed EXCEPT !.open = TRUE, !.idx = i]
           t == [Idle EXCEPT !.pc = "run", !.idx = i]
           d == [dirs[i] EXCEPT !.made = TRUE]
<1>3. /\ r.open = TRUE /\ r.idx = i /\ DOMAIN r.entries = {} /\ r.partial = FALSE
      /\ RecFields \subseteq DOMAIN r
    BY DEF Closed, RecFields, Empty
<1>4. t.pc = "run" /\ t.planned = {} /\ DOMAIN t.scan = {} /\ TuiFields \subseteq DOMAIN t
    BY DEF Idle, TuiFields
<1>5. /\ d.made = TRUE /\ d.man = dirs[i].man /\ d.entries = dirs[i].entries
      /\ d.partial = dirs[i].partial /\ d.blobs = dirs[i].blobs /\ DirFields \subseteq DOMAIN d
    BY <1>2 DEF CheckpointInv, Shapes, DirFields
<1> HIDE DEF r, t, d
<1>6. /\ DOMAIN rec' = Procs /\ rec'[p] = r /\ \A q \in Procs \ {p} : rec'[q] = rec[q]
      /\ DOMAIN tui' = Procs /\ tui'[p] = t /\ \A q \in Procs \ {p} : tui'[q] = tui[q]
      /\ DOMAIN dirs' = Prompts /\ dirs'[i] = d /\ \A j \in Prompts \ {i} : dirs'[j] = dirs[j]
      /\ DOMAIN began' = Prompts /\ began'[i] = files
      /\ \A j \in Prompts \ {i} : began'[j] = began[j]
  <2>1. /\ DOMAIN rec = Procs /\ DOMAIN tui = Procs
        /\ DOMAIN dirs = Prompts /\ DOMAIN began = Prompts
      BY DEF CheckpointInv, Shapes
  <2>2. /\ rec' = [rec EXCEPT ![p] = r] /\ tui' = [tui EXCEPT ![p] = t]
        /\ dirs' = [dirs EXCEPT ![i] = d] /\ began' = [began EXCEPT ![i] = files]
      BY <1>1 DEF OpenPrompt, StartRun, r, t, d
  <2> QED BY <1>2, <2>1, <2>2
\* No recorder has this directory, and no manifest is in it.
<1>7. /\ dirs[i].man = "none"
      /\ \A q \in Procs : rec[q].open => rec[q].idx \in Prompts \ {i}
    BY <1>1, <1>2 DEF Made, CheckpointInv, Slots
<1>8. \A q \in Procs \ {p} : rec'[q].open => rec'[q] = rec[q] /\ rec[q].idx \in Prompts \ {i}
    BY <1>6, <1>7
<1>9. Shapes'
    BY <1>2, <1>3, <1>4, <1>5, <1>6 DEF CheckpointInv, Shapes
<1>10. Slots'
  <2>1. \A j \in Prompts : dirs'[j].man = dirs[j].man /\ dirs'[j].entries = dirs[j].entries
                            /\ (dirs[j].made => dirs'[j].made)
      BY <1>5, <1>6
  <2>2. \A q \in Procs : rec'[q].open =>
            rec'[q].idx \in Prompts /\ dirs'[rec'[q].idx].made /\ dirs'[rec'[q].idx].man = "none"
    <3>1. rec'[p].idx = i /\ dirs'[i].made /\ dirs'[i].man = "none"
        BY <1>3, <1>5, <1>6, <1>7
    <3>2. ASSUME NEW q \in Procs \ {p}, rec'[q].open
          PROVE  /\ rec'[q].idx \in Prompts /\ dirs'[rec'[q].idx].made
                 /\ dirs'[rec'[q].idx].man = "none"
      <4>1. rec'[q] = rec[q] /\ rec[q].open /\ rec[q].idx \in Prompts
          BY <1>8, <3>2
      <4>2. dirs[rec[q].idx].made /\ dirs[rec[q].idx].man = "none"
          BY <4>1 DEF CheckpointInv, Slots
      <4> QED BY <2>1, <4>1, <4>2
    <3> QED BY <1>2, <3>1, <3>2
  <2>3. \A q, s \in Procs : rec'[q].open /\ rec'[s].open /\ rec'[q].idx = rec'[s].idx => q = s
    <3>1. rec'[p].idx = i
        BY <1>3, <1>6
    <3> QED BY <1>8, <3>1 DEF CheckpointInv, Slots
  <2>4. \A j \in Prompts : ~dirs'[j].made => dirs'[j].man = "none"
      BY <2>1 DEF CheckpointInv, Slots
  <2>5. \A q \in Procs : tui'[q].pc = "claim" => tui'[q].idx \in Prompts
      BY <1>4, <1>6 DEF CheckpointInv, Slots
  <2> QED BY <2>1, <2>2, <2>3, <2>4, <2>5 DEF CheckpointInv, Slots
<1>11. Captured'
  <2> SUFFICES ASSUME NEW q \in Procs, rec'[q].open
      PROVE /\ DOMAIN rec'[q].entries \subseteq Files
            /\ rec'[q].partial
               \/ /\ tui'[q].planned \subseteq DOMAIN rec'[q].entries
                  /\ \A f \in DOMAIN rec'[q].entries : rec'[q].entries[f].error
                        \/ began'[rec'[q].idx][f] \in {rec'[q].entries[f].pre, Lost}
                  /\ \A f \in Files \ DOMAIN rec'[q].entries :
                        began'[rec'[q].idx][f] \in {files'[f], Lost}
      BY DEF Captured, Lost
  <2>1. CASE q = p
      BY <1>2, <1>3, <1>4, <1>6, <2>1
  <2>2. CASE q # p
    <3>1. rec'[q] = rec[q] /\ tui'[q] = tui[q] /\ began'[rec[q].idx] = began[rec[q].idx]
          /\ files' = files /\ rec[q].open
        BY <1>2, <1>6, <1>8, <2>2
    <3> QED BY <3>1 DEF CheckpointInv, Captured
  <2> QED BY <2>1, <2>2
<1>12. Backed'
  <2> SUFFICES ASSUME NEW q \in Procs, rec'[q].open, rec'[q].idx \notin unattended',
                      NEW f \in DOMAIN rec'[q].entries
               PROVE  rec'[q].entries[f].error
                         \/ rec'[q].entries[f].pre \in dirs'[rec'[q].idx].blobs \cup {0}
      BY DEF Backed
  <2>1. q # p
      BY <1>3, <1>6
  <2>2. rec'[q] = rec[q] /\ dirs'[rec[q].idx] = dirs[rec[q].idx] /\ unattended' = unattended
      BY <1>2, <1>6, <1>8, <2>1
  <2> QED BY <2>2 DEF CheckpointInv, Backed
<1>13. Sweeps'
  <2> SUFFICES ASSUME NEW q \in Procs
               PROVE  /\ DOMAIN tui'[q].scan \subseteq Prompts
                      /\ tui'[q].pc = "evict" =>
                            /\ Oldest(tui'[q].scan) \in Prompts
                            /\ \/ dirs'[Oldest(tui'[q].scan)].man = "cleared"
                               \/ Oldest(tui'[q].scan) \in unattended'
      BY DEF Sweeps, Oldest
  <2>1. CASE q = p
      BY <1>4, <1>6, <2>1
  <2>2. CASE q # p
    <3>1. tui'[q] = tui[q]
        BY <1>6, <2>2
    <3>2. \A j \in Prompts : dirs'[j].man = dirs[j].man
        BY <1>5, <1>6
    <3> QED BY <1>2, <3>1, <3>2 DEF CheckpointInv, Sweeps
  <2> QED BY <2>1, <2>2
<1>14. \A j \in Prompts : dirs'[j].man = "files" =>
           dirs'[j] = dirs[j] /\ began'[j] = began[j] /\ dirs[j].man = "files"
    BY <1>5, <1>6, <1>7
<1>15. PreimagesFromStart'
    BY <1>14 DEF CheckpointInv, PreimagesFromStart, Restorable, Lost
<1>16. BlobsBehindManifests'
    BY <1>2, <1>14 DEF CheckpointInv, BlobsBehindManifests, Restorable
<1> QED BY <1>9, <1>10, <1>11, <1>12, <1>13, <1>15, <1>16 DEF CheckpointInv

\* close_prompt: what was recorded becomes the manifest.
LEMMA SaveKeeps ==
    ASSUME CheckpointInv, NEW p \in Procs, RunEnds(p), rec[p].open
    PROVE  CheckpointInv'
<1> DEFINE i == rec[p].idx
           d == [dirs[i] EXCEPT !.made = TRUE, !.man = "files", !.entries = rec[p].entries,
                                !.partial = rec[p].partial]
           t == [Idle EXCEPT !.pc = "scan", !.idx = i]
<1>1. /\ rec' = [rec EXCEPT ![p] = Closed] /\ dirs' = [dirs EXCEPT ![i] = d]
      /\ tui' = [tui EXCEPT ![p] = t] /\ UNCHANGED <<files, began, unattended>>
    BY DEF RunEnds
<1>2. i \in Prompts /\ dirs[i].man = "none" /\ DOMAIN rec[p].entries \subseteq Files
    BY DEF CheckpointInv, Slots, Captured
<1>3. /\ d.made = TRUE /\ d.man = "files" /\ d.entries = rec[p].entries
      /\ d.partial = rec[p].partial /\ d.blobs = dirs[i].blobs /\ DirFields \subseteq DOMAIN d
    BY <1>2 DEF CheckpointInv, Shapes, DirFields
<1>4. t.pc = "scan" /\ t.planned = {} /\ DOMAIN t.scan = {} /\ TuiFields \subseteq DOMAIN t
    BY DEF Idle, TuiFields
<1> HIDE DEF d, t
<1>5. /\ DOMAIN rec' = Procs /\ rec'[p] = Closed /\ \A q \in Procs \ {p} : rec'[q] = rec[q]
      /\ DOMAIN tui' = Procs /\ tui'[p] = t /\ \A q \in Procs \ {p} : tui'[q] = tui[q]
      /\ DOMAIN dirs' = Prompts /\ dirs'[i] = d /\ \A j \in Prompts \ {i} : dirs'[j] = dirs[j]
  <2>1. DOMAIN rec = Procs /\ DOMAIN tui = Procs /\ DOMAIN dirs = Prompts
      BY DEF CheckpointInv, Shapes
  <2> HIDE DEF i
  <2> QED BY <1>1, <1>2, <2>1
\* The other recorders have other directories.
<1>6. \A q \in Procs : rec'[q].open =>
          /\ q # p /\ rec'[q] = rec[q] /\ rec[q].open /\ rec[q].idx \in Prompts \ {i}
          /\ dirs'[rec[q].idx] = dirs[rec[q].idx]
  <2> TAKE q \in Procs
  <2> SUFFICES ASSUME rec'[q].open
               PROVE  /\ q # p /\ rec'[q] = rec[q] /\ rec[q].open /\ rec[q].idx \in Prompts \ {i}
                      /\ dirs'[rec[q].idx] = dirs[rec[q].idx]
      OBVIOUS
  <2>1. q # p /\ rec'[q] = rec[q] /\ rec[q].open
      BY <1>5, ClosedIs
  <2>2. rec[q].idx \in Prompts /\ rec[q].idx # i
      BY <2>1 DEF CheckpointInv, Slots
  <2> QED BY <1>5, <2>1, <2>2
<1>7. Shapes'
    BY <1>1, <1>3, <1>4, <1>5, ClosedIs DEF CheckpointInv, Shapes
<1>8. Slots'
  <2>1. /\ \A j \in Prompts : ~dirs'[j].made => dirs'[j].man = "none"
        /\ \A j \in Prompts : dirs'[j].man = "files" => DOMAIN dirs'[j].entries \subseteq Files
      BY <1>2, <1>3, <1>5 DEF CheckpointInv, Slots
  <2>2. \A q \in Procs : rec'[q].open =>
            rec'[q].idx \in Prompts /\ dirs'[rec'[q].idx].made /\ dirs'[rec'[q].idx].man = "none"
      BY <1>6 DEF CheckpointInv, Slots
  <2>3. \A q, s \in Procs : rec'[q].open /\ rec'[s].open /\ rec'[q].idx = rec'[s].idx => q = s
      BY <1>6 DEF CheckpointInv, Slots
  <2>4. \A q \in Procs : tui'[q].pc = "claim" => tui'[q].idx \in Prompts
      BY <1>4, <1>5 DEF CheckpointInv, Slots
  <2> QED BY <2>1, <2>2, <2>3, <2>4 DEF Slots
<1>9. Captured'
  <2> SUFFICES ASSUME NEW q \in Procs, rec'[q].open
      PROVE /\ DOMAIN rec'[q].entries \subseteq Files
            /\ rec'[q].partial
               \/ /\ tui'[q].planned \subseteq DOMAIN rec'[q].entries
                  /\ \A f \in DOMAIN rec'[q].entries : rec'[q].entries[f].error
                        \/ began'[rec'[q].idx][f] \in {rec'[q].entries[f].pre, Lost}
                  /\ \A f \in Files \ DOMAIN rec'[q].entries :
                        began'[rec'[q].idx][f] \in {files'[f], Lost}
      BY DEF Captured, Lost
  <2>1. rec'[q] = rec[q] /\ tui'[q] = tui[q] /\ began' = began /\ files' = files /\ rec[q].open
      BY <1>1, <1>5, <1>6
  <2> QED BY <2>1 DEF CheckpointInv, Captured
<1>10. Backed'
  <2> SUFFICES ASSUME NEW q \in Procs, rec'[q].open, rec'[q].idx \notin unattended',
                      NEW f \in DOMAIN rec'[q].entries
               PROVE  rec'[q].entries[f].error
                         \/ rec'[q].entries[f].pre \in dirs'[rec'[q].idx].blobs \cup {0}
      BY DEF Backed
  <2>1. rec'[q] = rec[q] /\ dirs'[rec[q].idx] = dirs[rec[q].idx] /\ unattended' = unattended
      BY <1>1, <1>6
  <2> QED BY <2>1 DEF CheckpointInv, Backed
<1>11. Sweeps'
  <2> SUFFICES ASSUME NEW q \in Procs
               PROVE  /\ DOMAIN tui'[q].scan \subseteq Prompts
                      /\ tui'[q].pc = "evict" =>
                            /\ Oldest(tui'[q].scan) \in Prompts
                            /\ \/ dirs'[Oldest(tui'[q].scan)].man = "cleared"
                               \/ Oldest(tui'[q].scan) \in unattended'
      BY DEF Sweeps, Oldest
  <2>1. CASE q = p
      BY <1>4, <1>5, <2>1
  <2>2. CASE q # p
    <3>1. tui'[q] = tui[q] /\ unattended' = unattended
        BY <1>1, <1>5, <2>2
    <3>2. \A j \in Prompts : dirs[j].man = "cleared" => dirs'[j].man = "cleared"
        BY <1>2, <1>5
    <3> QED BY <3>1, <3>2 DEF CheckpointInv, Sweeps
  <2> QED BY <2>1, <2>2
<1>12. PreimagesFromStart'
  <2> SUFFICES ASSUME NEW j \in Prompts, dirs'[j].man = "files", ~dirs'[j].partial,
                      NEW f \in DOMAIN dirs'[j].entries, ~dirs'[j].entries[f].error
               PROVE  began'[j][f] \in {dirs'[j].entries[f].pre, Lost}
      BY DEF PreimagesFromStart, Restorable, Lost
  <2>1. CASE j = i
    <3>1. /\ rec[p].partial = dirs'[j].partial /\ rec[p].entries = dirs'[j].entries
          /\ began' = began
        BY <1>1, <1>3, <1>5, <2>1
    <3> QED BY <2>1, <3>1 DEF CheckpointInv, Captured
  <2>2. CASE j # i
    <3>1. dirs'[j] = dirs[j] /\ began' = began
        BY <1>1, <1>5, <2>2
    <3> QED BY <3>1 DEF CheckpointInv, PreimagesFromStart, Restorable
  <2> QED BY <2>1, <2>2
<1>13. BlobsBehindManifests'
  <2> SUFFICES ASSUME NEW j \in Prompts \ unattended', dirs'[j].man = "files",
                      NEW f \in DOMAIN dirs'[j].entries, ~dirs'[j].entries[f].error
               PROVE  dirs'[j].entries[f].pre \in dirs'[j].blobs \cup {0}
      BY DEF BlobsBehindManifests, Restorable
  <2>1. CASE j = i
    <3>1. /\ rec[p].entries = dirs'[j].entries /\ dirs'[j].blobs = dirs[i].blobs
          /\ unattended' = unattended
        BY <1>1, <1>3, <1>5, <2>1
    <3> QED BY <2>1, <3>1 DEF CheckpointInv, Backed
  <2>2. CASE j # i
    <3>1. dirs'[j] = dirs[j] /\ unattended' = unattended
        BY <1>1, <1>5, <2>2
    <3> QED BY <3>1 DEF CheckpointInv, BlobsBehindManifests, Restorable
  <2> QED BY <2>1, <2>2
<1> QED BY <1>7, <1>8, <1>9, <1>10, <1>11, <1>12, <1>13 DEF CheckpointInv

\* The oldest scanned prompt is a prompt.
LEMMA OldestIn ==
    ASSUME CheckpointInv, NEW p \in Procs, DOMAIN tui[p].scan # {}
    PROVE  Oldest(tui[p].scan) \in DOMAIN tui[p].scan /\ Oldest(tui[p].scan) \in Prompts
<1>1. DOMAIN tui[p].scan \subseteq Prompts
    BY DEF CheckpointInv, Sweeps
<1>2. DOMAIN tui[p].scan \subseteq Nat
    BY <1>1 DEF Prompts
<1>3. \E i \in DOMAIN tui[p].scan : \A j \in DOMAIN tui[p].scan : i <= j
    BY <1>2, LeastOf
<1>4. Oldest(tui[p].scan) \in DOMAIN tui[p].scan
    BY <1>3 DEF Oldest
<1> QED BY <1>1, <1>4

\* A step of the sweep at directory i: the manifest is cleared if there is one, or the
\* blobs of a prompt that has none to keep are dropped.
LEMMA SweepKeeps ==
    ASSUME CheckpointInv, NEW p \in Procs, NEW i \in Prompts, NEW d, NEW t,
           DOMAIN dirs' = Prompts, dirs'[i] = d, \A j \in Prompts \ {i} : dirs'[j] = dirs[j],
           tui' = [tui EXCEPT ![p] = t],
           UNCHANGED <<files, rec, began>>, unattended \subseteq unattended',
           d.made = dirs[i].made, DirFields \subseteq DOMAIN d,
           \/ d.man = "cleared" /\ dirs[i].man # "none"
           \/ d.man = dirs[i].man /\ d.entries = dirs[i].entries /\ d.partial = dirs[i].partial,
           d.blobs = dirs[i].blobs \/ i \in unattended' \/ dirs[i].man = "cleared",
           TuiFields \subseteq DOMAIN t, t.planned \subseteq tui[p].planned,
           DOMAIN t.scan \subseteq Prompts, t.pc # "claim",
           t.pc = "evict" => Oldest(t.scan) = i /\ (d.man = "cleared" \/ i \in unattended')
    PROVE  CheckpointInv'
<1>1. /\ DOMAIN tui' = Procs /\ tui'[p] = t /\ \A q \in Procs \ {p} : tui'[q] = tui[q]
      /\ DOMAIN dirs' = Prompts /\ dirs'[i] = d /\ \A j \in Prompts \ {i} : dirs'[j] = dirs[j]
  <2>1. DOMAIN tui = Procs
      BY DEF CheckpointInv, Shapes
  <2> QED BY <2>1
<1>2. \A j \in Prompts :
          /\ dirs'[j].made = dirs[j].made /\ DirFields \subseteq DOMAIN dirs'[j]
          /\ dirs[j].man = "none" => dirs'[j].man = "none"
          /\ dirs[j].man = "cleared" => dirs'[j].man = "cleared"
          /\ dirs'[j].man = "files" =>
                /\ dirs[j].man = "files" /\ dirs'[j].entries = dirs[j].entries
                /\ dirs'[j].partial = dirs[j].partial
          /\ dirs'[j].man = "none" => dirs[j].man = "none"
          /\ dirs'[j].blobs = dirs[j].blobs \/ j \in unattended' \/ dirs[j].man = "cleared"
  <2>1. \A j \in Prompts : DirFields \subseteq DOMAIN dirs[j]
      BY DEF CheckpointInv, Shapes
  <2> QED BY <1>1, <2>1
<1>3. Shapes'
    BY <1>1, <1>2 DEF CheckpointInv, Shapes
<1>4. Slots'
  <2>1. /\ \A j \in Prompts : ~dirs'[j].made => dirs'[j].man = "none"
        /\ \A j \in Prompts : dirs'[j].man = "files" => DOMAIN dirs'[j].entries \subseteq Files
      BY <1>2 DEF CheckpointInv, Slots
  <2>2. \A q \in Procs : rec[q].open =>
            rec[q].idx \in Prompts /\ dirs'[rec[q].idx].made /\ dirs'[rec[q].idx].man = "none"
      BY <1>2 DEF CheckpointInv, Slots
  <2>3. \A q \in Procs : tui'[q].pc = "claim" => tui'[q].idx \in Prompts
      BY <1>1 DEF CheckpointInv, Slots
  <2> QED BY <2>1, <2>2, <2>3 DEF CheckpointInv, Slots
<1>5. Captured'
  <2>1. \A q \in Procs : tui'[q].planned \subseteq tui[q].planned
      BY <1>1
  <2> SUFFICES ASSUME NEW q \in Procs, rec[q].open
      PROVE /\ DOMAIN rec[q].entries \subseteq Files
            /\ rec[q].partial
               \/ /\ tui'[q].planned \subseteq DOMAIN rec[q].entries
                  /\ \A f \in DOMAIN rec[q].entries : rec[q].entries[f].error
                        \/ began[rec[q].idx][f] \in {rec[q].entries[f].pre, Lost}
                  /\ \A f \in Files \ DOMAIN rec[q].entries :
                        began[rec[q].idx][f] \in {files[f], Lost}
      BY DEF Captured, Lost
  <2> QED BY <2>1 DEF CheckpointInv, Captured
<1>6. Backed'
  <2> SUFFICES ASSUME NEW q \in Procs, rec[q].open, rec[q].idx \notin unattended',
                      NEW f \in DOMAIN rec[q].entries
               PROVE  rec[q].entries[f].error
                         \/ rec[q].entries[f].pre \in dirs'[rec[q].idx].blobs \cup {0}
      BY DEF Backed
  <2>1. rec[q].idx \in Prompts /\ dirs[rec[q].idx].man = "none" /\ rec[q].idx \notin unattended
      BY DEF CheckpointInv, Slots
  <2>2. dirs'[rec[q].idx].blobs = dirs[rec[q].idx].blobs
      BY <1>2, <2>1
  <2> QED BY <2>1, <2>2 DEF CheckpointInv, Backed
<1>7. Sweeps'
  <2> SUFFICES ASSUME NEW q \in Procs
               PROVE  /\ DOMAIN tui'[q].scan \subseteq Prompts
                      /\ tui'[q].pc = "evict" =>
                            /\ Oldest(tui'[q].scan) \in Prompts
                            /\ \/ dirs'[Oldest(tui'[q].scan)].man = "cleared"
                               \/ Oldest(tui'[q].scan) \in unattended'
      BY DEF Sweeps, Oldest
  <2>1. CASE q = p
      BY <1>1, <2>1
  <2>2. CASE q # p
    <3>1. tui'[q] = tui[q]
        BY <1>1, <2>2
    <3> QED BY <1>2, <3>1 DEF CheckpointInv, Sweeps
  <2> QED BY <2>1, <2>2
<1>8. PreimagesFromStart'
  <2> SUFFICES ASSUME NEW j \in Prompts, dirs'[j].man = "files", ~dirs'[j].partial,
                      NEW f \in DOMAIN dirs'[j].entries, ~dirs'[j].entries[f].error
               PROVE  began[j][f] \in {dirs'[j].entries[f].pre, Lost}
      BY DEF PreimagesFromStart, Restorable, Lost
  <2> QED BY <1>2 DEF CheckpointInv, PreimagesFromStart, Restorable
<1>9. BlobsBehindManifests'
  <2> SUFFICES ASSUME NEW j \in Prompts \ unattended', dirs'[j].man = "files",
                      NEW f \in DOMAIN dirs'[j].entries, ~dirs'[j].entries[f].error
               PROVE  dirs'[j].entries[f].pre \in dirs'[j].blobs \cup {0}
      BY DEF BlobsBehindManifests, Restorable
  <2>1. /\ j \notin unattended /\ dirs[j].man = "files" /\ dirs'[j].entries = dirs[j].entries
        /\ dirs'[j].blobs = dirs[j].blobs
      BY <1>2
  <2> QED BY <2>1 DEF CheckpointInv, BlobsBehindManifests, Restorable
<1> QED BY <1>3, <1>4, <1>5, <1>6, <1>7, <1>8, <1>9 DEF CheckpointInv

\* The manifest is cleared before the blobs behind it go.
LEMMA MarkKeeps == ASSUME CheckpointInv, NEW p \in Procs, MarkCleared(p) PROVE CheckpointInv'
<1> DEFINE i == Oldest(tui[p].scan)
<1>1. i \in Prompts /\ tui[p].pc = "sweep" /\ UNCHANGED <<files, rec, began>>
    BY OldestIn DEF MarkCleared, Over
<1>p. TuiFields \subseteq DOMAIN tui[p] /\ DOMAIN tui[p].scan \subseteq Prompts
      /\ DirFields \subseteq DOMAIN dirs[i] /\ DOMAIN dirs = Prompts
    BY <1>1 DEF CheckpointInv, Shapes, Sweeps
<1>2. CASE dirs[i].blobs = {}
  <2> DEFINE s == Rest(tui[p].scan)
             t == [tui[p] EXCEPT !.scan = s]
  <2>1. tui' = [tui EXCEPT ![p] = t] /\ UNCHANGED <<dirs, unattended>>
      BY <1>2 DEF MarkCleared
  <2>2. DOMAIN s \subseteq Prompts
      BY <1>p DEF Rest
  <2> HIDE DEF s
  <2>3. t.pc = "sweep" /\ t.scan = s /\ t.planned = tui[p].planned /\ TuiFields \subseteq DOMAIN t
      BY <1>1, <1>p DEF TuiFields
  <2> HIDE DEF t, i
  <2>4. Quiet(p)
      BY <1>1, <2>1, <2>2, <2>3, MoveQuiet
  <2> QED BY <2>4, QuietKeeps
<1>3. CASE dirs[i].blobs # {}
  <2> DEFINE none == dirs[i].man = "none"
             d == IF none THEN dirs[i] ELSE [dirs[i] EXCEPT !.man = "cleared", !.entries = Empty]
             t == [tui[p] EXCEPT !.pc = "evict"]
  <2>1. /\ dirs' = IF none THEN dirs
                   ELSE [dirs EXCEPT ![i].man = "cleared", ![i].entries = Empty]
        /\ unattended' = IF none THEN unattended \cup {i} ELSE unattended
        /\ tui' = [tui EXCEPT ![p] = t]
      BY <1>3 DEF MarkCleared
  <2>2. DOMAIN dirs' = Prompts /\ dirs'[i] = d /\ \A j \in Prompts \ {i} : dirs'[j] = dirs[j]
    <3>1. CASE none
        BY <1>p, <2>1, <3>1
    <3>2. CASE ~none
        BY <1>1, <1>p, <2>1, <3>2
    <3> QED BY <3>1, <3>2
  <2>3. /\ DirFields \subseteq DOMAIN d /\ d.made = dirs[i].made /\ d.blobs = dirs[i].blobs
        /\ none => d = dirs[i]
        /\ ~none => d.man = "cleared"
      BY <1>p DEF DirFields
  <2>4. t.pc = "evict" /\ t.scan = tui[p].scan /\ t.planned = tui[p].planned
        /\ TuiFields \subseteq DOMAIN t
      BY <1>p DEF TuiFields
  <2> HIDE DEF d, t
  <2> QED BY <1>1, <1>p, <2>1, <2>2, <2>3, <2>4, SweepKeeps
<1> QED BY <1>2, <1>3

LEMMA DropKeeps == ASSUME CheckpointInv, NEW p \in Procs, DropBlobs(p) PROVE CheckpointInv'
<1> DEFINE i == Oldest(tui[p].scan)
           d == [dirs[i] EXCEPT !.blobs = {}]
           s == Rest(tui[p].scan)
           n == tui[p].total - tui[p].scan[i]
           t == [tui[p] EXCEPT !.pc = "sweep", !.scan = s, !.total = n]
<1>1. /\ tui[p].pc = "evict" /\ UNCHANGED <<files, rec, began, unattended>>
      /\ dirs' = [dirs EXCEPT ![i] = d] /\ tui' = [tui EXCEPT ![p] = t]
    BY DEF DropBlobs
<1>2. i \in Prompts /\ (dirs[i].man = "cleared" \/ i \in unattended)
    BY <1>1 DEF CheckpointInv, Sweeps
<1>p. TuiFields \subseteq DOMAIN tui[p] /\ DOMAIN tui[p].scan \subseteq Prompts
      /\ DirFields \subseteq DOMAIN dirs[i] /\ DOMAIN dirs = Prompts
    BY <1>2 DEF CheckpointInv, Shapes, Sweeps
<1>3. DOMAIN s \subseteq Prompts
    BY <1>p DEF Rest
<1>4. /\ DirFields \subseteq DOMAIN d /\ d.made = dirs[i].made /\ d.man = dirs[i].man
      /\ d.entries = dirs[i].entries /\ d.partial = dirs[i].partial
    BY <1>p DEF DirFields
<1> HIDE DEF s, n
<1>5. t.pc = "sweep" /\ t.scan = s /\ t.planned = tui[p].planned /\ TuiFields \subseteq DOMAIN t
    BY <1>p DEF TuiFields
<1> HIDE DEF d, t, i
<1>6. DOMAIN dirs' = Prompts /\ dirs'[i] = d /\ \A j \in Prompts \ {i} : dirs'[j] = dirs[j]
    BY <1>1, <1>2, <1>p
<1>7. unattended \subseteq unattended' /\ (i \in unattended' \/ dirs[i].man = "cleared")
    BY <1>1, <1>2
<1> QED BY <1>1, <1>2, <1>3, <1>4, <1>5, <1>6, <1>7, SweepKeeps

\* What planning a call does to its process.
LEMMA PlanDoes ==
    ASSUME CheckpointInv, NEW p \in Procs, NEW f \in Files, PlanCall(p, f)
    PROVE  /\ DOMAIN tui' = Procs /\ \A q \in Procs \ {p} : tui'[q] = tui[q]
           /\ TuiFields \subseteq DOMAIN tui'[p] /\ tui'[p].planned = tui[p].planned \cup {f}
           /\ tui'[p].scan = tui[p].scan /\ tui'[p].pc = "plan"
<1> DEFINE n == IF tui[p].pc = "run" THEN tui[p].turns + 1 ELSE tui[p].turns
           s == tui[p].planned \cup {f}
<1>1. TuiFields \subseteq DOMAIN tui[p] /\ DOMAIN tui = Procs
    BY DEF CheckpointInv, Shapes
<1>2. tui' = [tui EXCEPT ![p].pc = "plan", ![p].planned = s, ![p].turns = n]
    BY DEF PlanCall
<1> HIDE DEF n, s
<1>3. /\ DOMAIN tui' = Procs /\ \A q \in Procs \ {p} : tui'[q] = tui[q]
      /\ TuiFields \subseteq DOMAIN tui'[p] /\ tui'[p].planned = s
      /\ tui'[p].scan = tui[p].scan /\ tui'[p].pc = "plan"
    BY <1>1, <1>2 DEF TuiFields
<1> QED BY <1>3 DEF s

\* A call is planned with its file captured, or with the manifest marked partial.
LEMMA PlanKeeps ==
    ASSUME CheckpointInv, NEW p \in Procs, NEW f \in Files, PlanCall(p, f),
           UNCHANGED <<files, began, unattended>>, NEW r, RecFields \subseteq DOMAIN r,
           DOMAIN rec' = Procs, rec'[p] = r, \A q \in Procs \ {p} : rec'[q] = rec[q],
           r.open = rec[p].open, r.idx = rec[p].idx,
           rec[p].open =>
              /\ DOMAIN r.entries \subseteq Files
              /\ r.partial \/ (~rec[p].partial /\ f \in DOMAIN r.entries)
              /\ DOMAIN rec[p].entries \subseteq DOMAIN r.entries
              /\ \A g \in DOMAIN r.entries :
                    \/ g \in DOMAIN rec[p].entries /\ r.entries[g] = rec[p].entries[g]
                    \/ r.entries[g].error
                    \/ /\ g \notin DOMAIN rec[p].entries /\ r.entries[g].pre = files[g]
                       /\ r.entries[g].pre \in dirs'[rec[p].idx].blobs \cup {0},
           DOMAIN dirs' = Prompts,
           \A j \in Prompts :
              /\ DirFields \subseteq DOMAIN dirs'[j] /\ dirs'[j].made = dirs[j].made
              /\ dirs'[j].man = dirs[j].man /\ dirs'[j].entries = dirs[j].entries
              /\ dirs'[j].partial = dirs[j].partial /\ dirs[j].blobs \subseteq dirs'[j].blobs
    PROVE  CheckpointInv'
<1>t. /\ DOMAIN tui' = Procs /\ \A q \in Procs \ {p} : tui'[q] = tui[q]
      /\ TuiFields \subseteq DOMAIN tui'[p] /\ tui'[p].planned = tui[p].planned \cup {f}
      /\ tui'[p].scan = tui[p].scan /\ tui'[p].pc = "plan"
    BY PlanDoes
<1>r. \A q \in Procs : rec'[q].open = rec[q].open /\ rec'[q].idx = rec[q].idx
    OBVIOUS
<1>1. Shapes'
    BY <1>t DEF CheckpointInv, Shapes
<1>2. Slots'
    BY <1>t, <1>r DEF CheckpointInv, Slots
<1>3. Captured'
  <2> SUFFICES ASSUME NEW q \in Procs, rec'[q].open
      PROVE /\ DOMAIN rec'[q].entries \subseteq Files
            /\ rec'[q].partial
               \/ /\ tui'[q].planned \subseteq DOMAIN rec'[q].entries
                  /\ \A g \in DOMAIN rec'[q].entries : rec'[q].entries[g].error
                        \/ began'[rec'[q].idx][g] \in {rec'[q].entries[g].pre, Lost}
                  /\ \A g \in Files \ DOMAIN rec'[q].entries :
                        began'[rec'[q].idx][g] \in {files'[g], Lost}
      BY DEF Captured, Lost
  <2>1. CASE q # p
    <3>1. rec'[q] = rec[q] /\ tui'[q] = tui[q] /\ began' = began /\ files' = files
        BY <1>t, <2>1
    <3> QED BY <3>1 DEF CheckpointInv, Captured
  <2>2. CASE q = p /\ r.partial
      BY <1>r, <2>2
  <2>3. CASE q = p /\ ~r.partial
    <3>1. /\ rec[p].open /\ ~rec[p].partial /\ f \in DOMAIN r.entries
          /\ began' = began /\ files' = files
        BY <1>r, <2>3
    <3>2. /\ tui[p].planned \subseteq DOMAIN rec[p].entries
          /\ \A g \in DOMAIN rec[p].entries : rec[p].entries[g].error
                \/ began[rec[p].idx][g] \in {rec[p].entries[g].pre, Lost}
          /\ \A g \in Files \ DOMAIN rec[p].entries : began[rec[p].idx][g] \in {files[g], Lost}
        BY <3>1 DEF CheckpointInv, Captured
    <3>3. tui'[p].planned \subseteq DOMAIN r.entries
        BY <1>t, <3>1, <3>2
    <3>4. ASSUME NEW g \in DOMAIN r.entries
          PROVE  r.entries[g].error \/ began[rec[p].idx][g] \in {r.entries[g].pre, Lost}
        BY <3>1, <3>2
    <3>5. ASSUME NEW g \in Files \ DOMAIN r.entries
          PROVE  began[rec[p].idx][g] \in {files[g], Lost}
        BY <3>1, <3>2
    <3> QED BY <2>3, <3>1, <3>3, <3>4, <3>5
  <2> QED BY <2>1, <2>2, <2>3
<1>4. Backed'
  <2> SUFFICES ASSUME NEW q \in Procs, rec'[q].open, rec'[q].idx \notin unattended',
                      NEW g \in DOMAIN rec'[q].entries
               PROVE  rec'[q].entries[g].error
                         \/ rec'[q].entries[g].pre \in dirs'[rec'[q].idx].blobs \cup {0}
      BY DEF Backed
  <2>1. /\ rec[q].open /\ rec[q].idx \in Prompts /\ rec[q].idx \notin unattended
        /\ rec'[q].idx = rec[q].idx /\ dirs[rec[q].idx].blobs \subseteq dirs'[rec[q].idx].blobs
      BY <1>r DEF CheckpointInv, Slots
  <2>2. ASSUME NEW x \in DOMAIN rec[q].entries
        PROVE  rec[q].entries[x].error \/ rec[q].entries[x].pre \in dirs'[rec[q].idx].blobs \cup {0}
      BY <2>1 DEF CheckpointInv, Backed
  <2>3. CASE q # p
      BY <2>1, <2>2, <2>3
  <2>4. CASE q = p
      BY <2>1, <2>2, <2>4
  <2> QED BY <2>3, <2>4
<1>5. Sweeps'
  <2> SUFFICES ASSUME NEW q \in Procs
               PROVE  /\ DOMAIN tui'[q].scan \subseteq Prompts
                      /\ tui'[q].pc = "evict" =>
                            /\ Oldest(tui'[q].scan) \in Prompts
                            /\ \/ dirs'[Oldest(tui'[q].scan)].man = "cleared"
                               \/ Oldest(tui'[q].scan) \in unattended'
      BY DEF Sweeps, Oldest
  <2>1. tui'[q].scan = tui[q].scan /\ (tui'[q].pc = "evict" => tui[q].pc = "evict")
      BY <1>t
  <2> QED BY <2>1 DEF CheckpointInv, Sweeps
<1>6. PreimagesFromStart'
  <2> SUFFICES ASSUME NEW j \in Prompts, dirs'[j].man = "files", ~dirs'[j].partial,
                      NEW g \in DOMAIN dirs'[j].entries, ~dirs'[j].entries[g].error
               PROVE  began[j][g] \in {dirs'[j].entries[g].pre, Lost}
      BY DEF PreimagesFromStart, Restorable, Lost
  <2> QED BY DEF CheckpointInv, PreimagesFromStart, Restorable
<1>7. BlobsBehindManifests'
  <2> SUFFICES ASSUME NEW j \in Prompts \ unattended', dirs'[j].man = "files",
                      NEW g \in DOMAIN dirs'[j].entries, ~dirs'[j].entries[g].error
               PROVE  dirs'[j].entries[g].pre \in dirs'[j].blobs \cup {0}
      BY DEF BlobsBehindManifests, Restorable
  <2>1. /\ j \notin unattended /\ dirs[j].man = "files" /\ dirs'[j].entries = dirs[j].entries
        /\ dirs[j].blobs \subseteq dirs'[j].blobs
      OBVIOUS
  <2> QED BY <2>1 DEF CheckpointInv, BlobsBehindManifests, Restorable
<1> QED BY <1>1, <1>2, <1>3, <1>4, <1>5, <1>6, <1>7 DEF CheckpointInv

\* What recording an entry does to the recorder and to its directory.
LEMMA RecordDoes ==
    ASSUME CheckpointInv, NEW p \in Procs, NEW f \in Files, NEW e, Record(p, f, e), rec[p].open,
           f \notin DOMAIN rec[p].entries
    PROVE  /\ DOMAIN rec' = Procs /\ \A q \in Procs \ {p} : rec'[q] = rec[q]
           /\ RecFields \subseteq DOMAIN rec'[p]
           /\ rec'[p].open = rec[p].open /\ rec'[p].idx = rec[p].idx
           /\ DOMAIN rec'[p].entries = DOMAIN rec[p].entries \cup {f}
           /\ rec'[p].entries[f] = e
           /\ \A g \in DOMAIN rec[p].entries : rec'[p].entries[g] = rec[p].entries[g]
           /\ rec'[p].partial <=> (rec[p].partial \/ e.error)
           /\ DOMAIN dirs' = Prompts
           /\ \A j \in Prompts :
                 /\ DirFields \subseteq DOMAIN dirs'[j] /\ dirs'[j].made = dirs[j].made
                 /\ dirs'[j].man = dirs[j].man /\ dirs'[j].entries = dirs[j].entries
                 /\ dirs'[j].partial = dirs[j].partial /\ dirs[j].blobs \subseteq dirs'[j].blobs
           /\ e.error \/ e.pre \in dirs'[rec[p].idx].blobs \cup {0}
<1> DEFINE old == rec[p].entries
           new == [g \in DOMAIN old \cup {f} |-> IF g = f THEN e ELSE old[g]]
           part == rec[p].partial \/ e.error
           i == rec[p].idx
<1>1. rec' = [rec EXCEPT ![p].entries = new, ![p].partial = part]
    BY DEF Record
<1>2. DOMAIN new = DOMAIN old \cup {f} /\ new[f] = e /\ \A g \in DOMAIN old : new[g] = old[g]
    OBVIOUS
<1>3. DOMAIN rec = Procs /\ RecFields \subseteq DOMAIN rec[p]
    BY DEF CheckpointInv, Shapes
<1>4. /\ i \in Prompts /\ DOMAIN dirs = Prompts
      /\ \A j \in Prompts : DirFields \subseteq DOMAIN dirs[j]
    BY DEF CheckpointInv, Shapes, Slots
<1> HIDE DEF new, part
<1>5. /\ DOMAIN rec' = Procs /\ \A q \in Procs \ {p} : rec'[q] = rec[q]
      /\ RecFields \subseteq DOMAIN rec'[p]
      /\ rec'[p].open = rec[p].open /\ rec'[p].idx = rec[p].idx
      /\ rec'[p].entries = new /\ rec'[p].partial = part
    BY <1>1, <1>3 DEF RecFields
<1>6. rec'[p].partial <=> (rec[p].partial \/ e.error)
    BY <1>5 DEF part
<1>7. CASE e.error \/ e.pre = 0
  <2>1. dirs' = dirs
      BY <1>7 DEF Record
  <2> QED BY <1>2, <1>4, <1>5, <1>6, <1>7, <2>1
<1>8. CASE ~(e.error \/ e.pre = 0)
  <2> DEFINE b == dirs[i].blobs \cup {e.pre}
  <2>1. dirs' = [dirs EXCEPT ![i].blobs = b]
      BY <1>8 DEF Record
  <2> HIDE DEF b
  <2>2. /\ DOMAIN dirs' = Prompts
        /\ \A j \in Prompts :
              /\ DirFields \subseteq DOMAIN dirs'[j] /\ dirs'[j].made = dirs[j].made
              /\ dirs'[j].man = dirs[j].man /\ dirs'[j].entries = dirs[j].entries
              /\ dirs'[j].partial = dirs[j].partial
              /\ dirs'[j].blobs = IF j = i THEN b ELSE dirs[j].blobs
      BY <1>4, <2>1 DEF DirFields
  <2>3. dirs[i].blobs \subseteq b /\ e.pre \in b
      BY DEF b
  <2> QED BY <1>2, <1>4, <1>5, <1>6, <2>2, <2>3
<1> QED BY <1>7, <1>8

\* The first writer of a file captures it; a later one finds it captured.
LEMMA CaptureKeeps ==
    ASSUME CheckpointInv, NEW p \in Procs, NEW f \in Files, Capture(p, f)
    PROVE  CheckpointInv'
<1>1. PlanCall(p, f) /\ UNCHANGED <<files, began, unattended>>
    BY DEF Capture
<1>2. /\ DOMAIN rec = Procs /\ RecFields \subseteq DOMAIN rec[p]
      /\ DOMAIN dirs = Prompts /\ \A j \in Prompts : DirFields \subseteq DOMAIN dirs[j]
      /\ rec[p].open => DOMAIN rec[p].entries \subseteq Files
    BY DEF CheckpointInv, Shapes, Captured
<1>3. CASE ~rec[p].open \/ f \in DOMAIN rec[p].entries
  <2>1. rec' = rec /\ dirs' = dirs
      BY <1>3 DEF Capture
  <2> QED BY <1>1, <1>2, <1>3, <2>1, PlanKeeps
<1>4. CASE rec[p].open /\ f \notin DOMAIN rec[p].entries
  <2> DEFINE e == [error |-> FALSE, pre |-> files[f]]
  <2>1. Record(p, f, e) /\ e.error = FALSE /\ e.pre = files[f]
      BY <1>4 DEF Capture
  <2> HIDE DEF e
  <2> DEFINE r == rec'[p]
  <2>2. /\ DOMAIN rec' = Procs /\ \A q \in Procs \ {p} : rec'[q] = rec[q]
        /\ RecFields \subseteq DOMAIN r /\ r.open = rec[p].open /\ r.idx = rec[p].idx
        /\ DOMAIN r.entries = DOMAIN rec[p].entries \cup {f} /\ r.entries[f] = e
        /\ \A g \in DOMAIN rec[p].entries : r.entries[g] = rec[p].entries[g]
        /\ r.partial <=> rec[p].partial
        /\ DOMAIN dirs' = Prompts
        /\ \A j \in Prompts :
              /\ DirFields \subseteq DOMAIN dirs'[j] /\ dirs'[j].made = dirs[j].made
              /\ dirs'[j].man = dirs[j].man /\ dirs'[j].entries = dirs[j].entries
              /\ dirs'[j].partial = dirs[j].partial /\ dirs[j].blobs \subseteq dirs'[j].blobs
        /\ e.pre \in dirs'[rec[p].idx].blobs \cup {0}
      BY <1>4, <2>1, RecordDoes
  <2>3. rec'[p] = r
      OBVIOUS
  <2> HIDE DEF r
  <2>4. /\ DOMAIN r.entries \subseteq Files
        /\ r.partial \/ (~rec[p].partial /\ f \in DOMAIN r.entries)
        /\ DOMAIN rec[p].entries \subseteq DOMAIN r.entries
        /\ \A g \in DOMAIN r.entries :
              \/ g \in DOMAIN rec[p].entries /\ r.entries[g] = rec[p].entries[g]
              \/ r.entries[g].error
              \/ /\ g \notin DOMAIN rec[p].entries /\ r.entries[g].pre = files[g]
                 /\ r.entries[g].pre \in dirs'[rec[p].idx].blobs \cup {0}
      BY <1>2, <1>4, <2>1, <2>2
  <2> QED BY <1>1, <2>2, <2>3, <2>4, PlanKeeps
<1> QED BY <1>3, <1>4

\* A capture that fails marks the manifest partial.
LEMMA CaptureFailsKeeps ==
    ASSUME CheckpointInv, NEW p \in Procs, NEW f \in Files, CaptureFails(p, f)
    PROVE  CheckpointInv'
<1>1. /\ PlanCall(p, f) /\ UNCHANGED <<files, began, unattended>>
      /\ rec[p].open /\ f \notin DOMAIN rec[p].entries
    BY DEF CaptureFails
<1>2. /\ DOMAIN rec = Procs /\ RecFields \subseteq DOMAIN rec[p]
      /\ DOMAIN dirs = Prompts /\ \A j \in Prompts : DirFields \subseteq DOMAIN dirs[j]
      /\ DOMAIN rec[p].entries \subseteq Files
    BY <1>1 DEF CheckpointInv, Shapes, Captured
<1>3. CASE rec' = [rec EXCEPT ![p].partial = TRUE] /\ dirs' = dirs
  <2> DEFINE r == [rec[p] EXCEPT !.partial = TRUE]
  <2>1. rec' = [rec EXCEPT ![p] = r]
      BY <1>3
  <2>2. RecFields \subseteq DOMAIN r /\ r.open = rec[p].open /\ r.idx = rec[p].idx
        /\ r.entries = rec[p].entries /\ r.partial = TRUE
      BY <1>2 DEF RecFields
  <2> HIDE DEF r
  <2>3. DOMAIN rec' = Procs /\ rec'[p] = r /\ \A q \in Procs \ {p} : rec'[q] = rec[q]
      BY <1>2, <2>1
  <2> QED BY <1>1, <1>2, <1>3, <2>2, <2>3, PlanKeeps
<1>4. CASE Record(p, f, [error |-> TRUE, pre |-> 0])
  <2> DEFINE e == [error |-> TRUE, pre |-> 0]
             r == rec'[p]
  <2>1. Record(p, f, e) /\ e.error = TRUE
      BY <1>4
  <2> HIDE DEF e
  <2>2. /\ DOMAIN rec' = Procs /\ \A q \in Procs \ {p} : rec'[q] = rec[q]
        /\ RecFields \subseteq DOMAIN r /\ r.open = rec[p].open /\ r.idx = rec[p].idx
        /\ DOMAIN r.entries = DOMAIN rec[p].entries \cup {f} /\ r.entries[f] = e
        /\ \A g \in DOMAIN rec[p].entries : r.entries[g] = rec[p].entries[g]
        /\ r.partial
        /\ DOMAIN dirs' = Prompts
        /\ \A j \in Prompts :
              /\ DirFields \subseteq DOMAIN dirs'[j] /\ dirs'[j].made = dirs[j].made
              /\ dirs'[j].man = dirs[j].man /\ dirs'[j].entries = dirs[j].entries
              /\ dirs'[j].partial = dirs[j].partial /\ dirs[j].blobs \subseteq dirs'[j].blobs
      BY <1>1, <2>1, RecordDoes
  <2>3. rec'[p] = r
      OBVIOUS
  <2> HIDE DEF r
  <2>4. /\ DOMAIN r.entries \subseteq Files
        /\ DOMAIN rec[p].entries \subseteq DOMAIN r.entries
        /\ \A g \in DOMAIN r.entries :
              \/ g \in DOMAIN rec[p].entries /\ r.entries[g] = rec[p].entries[g]
              \/ r.entries[g].error
      BY <1>2, <2>1, <2>2
  <2> QED BY <1>1, <2>2, <2>3, <2>4, PlanKeeps
<1> QED BY <1>3, <1>4 DEF CaptureFails

----------------------------------------------------------------------------
(* The theorems.                                                           *)

LEMMA InitCheckpointInv == ASSUME CheckpointInit PROVE CheckpointInv
<1>0. CheckpointInit
    OBVIOUS
<1>1. /\ \A i \in Prompts : dirs[i] = NoDir /\ DOMAIN began[i] = Files
      /\ \A p \in Procs : rec[p] = Closed /\ tui[p] = Idle
      /\ DOMAIN files = Files /\ DOMAIN dirs = Prompts /\ DOMAIN rec = Procs
      /\ DOMAIN tui = Procs /\ DOMAIN began = Prompts
    BY DEF CheckpointInit
<1>2. DirFields \subseteq DOMAIN NoDir /\ NoDir.man = "none"
    BY DEF NoDir, DirFields
<1>3. Shapes
    BY <1>1, <1>2, IdleIs, ClosedIs DEF Shapes
<1>4. Slots /\ Captured /\ Backed
    BY <1>1, <1>2, IdleIs, ClosedIs DEF Slots, Captured, Backed
<1>5. Sweeps
    BY <1>1, IdleIs DEF Sweeps
<1>6. PreimagesFromStart /\ BlobsBehindManifests
    BY <1>1, <1>2 DEF PreimagesFromStart, BlobsBehindManifests
<1> QED BY <1>3, <1>4, <1>5, <1>6 DEF CheckpointInv

LEMMA StepCheckpointInv ==
    ASSUME CheckpointInv, [CheckpointNext]_checkpointVars
    PROVE  CheckpointInv'
<1>1. ASSUME NEW p \in Procs, Step(p) PROVE CheckpointInv'
  <2>1. CASE \/ Submit(p) \/ ClaimFails(p) \/ CloseFails(p) \/ RunFails(p) \/ ScanBlobs(p)
             \/ SweepEnds(p) \/ Verify(p) \/ RestoreFails(p) \/ FilesRestored(p)
             \/ Crash(p) \/ (RunEnds(p) /\ ~rec[p].open)
             \/ (\E f \in Files : ToolFails(p, f)) \/ (\E i \in Prompts : Rewind(p, i))
      BY <2>1, QuietSteps, QuietKeeps
  <2>2. CASE Claim(p)
      BY <2>2, ClaimKeeps
  <2>3. CASE RunEnds(p) /\ rec[p].open
      BY <2>3, SaveKeeps
  <2>4. CASE MarkCleared(p)
      BY <2>4, MarkKeeps
  <2>5. CASE DropBlobs(p)
      BY <2>5, DropKeeps
  <2>6. ASSUME NEW f \in Files, Capture(p, f) PROVE CheckpointInv'
      BY <2>6, CaptureKeeps
  <2>7. ASSUME NEW f \in Files, CaptureFails(p, f) PROVE CheckpointInv'
      BY <2>7, CaptureFailsKeeps
  <2>8. ASSUME NEW f \in Files, WriteFile(p, f) \/ Apply(p, f) PROVE CheckpointInv'
      BY <2>8, WriteKeeps
  <2> QED BY <1>1, <2>1, <2>2, <2>3, <2>4, <2>5, <2>6, <2>7, <2>8 DEF Step
<1>2. ASSUME NEW f \in Files, Untracked(f) PROVE CheckpointInv'
    BY <1>2, UntrackedKeeps
<1>3. CASE UNCHANGED checkpointVars
  <2>1. /\ files' = files /\ dirs' = dirs /\ rec' = rec /\ tui' = tui /\ began' = began
        /\ unattended' = unattended
      BY <1>3 DEF checkpointVars
  <2>2. (Shapes /\ Slots /\ Captured /\ Backed)'
      BY <2>1 DEF CheckpointInv, Shapes, Slots, Captured, Backed, Lost
  <2>3. (Sweeps /\ PreimagesFromStart /\ BlobsBehindManifests)'
      BY <2>1
      DEF CheckpointInv, Sweeps, Oldest, PreimagesFromStart, BlobsBehindManifests,
          Restorable, Lost
  <2> QED BY <2>2, <2>3 DEF CheckpointInv
<1> QED BY <1>1, <1>2, <1>3 DEF CheckpointNext

LEMMA CheckpointInvHolds == CheckpointSpec => []CheckpointInv
<1>1. CheckpointInit => CheckpointInv
    BY InitCheckpointInv
<1>2. CheckpointInv /\ [CheckpointNext]_checkpointVars => CheckpointInv'
    BY StepCheckpointInv
<1> QED BY <1>1, <1>2, PTL DEF CheckpointSpec

\* PreimagesFromStart: what a complete manifest would restore is what the file held when
\* the prompt began, however many of its tools wrote the file and whoever else did in
\* between, unless the change went past the recorder.
THEOREM RestoresTheStart == CheckpointSpec => []PreimagesFromStart
<1>1. CheckpointInv => PreimagesFromStart
    BY DEF CheckpointInv
<1> QED BY <1>1, CheckpointInvHolds, PTL

\* BlobsBehindManifests: a saved manifest has its blobs, wherever a sweep or a crash of any
\* process stopped, unless the prompt was swept while it was still being recorded.
THEOREM NothingPromisedIsGone == CheckpointSpec => []BlobsBehindManifests
<1>1. CheckpointInv => BlobsBehindManifests
    BY DEF CheckpointInv
<1> QED BY <1>1, CheckpointInvHolds, PTL

\* The step clears the manifest of i or leaves it as it is.
Kept(i) == dirs[i].man # "none" =>
    \/ dirs'[i].man = "cleared"
    \/ dirs'[i].man = dirs[i].man /\ dirs'[i].entries = dirs[i].entries

LEMMA StepKeepsManifests ==
    ASSUME CheckpointInv, [CheckpointNext]_checkpointVars, NEW i \in Prompts
    PROVE  Kept(i)
<1>f. DOMAIN dirs = Prompts /\ \A j \in Prompts : DirFields \subseteq DOMAIN dirs[j]
    BY DEF CheckpointInv, Shapes
<1>0. CASE dirs' = dirs
    BY <1>0 DEF Kept
<1>1. ASSUME NEW p \in Procs, Step(p), dirs' # dirs PROVE Kept(i)
  <2>1. CASE \/ Submit(p) \/ ClaimFails(p) \/ CloseFails(p) \/ RunFails(p) \/ ScanBlobs(p)
             \/ SweepEnds(p) \/ Verify(p) \/ RestoreFails(p) \/ FilesRestored(p)
             \/ Crash(p) \/ (RunEnds(p) /\ ~rec[p].open)
             \/ (\E f \in Files : ToolFails(p, f)) \/ (\E j \in Prompts : Rewind(p, j))
    <3>1. Quiet(p)
        BY <2>1, QuietSteps
    <3> QED BY <1>1, <3>1 DEF Quiet
  <2>2. CASE Claim(p)
    <3>1. PICK j : dirs' = [dirs EXCEPT ![j].made = TRUE]
        BY <2>2 DEF Claim
    <3>2. dirs'[i].man = dirs[i].man /\ dirs'[i].entries = dirs[i].entries
        BY <1>f, <3>1 DEF DirFields
    <3> QED BY <3>2 DEF Kept
  \* The slot that is saved had no manifest.
  <2>3. CASE RunEnds(p) /\ rec[p].open
    <3> DEFINE j == rec[p].idx
               d == [dirs[j] EXCEPT !.made = TRUE, !.man = "files", !.entries = rec[p].entries,
                                    !.partial = rec[p].partial]
    <3>1. dirs' = [dirs EXCEPT ![j] = d]
        BY <2>3 DEF RunEnds
    <3> HIDE DEF d
    <3>2. CASE i = j
      <4>1. dirs[i].man = "none"
          BY <2>3, <3>2 DEF CheckpointInv, Slots
      <4> QED BY <4>1 DEF Kept
    <3>3. CASE i # j
      <4> HIDE DEF j
      <4>1. dirs'[i] = dirs[i]
          BY <1>f, <3>1, <3>3
      <4> QED BY <4>1 DEF Kept
    <3> QED BY <3>2, <3>3
  <2>4. CASE MarkCleared(p)
    <3>1. PICK j : dirs' = [dirs EXCEPT ![j].man = "cleared", ![j].entries = Empty]
        BY <1>1, <2>4 DEF MarkCleared
    <3>2. CASE i = j
      <4>1. dirs'[i].man = "cleared"
          BY <1>f, <3>1, <3>2 DEF DirFields
      <4> QED BY <4>1 DEF Kept
    <3>3. CASE i # j
      <4>1. dirs'[i] = dirs[i]
          BY <1>f, <3>1, <3>3
      <4> QED BY <4>1 DEF Kept
    <3> QED BY <3>2, <3>3
  <2>5. CASE DropBlobs(p)
    <3>1. PICK j : dirs' = [dirs EXCEPT ![j].blobs = {}]
        BY <2>5 DEF DropBlobs
    <3>2. dirs'[i].man = dirs[i].man /\ dirs'[i].entries = dirs[i].entries
        BY <1>f, <3>1 DEF DirFields
    <3> QED BY <3>2 DEF Kept
  <2>6. ASSUME NEW f \in Files, Capture(p, f) \/ CaptureFails(p, f) PROVE Kept(i)
    <3>1. PICK e : Record(p, f, e) /\ rec[p].open /\ f \notin DOMAIN rec[p].entries
        BY <1>1, <2>6 DEF Capture, CaptureFails
    <3>2. dirs'[i].man = dirs[i].man /\ dirs'[i].entries = dirs[i].entries
        BY <3>1, RecordDoes
    <3> QED BY <3>2 DEF Kept
  <2>7. ASSUME NEW f \in Files, WriteFile(p, f) \/ Apply(p, f) PROVE Kept(i)
      BY <1>1, <2>7 DEF WriteFile, Apply
  <2> QED BY <1>1, <2>1, <2>2, <2>3, <2>4, <2>5, <2>6, <2>7 DEF Step
<1>2. ASSUME NEW f \in Files, Untracked(f) PROVE dirs' = dirs
    BY <1>2 DEF Untracked
<1>3. CASE UNCHANGED checkpointVars
    BY <1>0, <1>3 DEF checkpointVars
<1> QED BY <1>0, <1>1, <1>2, <1>3 DEF CheckpointNext

\* ManifestsKept: no run and no process overwrites the manifest of another prompt; it is
\* only ever cleared.
THEOREM SlotsAreKept == CheckpointSpec => ManifestsKept
<1>1. CheckpointInv /\ [CheckpointNext]_checkpointVars
      => [\A i \in Prompts : dirs[i].man # "none" =>
            dirs'[i].man = "cleared" \/ (dirs'[i].man = dirs[i].man
                                         /\ dirs'[i].entries = dirs[i].entries)]_checkpointVars
    BY StepKeepsManifests DEF Kept
<1> QED BY <1>1, CheckpointInvHolds, PTL DEF CheckpointSpec, ManifestsKept
=============================================================================
