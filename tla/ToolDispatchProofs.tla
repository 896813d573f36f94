------------------------- MODULE ToolDispatchProofs -------------------------
(***************************************************************************)
(* The parallel dispatch for any number of calls, any conflict keys and    *)
(* any limit: calls of one key take effect in the order of the response,   *)
(* and a permit is never held by a call that waits.                        *)
(***************************************************************************)
EXTENDS ToolDispatch, SequenceTheorems, FiniteSetTheorems, TLAPS

\* A call past its key: it waits for a permit or holds one.
Working == {"permit", "granted", "running"}

\* The futures not polled yet are the last ones.
PolledInOrder ==
    \A c, d \in calls : c < d /\ st[c] = "pushed" => st[d] = "pushed"

\* A key's mutex: its owner is past the wait or has just been handed the key, and
\* came before every waiter; the waiters stand in the order of the response.
MutexFifo ==
    /\ \A k \in Keys :
          holder[k] # 0 => key[holder[k]] = k /\ st[holder[k]] \in {"key"} \cup Working
    /\ \A k \in Keys : \A i \in 1 .. Len(keyQueue[k]) :
          /\ key[keyQueue[k][i]] = k /\ st[keyQueue[k][i]] = "key"
          /\ holder[k] # 0 /\ holder[k] < keyQueue[k][i]
    /\ \A k \in Keys : \A i, j \in 1 .. Len(keyQueue[k]) :
          i < j => keyQueue[k][i] < keyQueue[k][j]

\* A keyed call works only as the owner of its key, and waits only where the
\* key will come by.
CallsQueued ==
    /\ \A c \in calls : Keyed(c) /\ st[c] \in Working => holder[key[c]] = c
    /\ \A c \in calls : st[c] = "key" =>
          /\ Keyed(c)
          /\ \/ holder[key[c]] = c
             \/ \E i \in 1 .. Len(keyQueue[key[c]]) : keyQueue[key[c]][i] = c

KeyInv == PolledInOrder /\ MutexFifo /\ CallsQueued /\ SameKeyInOrder

\* The calls that hold a permit.
Active == {c \in calls : st[c] \in {"granted", "running"}}

\* The waiters of the semaphore are distinct and none of them holds a permit.
SemFifo ==
    /\ \A i \in 1 .. Len(semQueue) : st[semQueue[i]] = "permit"
    /\ \A i, j \in 1 .. Len(semQueue) : i # j => semQueue[i] # semQueue[j]

SemInv == SemFifo /\ PermitsDoWork

----------------------------------------------------------------------------
(* Facts about the calls and the queues.                                   *)

LEMMA CallsFinite ==
    ASSUME TypeOK
    PROVE  (\A c \in calls : c \in Nat \ {0}) /\ IsFiniteSet(calls)
<1>1. calls \subseteq 1 .. MaxCalls /\ 1 \in Int /\ MaxCalls \in Int
    BY DispatchAssumption DEF TypeOK
<1>2. IsFiniteSet(1 .. MaxCalls)
    BY <1>1, FS_Interval
<1>3. IsFiniteSet(calls)
    BY <1>1, <1>2, FS_Subset
<1>4. \A c \in calls : c \in Nat \ {0}
    BY <1>1
<1> QED BY <1>3, <1>4

\* The head and the tail of a queue, by their places in it.
LEMMA QueueParts ==
    ASSUME NEW S, NEW q \in Seq(S), q # <<>>
    PROVE  /\ Len(q) \in Nat \ {0} /\ Head(q) = q[1] /\ q[1] \in S
           /\ Tail(q) \in Seq(S) /\ Len(Tail(q)) = Len(q) - 1
           /\ \A i \in 1 .. Len(q) - 1 : Tail(q)[i] = q[i + 1]
<1>1. Len(q) \in Nat \ {0}
    BY EmptySeq
<1>2. q[1] \in S
    BY <1>1, ElementOfSeq
<1> QED BY <1>1, <1>2, HeadTailProperties

\* A permit taken or waited for: what becomes of the call that asks for it.
LEMMA AcquireEffect ==
    ASSUME TypeOK, SemInv, NEW c \in calls, AcquirePermit(c), calls' = calls,
           st[c] \notin Working
    PROVE  /\ st' \in [calls -> {"pushed", "key", "permit", "granted", "running", "done"}]
           /\ st'[c] \in {"granted", "permit"}
           /\ \A d \in calls : d # c => st'[d] = st[d]
           /\ free' \in 0 .. Limit /\ semQueue' \in Seq(calls)
           /\ SemInv'
<1>1. /\ st \in [calls -> {"pushed", "key", "permit", "granted", "running", "done"}]
      /\ semQueue \in Seq(calls) /\ free \in 0 .. Limit /\ Limit \in Nat \ {0}
    BY DispatchAssumption DEF TypeOK
<1>2. IsFiniteSet(Active)
    BY CallsFinite, FS_Subset DEF Active
<1>3. Cardinality(Active) \in Nat /\ c \notin Active
    BY <1>2, FS_CardinalityType DEF Active, Working
<1>4. CASE free > 0
  <2>1. free' = free - 1 /\ st' = [st EXCEPT ![c] = "granted"] /\ semQueue' = semQueue
      BY <1>4 DEF AcquirePermit
  <2>2. semQueue = <<>>
      BY <1>1, <1>4 DEF SemInv, PermitsDoWork
  <2>3. Active' = Active \cup {c}
      BY <1>1, <2>1 DEF Active
  <2>4. Cardinality(Active') = Cardinality(Active) + 1
      BY <1>2, <1>3, <2>3, FS_AddElement
  <2>5. free' + Cardinality(Active') = Limit
      BY <1>1, <1>3, <2>1, <2>4 DEF SemInv, PermitsDoWork, Active
  <2>6. SemFifo' /\ semQueue' = <<>>
      BY <2>1, <2>2 DEF SemFifo
  <2>7. PermitsDoWork'
      BY <2>5, <2>6 DEF PermitsDoWork, Active
  <2> QED BY <1>1, <1>4, <2>1, <2>6, <2>7 DEF SemInv
<1>5. CASE ~(free > 0)
  <2>1. /\ semQueue' = Append(semQueue, c) /\ st' = [st EXCEPT ![c] = "permit"]
        /\ free' = free
      BY <1>5 DEF AcquirePermit
  <2>2. free = 0
      BY <1>1, <1>5
  <2>3. Active' = Active
      BY <1>1, <1>3, <2>1 DEF Active, Working
  <2>4. PermitsDoWork'
      BY <2>1, <2>2, <2>3 DEF SemInv, PermitsDoWork, Active
  <2>5. /\ semQueue' \in Seq(calls) /\ Len(semQueue') = Len(semQueue) + 1
        /\ \A i \in 1 .. Len(semQueue) : semQueue'[i] = semQueue[i]
        /\ semQueue'[Len(semQueue) + 1] = c /\ Len(semQueue) \in Nat
      BY <1>1, <2>1, AppendProperties, LenProperties
  <2>6. \A i \in 1 .. Len(semQueue) :
            semQueue[i] \in calls /\ st[semQueue[i]] = "permit" /\ semQueue[i] # c
      BY <1>1, ElementOfSeq DEF SemInv, SemFifo, Working
  <2>7. \A i \in 1 .. Len(semQueue') :
            i \in 1 .. Len(semQueue) \/ i = Len(semQueue) + 1
      BY <2>5
  <2>8. \A i \in 1 .. Len(semQueue') : st'[semQueue'[i]] = "permit"
      BY <1>1, <2>1, <2>5, <2>6, <2>7
  <2>9. \A i, j \in 1 .. Len(semQueue') : i # j => semQueue'[i] # semQueue'[j]
      BY <2>5, <2>6, <2>7 DEF SemInv, SemFifo
  <2> QED BY <1>1, <2>1, <2>4, <2>5, <2>8, <2>9 DEF SemInv, SemFifo
<1> QED BY <1>4, <1>5

\* A call that returns hands its permit to the first waiter or gives it back.
LEMMA ReleaseEffect ==
    ASSUME TypeOK, SemInv, NEW c \in calls, st[c] \in {"granted", "running"},
           ReleaseSem([st EXCEPT ![c] = "done"]), calls' = calls
    PROVE  /\ st' \in [calls -> {"pushed", "key", "permit", "granted", "running", "done"}]
           /\ st'[c] = "done"
           /\ \A d \in calls : d # c =>
                 st'[d] = st[d] \/ (st[d] = "permit" /\ st'[d] = "granted")
           /\ free' \in 0 .. Limit /\ semQueue' \in Seq(calls)
           /\ SemInv'
<1>1. /\ st \in [calls -> {"pushed", "key", "permit", "granted", "running", "done"}]
      /\ semQueue \in Seq(calls) /\ free \in 0 .. Limit /\ Limit \in Nat \ {0}
    BY DispatchAssumption DEF TypeOK
<1>2. IsFiniteSet(Active)
    BY CallsFinite, FS_Subset DEF Active
<1>3. Cardinality(Active) \in Nat /\ c \in Active
    BY <1>2, FS_CardinalityType DEF Active
<1>4. /\ Cardinality(Active \ {c}) = Cardinality(Active) - 1
      /\ IsFiniteSet(Active \ {c})
    BY <1>2, <1>3, FS_RemoveElement
<1>5. free + Cardinality(Active) = Limit
    BY DEF SemInv, PermitsDoWork, Active
<1>6. Cardinality(Active) # 0
    BY <1>2, <1>3, FS_EmptySet
<1>7. CASE semQueue = <<>>
  <2>1. free' = free + 1 /\ st' = [st EXCEPT ![c] = "done"] /\ semQueue' = semQueue
      BY <1>7 DEF ReleaseSem
  <2>2. Active' = Active \ {c}
      BY <1>1, <2>1 DEF Active
  <2>3. free' + Cardinality(Active') = Limit /\ free' \in 0 .. Limit
      BY <1>1, <1>3, <1>4, <1>5, <1>6, <2>1, <2>2
  <2>4. SemInv'
      BY <1>7, <2>1, <2>3 DEF SemInv, SemFifo, PermitsDoWork, Active
  <2> QED BY <1>1, <2>1, <2>3, <2>4
<1>8. CASE semQueue # <<>>
  <2> DEFINE h == Head(semQueue)
  <2>1. /\ semQueue' = Tail(semQueue) /\ free' = free
        /\ st' = [[st EXCEPT ![c] = "done"] EXCEPT ![h] = "granted"]
      BY <1>8 DEF ReleaseSem
  <2>2. /\ Len(semQueue) \in Nat \ {0} /\ h = semQueue[1] /\ h \in calls
        /\ semQueue' \in Seq(calls) /\ Len(semQueue') = Len(semQueue) - 1
        /\ \A i \in 1 .. Len(semQueue) - 1 : semQueue'[i] = semQueue[i + 1]
      BY <1>1, <1>8, <2>1, QueueParts
  <2>3. st[h] = "permit" /\ h # c /\ h \notin Active
      BY <2>2 DEF SemInv, SemFifo, Active
  <2> HIDE DEF h
  <2>4. /\ st' \in [calls -> {"pushed", "key", "permit", "granted", "running", "done"}]
        /\ \A d \in calls : st'[d] = IF d = h THEN "granted"
                                      ELSE IF d = c THEN "done" ELSE st[d]
      BY <1>1, <2>1, <2>2
  <2>5. Active' = (Active \ {c}) \cup {h}
      BY <2>2, <2>3, <2>4 DEF Active
  <2>6. Cardinality(Active') = Cardinality(Active)
      BY <1>3, <1>4, <2>3, <2>5, FS_AddElement
  <2>7. PermitsDoWork'
    <3>1. free = 0
        BY <1>8 DEF SemInv, PermitsDoWork
    <3> QED BY <1>5, <2>1, <2>6, <3>1 DEF PermitsDoWork, Active
  <2>8. \A i \in 1 .. Len(semQueue') :
            /\ i + 1 \in 1 .. Len(semQueue) /\ i + 1 # 1 /\ semQueue'[i] = semQueue[i + 1]
      BY <2>2
  <2>9. \A i \in 1 .. Len(semQueue') : st'[semQueue'[i]] = "permit"
    <3> SUFFICES ASSUME NEW i \in 1 .. Len(semQueue') PROVE st'[semQueue'[i]] = "permit"
        OBVIOUS
    <3>1. semQueue[i + 1] # h /\ st[semQueue[i + 1]] = "permit" /\ 1 \in 1 .. Len(semQueue)
        BY <2>2, <2>8 DEF SemInv, SemFifo
    <3>2. semQueue[i + 1] \in calls
        BY <1>1, <2>8, ElementOfSeq
    <3> QED BY <2>4, <2>8, <3>1, <3>2
  <2>10. \A i, j \in 1 .. Len(semQueue') : i # j => semQueue'[i] # semQueue'[j]
    <3> SUFFICES ASSUME NEW i \in 1 .. Len(semQueue'), NEW j \in 1 .. Len(semQueue'), i # j
                 PROVE  semQueue'[i] # semQueue'[j]
        OBVIOUS
    <3>1. i + 1 # j + 1
        BY <2>2
    <3> QED BY <2>8, <3>1 DEF SemInv, SemFifo
  <2> QED BY <2>1, <2>2, <2>3, <2>4, <2>7, <2>9, <2>10, <1>1 DEF SemInv, SemFifo
<1> QED BY <1>7, <1>8

----------------------------------------------------------------------------
(* The semaphore.                                                          *)

\* Handing a key over keeps the owners and the queues calls.
LEMMA ReleaseKeyTyping ==
    ASSUME TypeOK, NEW c \in calls, ReleaseKey(c)
    PROVE  holder' \in [Keys -> calls \cup {0}] /\ keyQueue' \in [Keys -> Seq(calls)]
<1>1. /\ holder \in [Keys -> calls \cup {0}] /\ keyQueue \in [Keys -> Seq(calls)]
      /\ key \in [calls -> Keys \cup {NoKey}]
    BY DEF TypeOK
<1>2. CASE ~Keyed(c)
    BY <1>1, <1>2 DEF ReleaseKey
<1>3. CASE Keyed(c)
  <2> DEFINE k == key[c]
             q == keyQueue[k]
  <2>1. k \in Keys /\ q \in Seq(calls)
      BY <1>1, <1>3 DEF Keyed
  <2>2. /\ holder' = [holder EXCEPT ![k] = IF q = <<>> THEN 0 ELSE Head(q)]
        /\ keyQueue' = [keyQueue EXCEPT ![k] = IF q = <<>> THEN q ELSE Tail(q)]
      BY <1>3 DEF ReleaseKey
  <2>3. q # <<>> => Head(q) \in calls /\ Tail(q) \in Seq(calls)
      BY <2>1, QueueParts
  <2> HIDE DEF k, q
  <2> QED BY <1>1, <2>1, <2>2, <2>3
<1> QED BY <1>2, <1>3

\* Every step keeps the types and the semaphore's books.
LEMMA StepSem == TypeOK /\ SemInv /\ [Next]_vars => TypeOK' /\ SemInv'
<1> SUFFICES ASSUME TypeOK, SemInv, [Next]_vars PROVE TypeOK' /\ SemInv'
    OBVIOUS
<1>0. /\ calls \subseteq 1 .. MaxCalls /\ key \in [calls -> Keys \cup {NoKey}]
      /\ st \in [calls -> {"pushed", "key", "permit", "granted", "running", "done"}]
      /\ holder \in [Keys -> calls \cup {0}] /\ keyQueue \in [Keys -> Seq(calls)]
      /\ result \in [calls -> {"none", "ok", "error", "cancelled"}]
      /\ free \in 0 .. Limit /\ semQueue \in Seq(calls)
    BY DEF TypeOK
<1>1. CASE UNCHANGED vars
    BY <1>1 DEF vars, TypeOK, SemInv, SemFifo, PermitsDoWork
<1>2. CASE Cancel
    BY <1>2 DEF Cancel, TypeOK, SemInv, SemFifo, PermitsDoWork
<1>3. ASSUME NEW c \in calls, Keyed(c), FirstPoll(c), holder[key[c]] # 0
      PROVE  TypeOK' /\ SemInv'
  <2>1. /\ keyQueue' = [keyQueue EXCEPT ![key[c]] = Append(@, c)]
        /\ st' = [st EXCEPT ![c] = "key"] /\ st[c] = "pushed"
        /\ UNCHANGED <<holder, free, semQueue, calls, key, cancelled, result>>
      BY <1>3 DEF FirstPoll, IsNext
  <2>2. key[c] \in Keys
      BY <1>0, <1>3 DEF Keyed
  <2>3. keyQueue' \in [Keys -> Seq(calls)]
      BY <1>0, <2>1, <2>2
  <2>4. TypeOK'
      BY <1>0, <2>1, <2>3 DEF TypeOK
  <2>5. Active' = Active
      BY <1>0, <2>1 DEF Active
  <2>6. SemFifo'
    <3>1. \A i \in 1 .. Len(semQueue) : semQueue[i] \in calls /\ semQueue[i] # c
        BY <1>0, <2>1, ElementOfSeq DEF SemInv, SemFifo
    <3> QED BY <1>0, <2>1, <3>1 DEF SemInv, SemFifo
  <2> QED BY <2>1, <2>4, <2>5, <2>6 DEF SemInv, PermitsDoWork, Active
<1>4. ASSUME NEW c \in calls, ~(Keyed(c) /\ holder[key[c]] # 0), FirstPoll(c)
      PROVE  TypeOK' /\ SemInv'
  <2>1. /\ holder' = IF Keyed(c) THEN [holder EXCEPT ![key[c]] = c] ELSE holder
        /\ AcquirePermit(c) /\ st[c] = "pushed"
        /\ UNCHANGED <<keyQueue, calls, key, cancelled, result>>
      BY <1>4 DEF FirstPoll, IsNext
  <2>2. holder' \in [Keys -> calls \cup {0}]
      BY <1>0, <2>1 DEF Keyed
  <2> QED BY <1>0, <2>1, <2>2, AcquireEffect DEF TypeOK, Working
<1>5. ASSUME NEW c \in calls, KeyPoll(c) PROVE TypeOK' /\ SemInv'
    BY <1>0, <1>5, AcquireEffect DEF KeyPoll, TypeOK, Working
<1>6. ASSUME NEW c \in calls, Invoke(c) PROVE TypeOK' /\ SemInv'
  <2>1. /\ st[c] = "granted" /\ st' = [st EXCEPT ![c] = "running"]
        /\ UNCHANGED <<holder, keyQueue, free, semQueue, calls, key, cancelled, result>>
      BY <1>6 DEF Invoke
  <2>2. TypeOK' /\ Active' = Active
      BY <1>0, <2>1 DEF TypeOK, Active
  <2>3. SemFifo'
    <3>1. \A i \in 1 .. Len(semQueue) : semQueue[i] \in calls /\ semQueue[i] # c
        BY <1>0, <2>1, ElementOfSeq DEF SemInv, SemFifo
    <3> QED BY <1>0, <2>1, <3>1 DEF SemInv, SemFifo
  <2> QED BY <2>1, <2>2, <2>3 DEF SemInv, PermitsDoWork, Active
<1>7. ASSUME NEW c \in calls, NEW r \in {"ok", "error", "cancelled"}, Return(c, r),
             st[c] \in {"granted", "running"}
      PROVE  TypeOK' /\ SemInv'
  <2>1. /\ ReleaseSem([st EXCEPT ![c] = "done"]) /\ ReleaseKey(c)
        /\ result' = [result EXCEPT ![c] = r] /\ UNCHANGED <<calls, key, cancelled>>
      BY <1>7 DEF Return
  <2>2. result' \in [calls -> {"none", "ok", "error", "cancelled"}]
      BY <1>0, <2>1
  <2>3. holder' \in [Keys -> calls \cup {0}] /\ keyQueue' \in [Keys -> Seq(calls)]
      BY <2>1, ReleaseKeyTyping
  <2> QED BY <1>0, <1>7, <2>1, <2>2, <2>3, ReleaseEffect DEF TypeOK
<1>8. ASSUME NEW c \in calls, InvokeCancelled(c) \/ Returns(c) PROVE TypeOK' /\ SemInv'
    BY <1>7, <1>8 DEF InvokeCancelled, Returns
<1> QED BY <1>1, <1>2, <1>3, <1>4, <1>5, <1>6, <1>8 DEF Next, Poll

LEMMA InitSem == Init => TypeOK /\ SemInv
<1> SUFFICES ASSUME Init PROVE TypeOK /\ SemInv
    OBVIOUS
<1>1. PICK n \in 0 .. MaxCalls : calls = 1 .. n
    BY DEF Init
<1>2. calls \subseteq 1 .. MaxCalls
    BY <1>1, DispatchAssumption
<1>3. keyQueue \in [Keys -> Seq(calls)] /\ semQueue \in Seq(calls)
  <2>1. <<>> \in Seq(calls)
      BY EmptySeq
  <2> QED BY <2>1 DEF Init
<1>4. TypeOK
  <2>1. holder \in [Keys -> calls \cup {0}] /\ free \in 0 .. Limit
      BY DispatchAssumption DEF Init
  <2>2. /\ key \in [calls -> Keys \cup {NoKey}] /\ cancelled \in BOOLEAN
        /\ st \in [calls -> {"pushed", "key", "permit", "granted", "running", "done"}]
        /\ result \in [calls -> {"none", "ok", "error", "cancelled"}]
      BY DEF Init
  <2> QED BY <1>2, <1>3, <2>1, <2>2 DEF TypeOK
<1>5. Active = {}
    BY DEF Init, Active
<1>6. free + Cardinality(Active) = Limit
    BY <1>5, FS_EmptySet, DispatchAssumption DEF Init
<1>7. SemFifo
    BY DEF Init, SemFifo
<1> QED BY <1>4, <1>6, <1>7 DEF SemInv, PermitsDoWork, Active, Init

\* The futures, the mutexes and the semaphore stay in their types.
THEOREM DispatchTypeCorrect == Spec => []TypeOK
BY InitSem, StepSem, PTL DEF Spec

\* Every permit that is not free is held by a call past its key, and a call waits
\* for one only while none is free: parallel_tool_limit calls make progress
\* however many wait for the keys of others.
THEOREM PermitsNeverIdle == Spec => []PermitsDoWork
<1>1. SemInv => PermitsDoWork
    BY DEF SemInv
<1> QED BY <1>1, InitSem, StepSem, PTL DEF Spec

----------------------------------------------------------------------------
(* The keys.                                                               *)

\* What the mutexes have to say about the calls of one key: every call that came
\* before its owner is done.
LEMMA OwnerFirst ==
    ASSUME TypeOK, KeyInv, NEW c \in calls, NEW d \in calls, c < d, Keyed(c),
           holder[key[c]] = d, st[d] # "pushed"
    PROVE  st[c] = "done"
<1> DEFINE k == key[c]
           q == keyQueue[k]
<1>1. k \in Keys /\ holder[k] = d /\ c \in Nat /\ d \in Nat
    BY CallsFinite DEF TypeOK, Keyed
<1>2. st[c] # "pushed"
    BY DEF KeyInv, PolledInOrder
<1>3. st[c] \notin Working
    BY <1>1 DEF KeyInv, CallsQueued
<1>4. st[c] # "key"
  <2> SUFFICES ASSUME st[c] = "key" PROVE FALSE
      OBVIOUS
  <2>1. PICK i \in 1 .. Len(q) : q[i] = c
      BY <1>1 DEF KeyInv, CallsQueued
  <2>2. holder[k] < q[i]
      BY <1>1 DEF KeyInv, MutexFifo
  <2> QED BY <1>1, <2>1, <2>2
<1>5. st[c] \in {"pushed", "key", "permit", "granted", "running", "done"}
    BY DEF TypeOK
<1> QED BY <1>2, <1>3, <1>4, <1>5 DEF Working

\* A call that finds its key taken joins the end of the key's queue.
LEMMA KeyWaits ==
    ASSUME TypeOK, KeyInv, NEW c \in calls, FirstPoll(c), Keyed(c), holder[key[c]] # 0
    PROVE  KeyInv'
<1> DEFINE k == key[c]
           q == keyQueue[k]
<1>0. /\ key \in [calls -> Keys \cup {NoKey}]
      /\ st \in [calls -> {"pushed", "key", "permit", "granted", "running", "done"}]
      /\ holder \in [Keys -> calls \cup {0}] /\ keyQueue \in [Keys -> Seq(calls)]
      /\ \A d \in calls : d \in Nat
    BY CallsFinite DEF TypeOK
<1>1. /\ keyQueue' = [keyQueue EXCEPT ![k] = Append(q, c)]
      /\ st' = [st EXCEPT ![c] = "key"] /\ IsNext(c)
      /\ UNCHANGED <<holder, calls, key>>
    BY DEF FirstPoll
<1>2. k \in Keys /\ q \in Seq(calls) /\ st[c] = "pushed"
    BY <1>0, <1>1 DEF Keyed, IsNext
<1>3. \A d \in calls : st'[d] = IF d = c THEN "key" ELSE st[d]
    BY <1>0, <1>1
<1>4. \A d \in calls : st[d] # "pushed" => d < c
    BY <1>0, <1>2 DEF KeyInv, PolledInOrder
<1>5. /\ Len(q) \in Nat /\ keyQueue'[k] = Append(q, c) /\ Len(keyQueue'[k]) = Len(q) + 1
      /\ \A i \in 1 .. Len(q) : keyQueue'[k][i] = q[i] /\ q[i] \in calls
      /\ keyQueue'[k][Len(q) + 1] = c
    BY <1>0, <1>1, <1>2, AppendProperties, LenProperties, ElementOfSeq
<1>6. \A l \in Keys : l # k => keyQueue'[l] = keyQueue[l]
    BY <1>0, <1>1
<1>7. \A l \in Keys : \A i \in 1 .. Len(keyQueue[l]) : keyQueue[l][i] \in calls
    BY <1>0, ElementOfSeq
<1>8. \A i \in 1 .. Len(keyQueue'[k]) : i \in 1 .. Len(q) \/ i = Len(q) + 1
    BY <1>5
<1> HIDE DEF k, q
<1>9. PolledInOrder'
    BY <1>0, <1>1, <1>3 DEF KeyInv, PolledInOrder, IsNext
<1>10. \A l \in Keys : holder[l] # 0 => holder[l] \in calls /\ key[holder[l]] = l
                                        /\ st'[holder[l]] = st[holder[l]]
                                        /\ st[holder[l]] \in {"key"} \cup Working
    BY <1>0, <1>2, <1>3 DEF KeyInv, MutexFifo, Working
<1>11. MutexFifo'
  <2>1. \A l \in Keys :
            holder'[l] # 0 => key'[holder'[l]] = l /\ st'[holder'[l]] \in {"key"} \cup Working
      BY <1>1, <1>10
  <2>2. ASSUME NEW l \in Keys, NEW i \in 1 .. Len(keyQueue'[l])
        PROVE  /\ key'[keyQueue'[l][i]] = l /\ st'[keyQueue'[l][i]] = "key"
               /\ holder'[l] # 0 /\ holder'[l] < keyQueue'[l][i]
    <3>1. ASSUME i \in 1 .. Len(keyQueue[l]), keyQueue'[l][i] = keyQueue[l][i]
          PROVE  /\ key'[keyQueue'[l][i]] = l /\ st'[keyQueue'[l][i]] = "key"
                 /\ holder'[l] # 0 /\ holder'[l] < keyQueue'[l][i]
        BY <1>1, <1>3, <1>7, <3>1 DEF KeyInv, MutexFifo
    <3>2. CASE l # k
        BY <1>6, <3>1, <3>2
    <3>3. CASE l = k /\ i \in 1 .. Len(q)
        BY <1>5, <3>1, <3>3 DEF q
    <3>4. CASE l = k /\ i = Len(q) + 1
      <4>1. keyQueue'[l][i] = c /\ st'[c] = "key" /\ key'[c] = l /\ holder'[l] # 0
          BY <1>1, <1>3, <1>5, <3>4 DEF k
      <4>2. holder[l] \in calls /\ st[holder[l]] # "pushed"
          BY <1>10, <1>1, <4>1 DEF Working
      <4> QED BY <1>1, <1>4, <4>1, <4>2
    <3> QED BY <1>8, <3>2, <3>3, <3>4
  <2>3. ASSUME NEW l \in Keys, NEW i \in 1 .. Len(keyQueue'[l]),
               NEW j \in 1 .. Len(keyQueue'[l]), i < j
        PROVE  keyQueue'[l][i] < keyQueue'[l][j]
    <3>1. CASE l # k
        BY <1>6, <2>3, <3>1 DEF KeyInv, MutexFifo
    <3>2. CASE l = k /\ i \in 1 .. Len(q) /\ j \in 1 .. Len(q)
        BY <1>5, <2>3, <3>2 DEF KeyInv, MutexFifo, q
    <3>3. CASE l = k /\ i \in 1 .. Len(q) /\ j = Len(q) + 1
      <4>1. q[i] \in calls /\ st[q[i]] = "key" /\ keyQueue'[l][i] = q[i]
          BY <1>2, <1>5, <3>3 DEF KeyInv, MutexFifo, q
      <4> QED BY <1>4, <1>5, <3>3, <4>1
    <3>4. ~(i = Len(q) + 1 /\ l = k)
        BY <1>5, <2>3
    <3> QED BY <1>8, <3>1, <3>2, <3>3, <3>4
  <2> QED BY <2>1, <2>2, <2>3 DEF MutexFifo
<1>12. CallsQueued'
  <2>1. \A d \in calls : key[d] # NoKey /\ st'[d] \in Working => holder[key[d]] = d
      BY <1>3 DEF KeyInv, CallsQueued, Working, Keyed
  <2>2. ASSUME NEW d \in calls, st'[d] = "key"
        PROVE  /\ key[d] # NoKey
               /\ \/ holder[key[d]] = d
                  \/ \E i \in 1 .. Len(keyQueue'[key[d]]) : keyQueue'[key[d]][i] = d
    <3>1. CASE d = c
      <4>1. Len(q) + 1 \in 1 .. Len(keyQueue'[k])
          BY <1>5
      <4> QED BY <1>5, <3>1, <4>1 DEF k, Keyed
    <3>2. CASE d # c
      <4>1. /\ key[d] # NoKey /\ key[d] \in Keys
            /\ \/ holder[key[d]] = d
               \/ \E i \in 1 .. Len(keyQueue[key[d]]) : keyQueue[key[d]][i] = d
          BY <1>0, <1>3, <2>2, <3>2 DEF KeyInv, CallsQueued, Keyed
      <4>2. \A i \in 1 .. Len(keyQueue[key[d]]) :
                /\ i \in 1 .. Len(keyQueue'[key[d]])
                /\ keyQueue'[key[d]][i] = keyQueue[key[d]][i]
          BY <1>5, <1>6, <4>1 DEF q
      <4> QED BY <4>1, <4>2
    <3> QED BY <3>1, <3>2
  <2> QED BY <1>1, <2>1, <2>2 DEF CallsQueued, Keyed
<1>13. SameKeyInOrder'
    BY <1>1, <1>2, <1>3 DEF KeyInv, SameKeyInOrder, Keyed
<1> QED BY <1>9, <1>11, <1>12, <1>13 DEF KeyInv

\* The owner of a key, or a call without one, goes on: nothing changes hands.
LEMMA OwnerGoesOn ==
    ASSUME TypeOK, KeyInv, NEW c \in calls, st[c] \in {"key"} \cup Working,
           Keyed(c) => holder[key[c]] = c,
           st'[c] \in Working, \A d \in calls : d # c => st'[d] = st[d],
           UNCHANGED <<calls, key, holder, keyQueue>>
    PROVE  KeyInv'
<1>0. /\ key \in [calls -> Keys \cup {NoKey}] /\ holder \in [Keys -> calls \cup {0}]
      /\ \A d \in calls : d \in Nat \ {0}
      /\ \A l \in Keys : \A i \in 1 .. Len(keyQueue[l]) : keyQueue[l][i] \in calls
    BY CallsFinite, ElementOfSeq DEF TypeOK
<1>1. PolledInOrder'
    BY DEF KeyInv, PolledInOrder, Working
<1>2. \A l \in Keys : \A i \in 1 .. Len(keyQueue[l]) : keyQueue[l][i] # c
  <2> SUFFICES ASSUME NEW l \in Keys, NEW i \in 1 .. Len(keyQueue[l]), keyQueue[l][i] = c
               PROVE  FALSE
      OBVIOUS
  <2>1. key[c] = l /\ st[c] = "key" /\ holder[l] < c
      BY DEF KeyInv, MutexFifo
  <2>2. holder[l] = c
      BY <2>1 DEF KeyInv, CallsQueued
  <2> QED BY <1>0, <2>1, <2>2
<1>3. MutexFifo'
  <2>1. \A l \in Keys :
            holder[l] # 0 => key[holder[l]] = l /\ st'[holder[l]] \in {"key"} \cup Working
      BY <1>0 DEF KeyInv, MutexFifo
  <2>2. \A l \in Keys : \A i \in 1 .. Len(keyQueue[l]) :
            st'[keyQueue[l][i]] = st[keyQueue[l][i]]
      BY <1>0, <1>2
  <2> QED BY <2>1, <2>2 DEF KeyInv, MutexFifo
<1>4. CallsQueued'
  <2>1. \A d \in calls : st'[d] = "key" => st[d] = "key"
      BY DEF Working
  <2>2. \A d \in calls : key[d] # NoKey /\ st'[d] \in Working => holder[key[d]] = d
      BY DEF KeyInv, CallsQueued, Keyed
  <2> QED BY <2>1, <2>2 DEF KeyInv, CallsQueued, Keyed
<1>5. SameKeyInOrder'
  <2> SUFFICES ASSUME NEW b \in calls, NEW d \in calls, b < d, key[b] # NoKey,
                      key[b] = key[d], st'[d] \in {"granted", "running", "done"}
               PROVE  st'[b] = "done"
      BY DEF SameKeyInOrder, Keyed
  <2>1. CASE d = c
    <3>1. st[b] = "done" /\ b # c
        BY <1>0, <2>1, OwnerFirst DEF Keyed, Working
    <3> QED BY <3>1
  <2>2. CASE d # c
    <3>1. st[b] = "done"
        BY <2>2 DEF KeyInv, SameKeyInOrder, Keyed
    <3> QED BY <3>1 DEF Working
  <2> QED BY <2>1, <2>2
<1> QED BY <1>1, <1>3, <1>4, <1>5 DEF KeyInv

\* A call that finds its key free, or has none, takes it in its first poll.
LEMMA KeyTaken ==
    ASSUME TypeOK, KeyInv, NEW c \in calls, IsNext(c), ~(Keyed(c) /\ holder[key[c]] # 0),
           holder' = IF Keyed(c) THEN [holder EXCEPT ![key[c]] = c] ELSE holder,
           st'[c] \in Working, \A d \in calls : d # c => st'[d] = st[d],
           UNCHANGED <<calls, key, keyQueue>>
    PROVE  KeyInv'
<1>0. /\ key \in [calls -> Keys \cup {NoKey}] /\ holder \in [Keys -> calls \cup {0}]
      /\ \A d \in calls : d \in Nat \ {0}
      /\ \A l \in Keys : \A i \in 1 .. Len(keyQueue[l]) : keyQueue[l][i] \in calls
      /\ st[c] = "pushed"
    BY CallsFinite, ElementOfSeq DEF TypeOK, IsNext
<1>1. PolledInOrder'
    BY <1>0 DEF KeyInv, PolledInOrder, Working, IsNext
<1>2. \A l \in Keys : holder'[l] = IF Keyed(c) /\ l = key[c] THEN c ELSE holder[l]
    BY <1>0
<1>3. \A l \in Keys : \A i \in 1 .. Len(keyQueue[l]) :
          ~(Keyed(c) /\ l = key[c]) /\ st'[keyQueue[l][i]] = st[keyQueue[l][i]]
    BY <1>0 DEF KeyInv, MutexFifo
<1>4. MutexFifo'
  <2>1. ASSUME NEW l \in Keys, holder'[l] # 0
        PROVE  key[holder'[l]] = l /\ st'[holder'[l]] \in {"key"} \cup Working
    <3>1. CASE Keyed(c) /\ l = key[c]
        BY <1>2, <3>1
    <3>2. CASE ~(Keyed(c) /\ l = key[c])
      <4>1. holder'[l] = holder[l] /\ holder[l] \in calls
          BY <1>0, <1>2, <2>1, <3>2
      <4>2. key[holder[l]] = l /\ st[holder[l]] \in {"key"} \cup Working
          BY <2>1, <4>1 DEF KeyInv, MutexFifo
      <4>3. holder[l] # c
          BY <1>0, <4>2 DEF Working
      <4> QED BY <4>1, <4>2, <4>3
    <3> QED BY <3>1, <3>2
  <2>2. ASSUME NEW l \in Keys, NEW i \in 1 .. Len(keyQueue[l])
        PROVE  /\ key[keyQueue[l][i]] = l /\ st'[keyQueue[l][i]] = "key"
               /\ holder'[l] # 0 /\ holder'[l] < keyQueue[l][i]
    <3>1. holder'[l] = holder[l]
        BY <1>2, <1>3
    <3> QED BY <1>3, <3>1 DEF KeyInv, MutexFifo
  <2>3. \A l \in Keys : \A i, j \in 1 .. Len(keyQueue[l]) :
            i < j => keyQueue[l][i] < keyQueue[l][j]
      BY DEF KeyInv, MutexFifo
  <2> QED BY <2>1, <2>2, <2>3 DEF MutexFifo
<1>5. \A d \in calls : Keyed(c) /\ key[d] = key[c] /\ d # c => st[d] \in {"pushed", "done"}
  <2> SUFFICES ASSUME NEW d \in calls, Keyed(c), key[d] = key[c], d # c,
                      st[d] \notin {"pushed", "done"}
               PROVE  FALSE
      OBVIOUS
  <2>1. holder[key[c]] = 0 /\ key[c] \in Keys
      BY <1>0 DEF Keyed
  <2>2. CASE st[d] \in Working
      BY <1>0, <2>1, <2>2 DEF KeyInv, CallsQueued, Keyed
  <2>3. CASE st[d] = "key"
    <3>1. PICK i \in 1 .. Len(keyQueue[key[c]]) : keyQueue[key[c]][i] = d
        BY <1>0, <2>1, <2>3 DEF KeyInv, CallsQueued, Keyed
    <3> QED BY <1>3, <2>1, <3>1
  <2> QED BY <2>2, <2>3 DEF TypeOK, Working
<1>6. CallsQueued'
  <2>1. ASSUME NEW d \in calls, key[d] # NoKey, st'[d] \in Working PROVE holder'[key[d]] = d
    <3>1. key[d] \in Keys
        BY <1>0, <2>1
    <3>2. CASE d = c
        BY <1>2, <2>1, <3>1, <3>2 DEF Keyed
    <3>3. CASE d # c
      <4>1. holder[key[d]] = d /\ ~(Keyed(c) /\ key[d] = key[c])
          BY <1>5, <2>1, <3>3 DEF KeyInv, CallsQueued, Keyed, Working
      <4> QED BY <1>2, <3>1, <4>1
    <3> QED BY <3>2, <3>3
  <2>2. ASSUME NEW d \in calls, st'[d] = "key"
        PROVE  /\ key[d] # NoKey
               /\ \/ holder'[key[d]] = d
                  \/ \E i \in 1 .. Len(keyQueue[key[d]]) : keyQueue[key[d]][i] = d
    <3>1. d # c /\ st[d] = "key"
        BY <2>2 DEF Working
    <3>2. /\ key[d] # NoKey /\ key[d] \in Keys
          /\ \/ holder[key[d]] = d
             \/ \E i \in 1 .. Len(keyQueue[key[d]]) : keyQueue[key[d]][i] = d
        BY <1>0, <3>1 DEF KeyInv, CallsQueued, Keyed
    <3>3. holder'[key[d]] = holder[key[d]]
        BY <1>2, <1>5, <3>1, <3>2
    <3> QED BY <3>2, <3>3
  <2> QED BY <2>1, <2>2 DEF CallsQueued, Keyed
<1>7. SameKeyInOrder'
  <2> SUFFICES ASSUME NEW b \in calls, NEW d \in calls, b < d, key[b] # NoKey,
                      key[b] = key[d], st'[d] \in {"granted", "running", "done"}
               PROVE  st'[b] = "done"
      BY DEF SameKeyInOrder, Keyed
  <2>1. CASE d = c
    <3>1. b # c /\ st[b] # "pushed"
        BY <1>0, <2>1 DEF IsNext
    <3> QED BY <1>5, <2>1, <3>1 DEF Keyed
  <2>2. CASE d # c
    <3>1. st[b] = "done"
        BY <2>2 DEF KeyInv, SameKeyInOrder, Keyed
    <3> QED BY <1>0, <3>1
  <2> QED BY <2>1, <2>2
<1> QED BY <1>1, <1>4, <1>6, <1>7 DEF KeyInv

\* A call that returns hands its key to the first of the waiters.
LEMMA KeyHandedOver ==
    ASSUME TypeOK, KeyInv, NEW c \in calls, st[c] \in {"granted", "running"}, ReleaseKey(c),
           st'[c] = "done",
           \A d \in calls : d # c =>
               st'[d] = st[d] \/ (st[d] = "permit" /\ st'[d] = "granted"),
           UNCHANGED <<calls, key>>
    PROVE  KeyInv'
<1> DEFINE k == key[c]
           q == keyQueue[k]
<1>0. /\ key \in [calls -> Keys \cup {NoKey}] /\ holder \in [Keys -> calls \cup {0}]
      /\ keyQueue \in [Keys -> Seq(calls)]
      /\ \A d \in calls : d \in Nat \ {0}
      /\ \A l \in Keys : \A i \in 1 .. Len(keyQueue[l]) : keyQueue[l][i] \in calls
    BY CallsFinite, ElementOfSeq DEF TypeOK
<1>1. \A d \in calls :
          /\ st'[d] = "pushed" <=> st[d] = "pushed"
          /\ st'[d] = "key" <=> st[d] = "key"
          /\ st'[d] \in Working => st[d] \in Working
          /\ d # c /\ st[d] \in Working => st'[d] \in Working
          /\ st[d] = "done" => st'[d] = "done"
    BY DEF Working
<1>2. Keyed(c) => holder[k] = c /\ k \in Keys
    BY <1>0 DEF KeyInv, CallsQueued, Keyed, Working
<1>3. PolledInOrder'
    BY <1>1 DEF KeyInv, PolledInOrder
<1>4. SameKeyInOrder'
  <2> SUFFICES ASSUME NEW b \in calls, NEW d \in calls, b < d, key[b] # NoKey,
                      key[b] = key[d], st'[d] \in {"granted", "running", "done"}
               PROVE  st'[b] = "done"
      BY DEF SameKeyInOrder, Keyed
  <2>1. CASE st[d] \in Working
    <3>1. holder[key[b]] = d /\ st[d] # "pushed"
        BY <2>1 DEF KeyInv, CallsQueued, Keyed, Working
    <3> QED BY <1>1, <3>1, OwnerFirst DEF Keyed
  <2>2. CASE st[d] \notin Working
    <3>1. st[d] = "done"
        BY <2>2 DEF Working
    <3> QED BY <1>1, <3>1 DEF KeyInv, SameKeyInOrder, Keyed
  <2> QED BY <2>1, <2>2
<1>5. \A l \in Keys : ~(Keyed(c) /\ l = k) =>
          holder'[l] = holder[l] /\ keyQueue'[l] = keyQueue[l] /\ holder[l] # c
  <2>1. \A l \in Keys : ~(Keyed(c) /\ l = k) =>
            holder'[l] = holder[l] /\ keyQueue'[l] = keyQueue[l]
      BY <1>0 DEF ReleaseKey
  <2>2. \A l \in Keys : holder[l] = c => l = k /\ Keyed(c)
      BY <1>0, DispatchAssumption DEF KeyInv, MutexFifo, Keyed
  <2> QED BY <2>1, <2>2
<1>6. ASSUME Keyed(c)
      PROVE  /\ q \in Seq(calls) /\ Len(q) \in Nat
             /\ q = <<>> => holder'[k] = 0 /\ keyQueue'[k] = <<>>
             /\ q # <<>> =>
                   /\ Len(q) >= 1 /\ holder'[k] = q[1] /\ q[1] \in calls
                   /\ Len(keyQueue'[k]) = Len(q) - 1
                   /\ \A i \in 1 .. Len(q) - 1 : keyQueue'[k][i] = q[i + 1]
  <2>1. q \in Seq(calls) /\ Len(q) \in Nat
      BY <1>0, <1>2, <1>6, LenProperties
  <2>2. /\ holder'[k] = IF q = <<>> THEN 0 ELSE Head(q)
        /\ keyQueue'[k] = IF q = <<>> THEN q ELSE Tail(q)
      BY <1>0, <1>2, <1>6 DEF ReleaseKey
  <2> HIDE DEF k, q
  <2>3. CASE q = <<>>
      BY <2>1, <2>2, <2>3
  <2>4. CASE q # <<>>
    <3>1. /\ Len(q) \in Nat \ {0} /\ Head(q) = q[1] /\ q[1] \in calls
          /\ Len(Tail(q)) = Len(q) - 1
          /\ \A i \in 1 .. Len(q) - 1 : Tail(q)[i] = q[i + 1]
        BY <2>1, <2>4, QueueParts
    <3> QED BY <2>1, <2>2, <2>4, <3>1
  <2> QED BY <2>3, <2>4
<1>7. ASSUME Keyed(c)
      PROVE  /\ \A i \in 1 .. Len(q) : key[q[i]] = k /\ st[q[i]] = "key" /\ q[i] \in calls
             /\ \A i, j \in 1 .. Len(q) : i < j => q[i] < q[j]
    BY <1>0, <1>2, <1>7 DEF KeyInv, MutexFifo
<1> HIDE DEF k, q
<1>8. MutexFifo'
  <2>1. ASSUME NEW l \in Keys, holder'[l] # 0
        PROVE  key[holder'[l]] = l /\ st'[holder'[l]] \in {"key"} \cup Working
    <3>1. CASE Keyed(c) /\ l = k
      <4>1. q # <<>> /\ holder'[l] = q[1] /\ 1 \in 1 .. Len(q)
          BY <1>6, <2>1, <3>1
      <4> QED BY <1>1, <1>7, <3>1, <4>1
    <3>2. CASE ~(Keyed(c) /\ l = k)
      <4>1. holder'[l] = holder[l] /\ holder[l] # c /\ holder[l] \in calls
          BY <1>0, <1>5, <2>1, <3>2
      <4>2. key[holder[l]] = l /\ st[holder[l]] \in {"key"} \cup Working
          BY <2>1, <4>1 DEF KeyInv, MutexFifo
      <4> QED BY <1>1, <4>1, <4>2
    <3> QED BY <3>1, <3>2
  <2>2. ASSUME NEW l \in Keys, NEW i \in 1 .. Len(keyQueue'[l])
        PROVE  /\ key[keyQueue'[l][i]] = l /\ st'[keyQueue'[l][i]] = "key"
               /\ holder'[l] # 0 /\ holder'[l] < keyQueue'[l][i]
    <3>1. CASE Keyed(c) /\ l = k
      <4>1. q # <<>> /\ i \in 1 .. Len(q) - 1 /\ keyQueue'[l][i] = q[i + 1]
        <5>1. q # <<>>
          <6> SUFFICES ASSUME q = <<>> PROVE FALSE
              OBVIOUS
          <6>1. keyQueue'[l] = <<>> /\ Len(<<>>) = 0
              BY <1>6, <3>1
          <6> QED BY <6>1
        <5> QED BY <1>6, <3>1, <5>1
      <4>2. /\ holder'[l] = q[1] /\ i + 1 \in 1 .. Len(q) /\ 1 \in 1 .. Len(q) /\ 1 < i + 1
            /\ q[1] \in calls
          BY <1>6, <3>1, <4>1
      <4>3. /\ key[q[i + 1]] = k /\ st[q[i + 1]] = "key" /\ q[i + 1] \in calls
            /\ q[1] < q[i + 1]
          BY <1>7, <3>1, <4>2
      <4>4. st'[q[i + 1]] = "key"
          BY <1>1, <4>3
      <4>5. holder'[l] # 0
          BY <1>0, <4>2
      <4> QED BY <3>1, <4>1, <4>2, <4>3, <4>4, <4>5
    <3>2. CASE ~(Keyed(c) /\ l = k)
      <4>1. holder'[l] = holder[l] /\ keyQueue'[l] = keyQueue[l]
          BY <1>5, <3>2
      <4>2. i \in 1 .. Len(keyQueue[l]) /\ keyQueue[l][i] \in calls
          BY <1>0, <2>2, <4>1
      <4> QED BY <1>1, <4>1, <4>2 DEF KeyInv, MutexFifo
    <3> QED BY <3>1, <3>2
  <2>3. ASSUME NEW l \in Keys, NEW i \in 1 .. Len(keyQueue'[l]),
               NEW j \in 1 .. Len(keyQueue'[l]), i < j
        PROVE  keyQueue'[l][i] < keyQueue'[l][j]
    <3>1. CASE Keyed(c) /\ l = k /\ q # <<>>
      <4>1. /\ keyQueue'[l][i] = q[i + 1] /\ keyQueue'[l][j] = q[j + 1]
            /\ i + 1 \in 1 .. Len(q) /\ j + 1 \in 1 .. Len(q) /\ i + 1 < j + 1
          BY <1>6, <2>3, <3>1
      <4> QED BY <1>7, <3>1, <4>1
    <3>2. CASE Keyed(c) /\ l = k /\ q = <<>>
      <4>1. keyQueue'[l] = <<>> /\ Len(<<>>) = 0
          BY <1>6, <3>2
      <4> QED BY <4>1
    <3>3. CASE ~(Keyed(c) /\ l = k)
        BY <1>5, <2>3, <3>3 DEF KeyInv, MutexFifo
    <3> QED BY <3>1, <3>2, <3>3
  <2> QED BY <2>1, <2>2, <2>3 DEF MutexFifo
<1>9. CallsQueued'
  <2>1. ASSUME NEW d \in calls, key[d] # NoKey, st'[d] \in Working PROVE holder'[key[d]] = d
    <3>1. d # c /\ st[d] \in Working /\ holder[key[d]] = d /\ key[d] \in Keys
        BY <1>0, <1>1, <2>1 DEF KeyInv, CallsQueued, Keyed, Working
    <3>2. ~(Keyed(c) /\ key[d] = k)
        BY <1>2, <3>1
    <3> QED BY <1>5, <3>1, <3>2
  <2>2. ASSUME NEW d \in calls, st'[d] = "key"
        PROVE  /\ key[d] # NoKey
               /\ \/ holder'[key[d]] = d
                  \/ \E i \in 1 .. Len(keyQueue'[key[d]]) : keyQueue'[key[d]][i] = d
    <3>1. /\ key[d] # NoKey /\ key[d] \in Keys /\ d # c
          /\ \/ holder[key[d]] = d
             \/ \E i \in 1 .. Len(keyQueue[key[d]]) : keyQueue[key[d]][i] = d
        BY <1>0, <1>1, <2>2 DEF KeyInv, CallsQueued, Keyed
    <3>2. CASE ~(Keyed(c) /\ key[d] = k)
        BY <1>5, <3>1, <3>2
    <3>3. CASE Keyed(c) /\ key[d] = k
      <4>1. PICK i \in 1 .. Len(q) : q[i] = d
          BY <1>2, <3>1, <3>3 DEF q
      <4>2. q # <<>>
          BY <4>1
      <4>3. CASE i = 1
          BY <1>6, <3>1, <3>3, <4>1, <4>2, <4>3
      <4>4. CASE i # 1
        <5>1. i - 1 \in 1 .. Len(q) - 1 /\ (i - 1) + 1 = i
            BY <1>6, <3>3, <4>1, <4>4
        <5>2. keyQueue'[k][i - 1] = d /\ Len(keyQueue'[k]) = Len(q) - 1
            BY <1>6, <3>3, <4>1, <4>2, <5>1
        <5> QED BY <3>1, <3>3, <5>1, <5>2
      <4> QED BY <4>3, <4>4
    <3> QED BY <3>2, <3>3
  <2> QED BY <2>1, <2>2 DEF CallsQueued, Keyed
<1> QED BY <1>3, <1>4, <1>8, <1>9 DEF KeyInv

LEMMA StepKeys == TypeOK /\ SemInv /\ KeyInv /\ [Next]_vars => KeyInv'
<1> SUFFICES ASSUME TypeOK, SemInv, KeyInv, [Next]_vars PROVE KeyInv'
    OBVIOUS
<1>1. CASE UNCHANGED vars \/ Cancel
  <2>1. UNCHANGED <<calls, key, st, holder, keyQueue>>
      BY <1>1 DEF vars, Cancel
  <2> QED BY <2>1 DEF KeyInv, PolledInOrder, MutexFifo, CallsQueued, SameKeyInOrder, Keyed
<1>2. ASSUME NEW c \in calls, FirstPoll(c) PROVE KeyInv'
  <2>1. CASE Keyed(c) /\ holder[key[c]] # 0
      BY <1>2, <2>1, KeyWaits
  <2>2. CASE ~(Keyed(c) /\ holder[key[c]] # 0)
    <3>1. /\ holder' = IF Keyed(c) THEN [holder EXCEPT ![key[c]] = c] ELSE holder
          /\ AcquirePermit(c) /\ IsNext(c) /\ UNCHANGED <<keyQueue, calls, key>>
        BY <1>2, <2>2 DEF FirstPoll
    <3>2. st'[c] \in Working /\ \A d \in calls : d # c => st'[d] = st[d]
        BY <3>1, AcquireEffect DEF Working, IsNext
    <3> QED BY <2>2, <3>1, <3>2, KeyTaken
  <2> QED BY <2>1, <2>2
<1>3. ASSUME NEW c \in calls, KeyPoll(c) PROVE KeyInv'
  <2>1. /\ st[c] = "key" /\ holder[key[c]] = c /\ AcquirePermit(c)
        /\ UNCHANGED <<calls, key, holder, keyQueue>>
      BY <1>3 DEF KeyPoll
  <2>2. st'[c] \in Working /\ \A d \in calls : d # c => st'[d] = st[d]
      BY <2>1, AcquireEffect DEF Working
  <2> QED BY <2>1, <2>2, OwnerGoesOn
<1>4. ASSUME NEW c \in calls, Invoke(c) PROVE KeyInv'
  <2>1. /\ st[c] = "granted" /\ st'[c] = "running"
        /\ \A d \in calls : d # c => st'[d] = st[d]
        /\ UNCHANGED <<calls, key, holder, keyQueue>>
      BY <1>4 DEF Invoke, TypeOK
  <2>2. Keyed(c) => holder[key[c]] = c
      BY <2>1 DEF KeyInv, CallsQueued, Working
  <2>3. st[c] \in {"key"} \cup Working /\ st'[c] \in Working
      BY <2>1 DEF Working
  <2> QED BY <2>1, <2>2, <2>3, OwnerGoesOn
<1>5. ASSUME NEW c \in calls, InvokeCancelled(c) \/ Returns(c) PROVE KeyInv'
  <2>1. /\ st[c] \in {"granted", "running"} /\ ReleaseSem([st EXCEPT ![c] = "done"])
        /\ ReleaseKey(c) /\ UNCHANGED <<calls, key>>
      BY <1>5 DEF InvokeCancelled, Returns, Return
  <2>2. /\ st'[c] = "done"
        /\ \A d \in calls : d # c =>
               st'[d] = st[d] \/ (st[d] = "permit" /\ st'[d] = "granted")
      BY <2>1, ReleaseEffect
  <2> QED BY <2>1, <2>2, KeyHandedOver
<1> QED BY <1>1, <1>2, <1>3, <1>4, <1>5 DEF Next, Poll

LEMMA InitKeys == Init => KeyInv
<1> SUFFICES ASSUME Init PROVE KeyInv
    OBVIOUS
<1>1. /\ \A k \in Keys : holder[k] = 0 /\ keyQueue[k] = <<>>
      /\ \A c \in calls : st[c] = "pushed"
    BY DEF Init
<1>2. Len(<<>>) = 0
    OBVIOUS
<1> QED BY <1>1, <1>2
        DEF KeyInv, PolledInOrder, MutexFifo, CallsQueued, SameKeyInOrder, Working

\* Two calls that share a conflict key never overlap, and take effect in the order
\* of the response, whatever the limit and whatever else is dispatched with them.
THEOREM SameKeyNeverReordered == Spec => []SameKeyInOrder
<1>1. KeyInv => SameKeyInOrder
    BY DEF KeyInv
<1> QED BY <1>1, InitSem, StepSem, InitKeys, StepKeys, PTL DEF Spec
=============================================================================
