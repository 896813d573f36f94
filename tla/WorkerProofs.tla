---------------------------- MODULE WorkerProofs ----------------------------
(***************************************************************************)
(* A worker for any set of clients and any capacities: its types, what an  *)
(* attached client sees, the order in which its frames reach the run, what *)
(* it may conclude from the RunEnd, and that the idle timeout leaves an    *)
(* attended run alone.                                                     *)
(***************************************************************************)
EXTENDS Worker, SequenceTheorems, FiniteSetTheorems, TLAPS

Pcs == {"turn", "idle", "persist", "end", "unsaved", "drain", "drain_unsaved", "exited"}

Conns == [st : {"away", "joined", "live", "done"}, peer : BOOLEAN,
          replay : Seq(1 .. MaxEvents), pos : 1 .. MaxEvents + 1, last : 0 .. MaxEvents]

\* The event hub, and where the run is.
HubOK ==
    /\ pc \in Pcs
    /\ sent \in 0 .. MaxEvents /\ history \in Seq(1 .. MaxEvents) /\ Len(history) <= Cap

\* What comes in from the clients.
InputOK ==
    /\ inbox \in Seq(Frames) /\ Len(inbox) <= InboxCap
    /\ polls \in 0 .. IdlePolls /\ frames \in 0 .. MaxFrames
    /\ wire \in [Clients -> Seq(Frames)]
    /\ reader \in [Clients -> {"none", "reading", "stopped"}]

\* The conversation and its file.
SessionOK ==
    /\ taken \in Seq(Frames) /\ base \in Seq(Frames) /\ saved \in Seq(Frames) \cup {Unsaved}
    /\ lives \in 1 .. MaxLives

\* The ring holds the last events published, in order, and none else.
HistoryIsTail ==
    /\ Len(history) <= sent
    /\ \A i \in 1 .. Len(history) : history[i] = sent - Len(history) + i

\* The RunEnd always finds the event kept back for it.
RunEndFits == Receiving => sent < MaxEvents

\* has_clients counts the connections that are served, and a process that is gone
\* serves none.
Counted == hasClients = Cardinality(Served)
NoneServed == pc = "exited" => Served = {}

TypeInv ==
    /\ interactive \in BOOLEAN
    /\ HubOK /\ InputOK /\ SessionOK
    /\ conn \in [Clients -> Conns]
    /\ HistoryIsTail /\ RunEndFits

----------------------------------------------------------------------------
(* Types.                                                                  *)

LEMMA InitTypeInv == Init => TypeInv
<1> SUFFICES ASSUME Init PROVE TypeInv
    OBVIOUS
<1> USE WorkerAssumption
<1>1. HubOK
    BY EmptySeq DEF Init, HubOK, Pcs
<1>2. InputOK
    BY EmptySeq DEF Init, InputOK
<1>3. SessionOK
    BY EmptySeq DEF Init, SessionOK
<1>4. conn \in [Clients -> Conns]
  <2>1. <<>> \in Seq(1 .. MaxEvents)
      BY EmptySeq
  <2>2. 1 \in 1 .. MaxEvents + 1 /\ 0 \in 0 .. MaxEvents
      OBVIOUS
  <2>3. NoConn \in Conns
      BY <2>1, <2>2 DEF NoConn, Conns
  <2> QED BY <2>3 DEF Init
<1>5. HistoryIsTail /\ RunEndFits
    BY EmptySeq DEF Init, HistoryIsTail, RunEndFits
<1>6. interactive \in BOOLEAN
    BY DEF Init
<1> QED BY <1>1, <1>2, <1>3, <1>4, <1>5, <1>6 DEF TypeInv

\* EventHub::publish keeps the ring: the oldest event goes when it is full.
LEMMA PublishKeepsRing ==
    ASSUME HubOK, HistoryIsTail, sent < MaxEvents, Publish
    PROVE  /\ sent' \in 0 .. MaxEvents /\ sent' = sent + 1
           /\ history' \in Seq(1 .. MaxEvents) /\ Len(history') <= Cap
           /\ HistoryIsTail'
<1> USE WorkerAssumption DEF HubOK
<1> DEFINE kept == IF Len(history) = Cap THEN Tail(history) ELSE history
<1>1. sent + 1 \in 1 .. MaxEvents /\ Len(history) \in Nat
    BY LenProperties
<1>2. /\ kept \in Seq(1 .. MaxEvents) /\ Len(kept) \in Nat
      /\ Len(kept) < Cap /\ Len(kept) <= sent
      /\ \A i \in 1 .. Len(kept) : kept[i] = sent - Len(kept) + i
  <2>1. CASE Len(history) = Cap
    <3>1. history # <<>>
        BY <2>1, EmptySeq
    <3>2. /\ Tail(history) \in Seq(1 .. MaxEvents) /\ Len(Tail(history)) = Len(history) - 1
          /\ \A i \in 1 .. Len(Tail(history)) : Tail(history)[i] = history[i + 1]
        BY <3>1, HeadTailProperties
    <3> QED BY <2>1, <3>1, <3>2, <1>1 DEF HistoryIsTail
  <2>2. CASE Len(history) # Cap
    <3>1. kept = history /\ Len(history) < Cap
        BY <2>2, <1>1
    <3>2. /\ history \in Seq(1 .. MaxEvents) /\ Len(history) <= sent
          /\ \A i \in 1 .. Len(history) : history[i] = sent - Len(history) + i
        BY DEF HistoryIsTail
    <3> HIDE DEF kept
    <3> QED BY <3>1, <3>2, <1>1
  <2> QED BY <2>1, <2>2
<1>3. history' = Append(kept, sent + 1) /\ sent' = sent + 1
    BY DEF Publish
<1> HIDE DEF kept
<1>4. /\ history' \in Seq(1 .. MaxEvents) /\ Len(history') = Len(kept) + 1
      /\ \A i \in 1 .. Len(kept) : history'[i] = kept[i]
      /\ history'[Len(kept) + 1] = sent + 1
    BY <1>1, <1>2, <1>3, AppendProperties
<1> QED BY <1>1, <1>2, <1>3, <1>4 DEF HistoryIsTail

LEMMA StepHub == TypeInv /\ [Next]_vars => HubOK' /\ HistoryIsTail' /\ RunEndFits'
<1> SUFFICES ASSUME TypeInv, [Next]_vars PROVE HubOK' /\ HistoryIsTail' /\ RunEndFits'
    OBVIOUS
<1> USE WorkerAssumption
<1>0. HubOK /\ HistoryIsTail /\ RunEndFits
    BY DEF TypeInv
<1>1. CASE TurnEvent
  <2>1. Publish /\ sent < MaxEvents /\ pc' = pc /\ pc = "turn" /\ sent < MaxEvents - 1
      BY <1>1, <1>0 DEF TurnEvent, HubOK
  <2>2. /\ sent' \in 0 .. MaxEvents /\ sent' = sent + 1
        /\ history' \in Seq(1 .. MaxEvents) /\ Len(history') <= Cap
        /\ HistoryIsTail'
      BY <1>0, <2>1, PublishKeepsRing
  <2> QED BY <1>0, <2>1, <2>2 DEF HubOK, RunEndFits
<1>2. CASE RunEnd
  <2>1. Publish /\ sent < MaxEvents /\ pc' \in {"drain", "drain_unsaved"}
      BY <1>2, <1>0 DEF RunEnd, RunEndFits, Receiving
  <2>2. /\ sent' \in 0 .. MaxEvents /\ sent' = sent + 1
        /\ history' \in Seq(1 .. MaxEvents) /\ Len(history') <= Cap
        /\ HistoryIsTail'
      BY <1>0, <2>1, PublishKeepsRing
  <2> QED BY <2>1, <2>2 DEF HubOK, RunEndFits, Receiving, Pcs
<1>3. CASE Resume
  <2>1. pc' = "turn" /\ sent' = 0 /\ history' = <<>>
      BY <1>3 DEF Resume
  <2>2. <<>> \in Seq(1 .. MaxEvents) /\ Len(<<>>) = 0
      BY EmptySeq
  <2> QED BY <2>1, <2>2 DEF HubOK, HistoryIsTail, RunEndFits, Pcs
<1>4. CASE AwaitInput \/ TurnEndsRun \/ TakeFrame \/ Poll \/ Persist \/ PersistFails
  <2>1. /\ sent' = sent /\ history' = history /\ Receiving
        /\ pc' \in {"turn", "idle", "persist", "end", "unsaved"}
      BY <1>4 DEF AwaitInput, TurnEndsRun, TakeFrame, Poll, Persist, PersistFails, hub, Receiving
  <2> QED BY <1>0, <2>1 DEF HubOK, HistoryIsTail, RunEndFits, Pcs
<1>5. CASE Exit \/ Killed
  <2>1. sent' = sent /\ history' = history /\ pc' = "exited"
      BY <1>5 DEF Exit, Killed, Gone, hub
  <2> QED BY <1>0, <2>1 DEF HubOK, HistoryIsTail, RunEndFits, Receiving, Pcs
<1>6. CASE \/ UNCHANGED vars
           \/ \E c \in Clients : \/ ConnStep(c) \/ Accept(c) \/ Reject(c) \/ Write(c) \/ Leave(c)
                                 \/ \E kind \in {"message", "end"} : Send(c, kind)
  <2>1. sent' = sent /\ history' = history /\ pc' = pc
      BY <1>6 DEF ConnStep, Subscribe, Lagged, WriteFails, Read, ReadEnds, Accept, Reject, Write,
                  Leave, Send, hub, vars
  <2> QED BY <1>0, <2>1 DEF HubOK, HistoryIsTail, RunEndFits, Receiving
<1> QED BY <1>1, <1>2, <1>3, <1>4, <1>5, <1>6 DEF Next, RunStep

LEMMA StepInput == TypeInv /\ [Next]_vars => InputOK'
<1> SUFFICES ASSUME TypeInv, [Next]_vars PROVE InputOK'
    OBVIOUS
<1> USE WorkerAssumption
<1>0. InputOK
    BY DEF TypeInv
<1>1. CASE AwaitInput \/ Poll
  <2>1. polls' \in 0 .. IdlePolls
      BY <1>0, <1>1 DEF AwaitInput, Poll, InputOK
  <2> QED BY <1>0, <1>1, <2>1 DEF AwaitInput, Poll, InputOK, attach
<1>2. CASE TakeFrame
  <2>1. Tail(inbox) \in Seq(Frames) /\ Len(Tail(inbox)) = Len(inbox) - 1 /\ Len(inbox) \in Nat
      BY <1>0, <1>2, HeadTailProperties, LenProperties DEF TakeFrame, InputOK
  <2>2. Len(Tail(inbox)) <= InboxCap
      BY <1>0, <2>1 DEF InputOK
  <2> QED BY <1>0, <1>2, <2>1, <2>2 DEF TakeFrame, InputOK, attach
<1>3. CASE RunEnd
    BY <1>0, <1>3, EmptySeq DEF RunEnd, InputOK, attach
<1>4. CASE Exit \/ Killed
  <2>1. /\ inbox' = <<>> /\ polls' = polls /\ frames' = frames
        /\ wire' = [c \in Clients |-> <<>>]
        /\ reader' = [c \in Clients |-> IF reader[c] = "none" THEN "none" ELSE "stopped"]
      BY <1>4 DEF Exit, Killed, Gone
  <2>2. <<>> \in Seq(Frames) /\ Len(<<>>) <= InboxCap
      BY EmptySeq
  <2> QED BY <1>0, <2>1, <2>2 DEF InputOK
<1>5. CASE Resume
    BY <1>0, <1>5 DEF Resume, InputOK, attach
<1>6. CASE TurnEvent \/ TurnEndsRun \/ Persist \/ PersistFails \/ UNCHANGED vars
    BY <1>0, <1>6 DEF TurnEvent, TurnEndsRun, Persist, PersistFails, InputOK, attach, vars
<1>7. ASSUME NEW c \in Clients,
             Subscribe(c) \/ Lagged(c) \/ WriteFails(c) \/ Write(c) \/ Leave(c) \/ Reject(c)
      PROVE  InputOK'
    BY <1>0, <1>7 DEF Subscribe, Lagged, WriteFails, Write, Leave, Reject, InputOK
<1>8. ASSUME NEW c \in Clients, Accept(c) \/ ReadEnds(c) PROVE InputOK'
  <2>1. reader' \in [Clients -> {"none", "reading", "stopped"}]
      BY <1>0, <1>8 DEF Accept, ReadEnds, InputOK
  <2> QED BY <1>0, <1>8, <2>1 DEF Accept, ReadEnds, InputOK
<1>9. ASSUME NEW c \in Clients, Read(c) PROVE InputOK'
  <2>1. wire[c] \in Seq(Frames) /\ wire[c] # <<>>
      BY <1>0, <1>9 DEF Read, InputOK
  <2>2. Head(wire[c]) \in Frames /\ Tail(wire[c]) \in Seq(Frames)
      BY <2>1, HeadTailProperties
  <2>3. wire' \in [Clients -> Seq(Frames)]
      BY <1>0, <1>9, <2>2 DEF Read, InputOK
  <2>4. /\ Append(inbox, Head(wire[c])) \in Seq(Frames) /\ Len(inbox) \in Nat
        /\ Len(Append(inbox, Head(wire[c]))) = Len(inbox) + 1
      BY <1>0, <2>2, AppendProperties, LenProperties DEF InputOK
  <2>5. inbox' \in Seq(Frames) /\ Len(inbox') <= InboxCap
    <3>1. CASE inbox' = inbox
        BY <1>0, <3>1 DEF InputOK
    <3>2. CASE Len(inbox) < InboxCap /\ inbox' = Append(inbox, Head(wire[c]))
        BY <2>4, <3>2
    <3> QED BY <1>9, <3>1, <3>2 DEF Read
  <2>6. reader' \in [Clients -> {"none", "reading", "stopped"}]
      BY <1>0, <1>9 DEF Read, InputOK
  <2> QED BY <1>0, <1>9, <2>3, <2>5, <2>6 DEF Read, InputOK
<1>10. ASSUME NEW c \in Clients, NEW kind \in {"message", "end"}, Send(c, kind) PROVE InputOK'
  <2>1. frames' \in 0 .. MaxFrames /\ frames + 1 \in 1 .. MaxFrames
      BY <1>0, <1>10 DEF Send, InputOK
  <2>2. [from |-> c, num |-> frames + 1, kind |-> kind] \in Frames
      BY <2>1 DEF Frames
  <2>3. wire[c] \in Seq(Frames)
      BY <1>0 DEF InputOK
  <2>4. Append(wire[c], [from |-> c, num |-> frames + 1, kind |-> kind]) \in Seq(Frames)
      BY <2>2, <2>3, AppendProperties
  <2>5. wire' \in [Clients -> Seq(Frames)]
      BY <1>0, <1>10, <2>4 DEF Send, InputOK
  <2> QED BY <1>0, <1>10, <2>1, <2>5 DEF Send, InputOK
<1> QED BY <1>1, <1>2, <1>3, <1>4, <1>5, <1>6, <1>7, <1>8, <1>9, <1>10 DEF Next, RunStep, ConnStep

LEMMA StepSession == TypeInv /\ [Next]_vars => SessionOK'
<1> SUFFICES ASSUME TypeInv, [Next]_vars PROVE SessionOK'
    OBVIOUS
<1> USE WorkerAssumption
<1>0. SessionOK /\ InputOK
    BY DEF TypeInv
<1>1. CASE TakeFrame
  <2>1. Head(inbox) \in Frames
      BY <1>0, <1>1, HeadTailProperties DEF TakeFrame, InputOK
  <2>2. Append(taken, Head(inbox)) \in Seq(Frames)
      BY <1>0, <2>1, AppendProperties DEF SessionOK
  <2> QED BY <1>0, <1>1, <2>2 DEF TakeFrame, SessionOK
<1>2. CASE Persist
  <2>1. Conversation \in Seq(Frames)
      BY <1>0, ConcatProperties DEF Conversation, SessionOK
  <2> QED BY <1>0, <1>2, <2>1 DEF Persist, SessionOK
<1>3. CASE Resume
  <2>1. <<>> \in Seq(Frames)
      BY EmptySeq
  <2>2. base' \in Seq(Frames) /\ taken' \in Seq(Frames) /\ saved' = Unsaved
      BY <1>0, <1>3, <2>1 DEF Resume, SessionOK
  <2>3. lives' \in 1 .. MaxLives
      BY <1>0, <1>3 DEF Resume, SessionOK
  <2> QED BY <2>2, <2>3 DEF SessionOK
<1>4. CASE ~(TakeFrame \/ Persist \/ Resume)
  <2>1. UNCHANGED session
      BY <1>4 DEF Next, RunStep, TurnEvent, AwaitInput, TurnEndsRun, Poll, PersistFails, RunEnd,
                  Exit, Killed, Gone, ConnStep, Subscribe, Lagged, WriteFails, Read, ReadEnds,
                  Accept, Reject, Write, Leave, Send, vars
  <2> QED BY <1>0, <2>1 DEF session, SessionOK
<1> QED BY <1>1, <1>2, <1>3, <1>4

\* A connection that is over holds nothing.
LEMMA DoneConn == [NoConn EXCEPT !.st = "done"] \in Conns
<1>1. <<>> \in Seq(1 .. MaxEvents)
    BY EmptySeq
<1>2. 1 \in 1 .. MaxEvents + 1 /\ 0 \in 0 .. MaxEvents
    BY WorkerAssumption
<1> QED BY <1>1, <1>2 DEF NoConn, Conns

\* What is written next, the replay before the live events.
LEMMA WriteKeepsConn ==
    ASSUME TypeInv, NEW c \in Clients, Write(c)
    PROVE  conn' \in [Clients -> Conns]
<1> USE WorkerAssumption
<1>0. conn \in [Clients -> Conns] /\ conn[c] \in Conns
    BY DEF TypeInv
<1>1. CASE conn[c].replay # <<>>
  <2>1. conn[c].replay \in Seq(1 .. MaxEvents)
      BY <1>0 DEF Conns
  <2>2. Head(conn[c].replay) \in 1 .. MaxEvents /\ Tail(conn[c].replay) \in Seq(1 .. MaxEvents)
      BY <1>1, <2>1, HeadTailProperties
  <2>3. Head(conn[c].replay) \in 0 .. MaxEvents
      BY <2>2
  <2>4. [conn[c] EXCEPT !.last = Head(conn[c].replay), !.replay = Tail(conn[c].replay)] \in Conns
      BY <1>0, <2>2, <2>3 DEF Conns
  <2>5. conn' = [conn EXCEPT ![c] =
                   [conn[c] EXCEPT !.last = Head(conn[c].replay), !.replay = Tail(conn[c].replay)]]
      BY <1>0, <1>1 DEF Write
  <2> QED BY <1>0, <2>4, <2>5
<1>2. CASE conn[c].replay = <<>>
  <2>1. conn[c].pos \in 1 .. MaxEvents + 1 /\ sent \in 0 .. MaxEvents
      BY <1>0 DEF Conns, TypeInv, HubOK
  <2>2. sent - conn[c].pos + 1 \in 1 .. Cap
      BY <1>2 DEF Write, Ready
  <2>3. conn[c].pos \in 0 .. MaxEvents /\ conn[c].pos + 1 \in 1 .. MaxEvents + 1
      BY <2>1, <2>2
  <2>4. [conn[c] EXCEPT !.last = conn[c].pos, !.pos = conn[c].pos + 1] \in Conns
      BY <1>0, <2>3 DEF Conns
  <2>5. conn' = [conn EXCEPT ![c] = [conn[c] EXCEPT !.last = conn[c].pos, !.pos = conn[c].pos + 1]]
      BY <1>0, <1>2 DEF Write
  <2> QED BY <1>0, <2>4, <2>5
<1> QED BY <1>1, <1>2

LEMMA StepConn == TypeInv /\ [Next]_vars => conn' \in [Clients -> Conns]
<1> SUFFICES ASSUME TypeInv, [Next]_vars PROVE conn' \in [Clients -> Conns]
    OBVIOUS
<1> USE WorkerAssumption
<1>0. conn \in [Clients -> Conns] /\ HubOK /\ HistoryIsTail
    BY DEF TypeInv
<1>1. CASE Exit \/ Killed
    BY <1>0, <1>1, DoneConn DEF Exit, Killed, Gone
<1>2. CASE RunStep /\ ~Exit
    BY <1>0, <1>2 DEF RunStep, TurnEvent, AwaitInput, TurnEndsRun, TakeFrame, Poll, Persist,
                      PersistFails, RunEnd, attach
<1>3. CASE Resume \/ UNCHANGED vars
    BY <1>0, <1>3 DEF Resume, attach, vars
<1>4. ASSUME NEW c \in Clients, Subscribe(c) PROVE conn' \in [Clients -> Conns]
  <2>1. sent + 1 \in 1 .. MaxEvents + 1 /\ sent - Len(history) \in 0 .. MaxEvents
      BY <1>0, LenProperties DEF HubOK, HistoryIsTail
  <2>2. [conn[c] EXCEPT !.st = "live", !.replay = history, !.pos = sent + 1,
                        !.last = sent - Len(history)] \in Conns
      BY <1>0, <2>1 DEF HubOK, Conns
  <2> QED BY <1>0, <1>4, <2>2 DEF Subscribe
<1>5. ASSUME NEW c \in Clients, Lagged(c) PROVE conn' \in [Clients -> Conns]
  <2>1. conn[c].pos \in 1 .. MaxEvents + 1
      BY <1>0 DEF Conns
  <2>2. sent - Cap + 1 \in 1 .. MaxEvents + 1
    <3>1. sent \in 0 .. MaxEvents /\ sent - conn[c].pos + 1 > Cap
        BY <1>0, <1>5 DEF Lagged, HubOK
    <3> HIDE <1>5
    <3> QED BY <2>1, <3>1, WorkerAssumption
  <2>3. [conn[c] EXCEPT !.pos = sent - Cap + 1] \in Conns
      BY <1>0, <2>2 DEF Conns
  <2> QED BY <1>0, <1>5, <2>3 DEF Lagged
<1>6. ASSUME NEW c \in Clients, WriteFails(c) PROVE conn' \in [Clients -> Conns]
    BY <1>0, <1>6, DoneConn DEF WriteFails
<1>7. ASSUME NEW c \in Clients, Accept(c) PROVE conn' \in [Clients -> Conns]
  <2>1. [conn[c] EXCEPT !.st = "joined", !.peer = TRUE] \in Conns
      BY <1>0 DEF Conns
  <2> QED BY <1>0, <1>7, <2>1 DEF Accept
<1>8. ASSUME NEW c \in Clients, Reject(c) \/ Leave(c) PROVE conn' \in [Clients -> Conns]
  <2>1. [conn[c] EXCEPT !.st = "done"] \in Conns /\ [conn[c] EXCEPT !.peer = FALSE] \in Conns
      BY <1>0 DEF Conns
  <2> QED BY <1>0, <1>8, <2>1 DEF Reject, Leave
<1>9. ASSUME NEW c \in Clients,
             \/ Read(c) \/ ReadEnds(c)
             \/ \E kind \in {"message", "end"} : Send(c, kind)
      PROVE  conn' \in [Clients -> Conns]
    BY <1>0, <1>9 DEF Read, ReadEnds, Send
<1> QED BY <1>1, <1>2, <1>3, <1>4, <1>5, <1>6, <1>7, <1>8, <1>9, WriteKeepsConn
        DEF Next, ConnStep, RunStep

LEMMA StepTypeInv == TypeInv /\ [Next]_vars => TypeInv'
<1> SUFFICES ASSUME TypeInv, [Next]_vars PROVE TypeInv'
    OBVIOUS
<1>1. interactive' \in BOOLEAN
    BY DEF TypeInv, Next, RunStep, TurnEvent, AwaitInput, TurnEndsRun, TakeFrame, Poll, Persist,
           PersistFails, RunEnd, Exit, Killed, Gone, Resume, ConnStep, Subscribe, Lagged,
           WriteFails, Read, ReadEnds, Accept, Reject, Write, Leave, Send, vars
<1> QED BY <1>1, StepHub, StepInput, StepSession, StepConn DEF TypeInv

----------------------------------------------------------------------------
(* The connections.                                                        *)

ServedInv == Counted /\ NoneServed

LEMMA ServedFinite == IsFiniteSet(Served) /\ Cardinality(Served) \in 0 .. Cardinality(Clients)
<1>1. Served \subseteq Clients
    BY DEF Served
<1> QED BY <1>1, WorkerAssumption, FS_Subset, FS_CardinalityType

LEMMA InitServed == Init => ServedInv
<1> SUFFICES ASSUME Init PROVE ServedInv
    OBVIOUS
<1>1. \A c \in Clients : conn[c].st = "away"
    BY DEF Init, NoConn
<1>2. Served = {}
    BY <1>1 DEF Served
<1> QED BY <1>2, FS_EmptySet DEF Init, ServedInv, Counted, NoneServed

LEMMA StepServed == TypeInv /\ ServedInv /\ [Next]_vars => ServedInv'
<1> SUFFICES ASSUME TypeInv, ServedInv, [Next]_vars PROVE ServedInv'
    OBVIOUS
<1>0. /\ conn \in [Clients -> Conns] /\ hasClients = Cardinality(Served)
      /\ pc = "exited" => Served = {}
    BY DEF TypeInv, ServedInv, Counted, NoneServed
<1>1. CASE Exit \/ Killed
  <2>1. /\ hasClients' = 0
        /\ conn' = [c \in Clients |->
                      IF conn[c].st = "away" THEN conn[c] ELSE [NoConn EXCEPT !.st = "done"]]
      BY <1>1 DEF Exit, Killed, Gone
  <2>2. \A c \in Clients : conn'[c].st \in {"away", "done"}
      BY <2>1 DEF NoConn
  <2>3. Served' = {}
      BY <2>2 DEF Served
  <2> QED BY <2>1, <2>3, FS_EmptySet DEF ServedInv, Counted, NoneServed
<1>2. CASE RunStep /\ ~Exit
  <2>1. conn' = conn /\ hasClients' = hasClients /\ pc' # "exited"
      BY <1>2 DEF RunStep, TurnEvent, AwaitInput, TurnEndsRun, TakeFrame, Poll, Persist,
                  PersistFails, RunEnd, attach
  <2> QED BY <1>0, <2>1 DEF ServedInv, Counted, NoneServed, Served
<1>3. CASE Resume \/ UNCHANGED vars
  <2>1. conn' = conn /\ hasClients' = hasClients /\ (pc' = "exited" => pc = "exited")
      BY <1>3 DEF Resume, attach, vars
  <2> QED BY <1>0, <2>1 DEF ServedInv, Counted, NoneServed, Served
<1>4. ASSUME NEW c \in Clients,
             \/ Subscribe(c) \/ Lagged(c) \/ Read(c) \/ ReadEnds(c) \/ Reject(c)
             \/ Write(c) \/ Leave(c) \/ \E kind \in {"message", "end"} : Send(c, kind)
      PROVE  ServedInv'
  <2>1. hasClients' = hasClients /\ pc' = pc
      BY <1>4 DEF Subscribe, Lagged, Read, ReadEnds, Reject, Write, Leave, Send
  <2>2. \A d \in Clients : d # c => conn'[d] = conn[d]
      BY <1>0, <1>4 DEF Subscribe, Lagged, Read, ReadEnds, Reject, Write, Leave, Send
  <2>3. conn[c].st \in {"joined", "live"} <=> conn'[c].st \in {"joined", "live"}
    <3>1. CASE Subscribe(c)
        BY <1>0, <3>1 DEF Subscribe, Conns
    <3>2. CASE Lagged(c) \/ Reject(c) \/ Leave(c)
        BY <1>0, <3>2 DEF Lagged, Reject, Leave, Conns
    <3>3. CASE Write(c)
        BY <1>0, <3>3 DEF Write, Conns
    <3>4. CASE Read(c) \/ ReadEnds(c) \/ \E kind \in {"message", "end"} : Send(c, kind)
        BY <3>4 DEF Read, ReadEnds, Send
    <3> QED BY <1>4, <3>1, <3>2, <3>3, <3>4
  <2>4. Served' = Served
      BY <2>2, <2>3 DEF Served
  <2> QED BY <1>0, <2>1, <2>4 DEF ServedInv, Counted, NoneServed
<1>5. ASSUME NEW c \in Clients, Accept(c) PROVE ServedInv'
  <2>1. hasClients' = hasClients + 1 /\ pc' = pc /\ pc # "exited"
      BY <1>5 DEF Accept, Alive
  <2>2. \A d \in Clients : d # c => conn'[d] = conn[d]
      BY <1>0, <1>5 DEF Accept
  <2>3. conn[c].st = "away" /\ conn'[c].st = "joined"
      BY <1>0, <1>5 DEF Accept, Conns
  <2>4. Served' = Served \cup {c} /\ c \notin Served
      BY <2>2, <2>3 DEF Served
  <2>5. Cardinality(Served') = Cardinality(Served) + 1
      BY <2>4, ServedFinite, FS_AddElement
  <2> QED BY <1>0, <2>1, <2>5 DEF ServedInv, Counted, NoneServed
<1>6. ASSUME NEW c \in Clients, WriteFails(c) PROVE ServedInv'
  <2>1. hasClients' = hasClients - 1 /\ pc' = pc
      BY <1>6 DEF WriteFails
  <2>2. \A d \in Clients : d # c => conn'[d] = conn[d]
      BY <1>0, <1>6 DEF WriteFails
  <2>3. conn[c].st = "live" /\ conn'[c].st = "done"
      BY <1>0, <1>6 DEF WriteFails, Ready, NoConn
  <2>4. Served' = Served \ {c} /\ c \in Served
      BY <2>2, <2>3 DEF Served
  <2>5. Cardinality(Served') = Cardinality(Served) - 1
      BY <2>4, ServedFinite, FS_RemoveElement
  <2> QED BY <1>0, <2>1, <2>4, <2>5 DEF ServedInv, Counted, NoneServed
<1> QED BY <1>1, <1>2, <1>3, <1>4, <1>5, <1>6 DEF Next, ConnStep, RunStep

\* The worker's variables hold what the worker holds: in particular the RunEnd always
\* finds its place, and has_clients never runs below zero or past the connections.
THEOREM WorkerTypeCorrect == Spec => []TypeOK
<1>1. Init => TypeInv /\ ServedInv
    BY InitTypeInv, InitServed
<1>2. TypeInv /\ ServedInv /\ [Next]_vars => TypeInv' /\ ServedInv'
    BY StepTypeInv, StepServed
<1>3. TypeInv /\ ServedInv => TypeOK
  <2> SUFFICES ASSUME TypeInv, ServedInv PROVE TypeOK
      OBVIOUS
  <2>1. hasClients \in 0 .. Cardinality(Clients)
      BY ServedFinite DEF ServedInv, Counted
  <2> QED BY <2>1 DEF TypeInv, TypeOK, HubOK, InputOK, SessionOK, Conns, Pcs
<1> QED BY <1>1, <1>2, <1>3, PTL DEF Spec

\* next_input lets the idle deadline end a run only when no operator is connected: a
\* client is counted from the moment it is let in until its task has ended.
THEOREM AttendedRunsGoOn == Spec => NoTimeoutUnderOperator
<1>1. ASSUME TypeInv, ServedInv, [Next]_vars
      PROVE  pc = "idle" /\ pc' = "persist" /\ inbox' = inbox => Served = {}
  <2> SUFFICES ASSUME pc = "idle", pc' = "persist", inbox' = inbox PROVE Served = {}
      OBVIOUS
  <2>1. CASE TakeFrame
    <3>1. inbox \in Seq(Frames) /\ inbox # <<>> /\ inbox' = Tail(inbox)
        BY <1>1, <2>1 DEF TakeFrame, TypeInv, InputOK
    <3>2. Len(Tail(inbox)) = Len(inbox) - 1 /\ Len(inbox) \in Nat
        BY <3>1, HeadTailProperties, LenProperties
    <3> QED BY <3>1, <3>2
  <2>2. CASE Poll
    <3>1. hasClients = 0
        BY <2>2 DEF Poll
    <3>2. Cardinality(Served) = 0
        BY <1>1, <3>1 DEF ServedInv, Counted
    <3> QED BY <3>2, ServedFinite, FS_EmptySet
  <2>3. CASE ~(TakeFrame \/ Poll)
    <3>1. ~(RunStep \/ Killed \/ Resume)
        BY <2>3 DEF RunStep, TurnEvent, AwaitInput, TurnEndsRun, Persist, PersistFails, RunEnd,
                    Exit, Killed, Gone, Resume
    <3>2. pc' = pc
        BY <1>1, <3>1 DEF Next, ConnStep, Subscribe, Lagged, WriteFails, Read, ReadEnds, Accept,
                          Reject, Write, Leave, Send, vars
    <3> QED BY <3>2
  <2> QED BY <2>1, <2>2, <2>3
<1>2. TypeInv /\ ServedInv /\ [Next]_vars
        => [pc = "idle" /\ pc' = "persist" /\ inbox' = inbox
              => \A c \in Served : ~conn[c].peer]_vars
    BY <1>1
<1>3. Init => TypeInv /\ ServedInv
    BY InitTypeInv, InitServed
<1>4. TypeInv /\ ServedInv /\ [Next]_vars => TypeInv' /\ ServedInv'
    BY StepTypeInv, StepServed
<1> QED BY <1>2, <1>3, <1>4, PTL DEF Spec, NoTimeoutUnderOperator

----------------------------------------------------------------------------
(* What an attached client sees.                                           *)

\* The replay of a live connection leads up to its broadcast cursor without a gap, and
\* the last event written leads up to the replay, unless the receiver has lagged:
\* then at least a whole buffer is still to come.
Cursor(r, end) ==
    /\ r.pos <= end + 1
    /\ \A i \in 1 .. Len(r.replay) : r.replay[i] = r.pos - 1 - Len(r.replay) + i
    /\ \/ r.last = r.pos - 1 - Len(r.replay)
       \/ r.replay = <<>> /\ r.last < r.pos - 1 /\ end - r.pos + 1 >= Cap

CursorsLeadOn == \A c \in Clients : conn[c].st = "live" => Cursor(conn[c], sent)

\* More events do not disturb a cursor.
LEMMA CursorGrows ==
    ASSUME NEW r \in Conns, NEW m \in Nat, NEW n \in Nat, Cursor(r, m), m <= n
    PROVE  Cursor(r, n)
<1>1. r.pos \in Int /\ Cap \in Int
    BY WorkerAssumption DEF Conns
<1>2. r.pos <= n + 1
    BY <1>1 DEF Cursor
<1>3. m - r.pos + 1 >= Cap => n - r.pos + 1 >= Cap
    BY <1>1
<1> QED BY <1>2, <1>3 DEF Cursor

\* EventHub::subscribe takes the history and the receiver under one lock.
LEMMA SubscribeCursor ==
    ASSUME TypeInv, NEW c \in Clients, Subscribe(c)
    PROVE  Cursor(conn'[c], sent')
<1> USE WorkerAssumption
<1>0. conn \in [Clients -> Conns] /\ conn[c] \in Conns /\ HubOK /\ HistoryIsTail
    BY DEF TypeInv
<1>1. /\ conn'[c].replay = history /\ conn'[c].pos = sent + 1
      /\ conn'[c].last = sent - Len(history) /\ sent' = sent
    BY <1>0 DEF Subscribe, Conns, hub
<1>2. sent \in Nat /\ Len(history) \in Nat
    BY <1>0, LenProperties DEF HubOK
<1> QED BY <1>0, <1>1, <1>2 DEF Cursor, HistoryIsTail

\* The rest of a run of events that leads up to p leads up to p.
LEMMA TailLeadsOn ==
    ASSUME NEW s \in Seq(Int), s # <<>>, NEW p \in Int,
           \A i \in 1 .. Len(s) : s[i] = p - Len(s) + i
    PROVE  /\ Head(s) = p - Len(Tail(s))
           /\ \A i \in 1 .. Len(Tail(s)) : Tail(s)[i] = p - Len(Tail(s)) + i
<1>1. Len(s) \in Nat /\ Len(s) # 0
    BY LenProperties, EmptySeq
<1>2. /\ Len(Tail(s)) = Len(s) - 1
      /\ \A i \in 1 .. Len(Tail(s)) : Tail(s)[i] = s[i + 1]
    BY HeadTailProperties
<1>3. Head(s) = s[1] /\ s[1] = p - Len(s) + 1
    BY <1>1
<1>4. Head(s) = p - Len(Tail(s))
    BY <1>1, <1>2, <1>3
<1>5. ASSUME NEW i \in 1 .. Len(Tail(s)) PROVE Tail(s)[i] = p - Len(Tail(s)) + i
  <2>1. i + 1 \in 1 .. Len(s)
      BY <1>1, <1>2
  <2> QED BY <1>1, <1>2, <2>1
<1> QED BY <1>4, <1>5

\* A replay that leads up to the cursor, and the live events from the cursor on, are
\* one run of consecutive events.
LEMMA ReplayThenLive ==
    ASSUME NEW s \in Seq(Int), NEW p \in Int, NEW e \in Int, p <= e + 1,
           \A i \in 1 .. Len(s) : s[i] = p - 1 - Len(s) + i
    PROVE  LET up == s \o [i \in 1 .. e - p + 1 |-> p + i - 1]
           IN /\ up \in Seq(Int) /\ Len(up) = Len(s) + e - p + 1
              /\ \A i \in 1 .. Len(up) : up[i] = p - 1 - Len(s) + i
<1> DEFINE n == e - p + 1
           t == [i \in 1 .. e - p + 1 |-> p + i - 1]
           up == s \o t
<1>1. n \in Nat /\ Len(s) \in Nat
    BY LenProperties
<1>2. t \in Seq(Int) /\ Len(t) = n
  <2>1. t \in [1 .. n -> Int]
      OBVIOUS
  <2> QED BY <1>1, <2>1, SeqDef, LenProperties
<1>3. \A i \in 1 .. n : t[i] = p + i - 1
    OBVIOUS
<1> HIDE DEF n, t
<1>4. /\ up \in Seq(Int) /\ Len(up) = Len(s) + n
      /\ \A i \in 1 .. Len(s) + n : up[i] = IF i <= Len(s) THEN s[i] ELSE t[i - Len(s)]
    BY <1>2, ConcatProperties
<1> HIDE DEF up
<1>5. ASSUME NEW i \in 1 .. Len(up) PROVE up[i] = p - 1 - Len(s) + i
  <2>1. CASE i <= Len(s)
    <3>1. i \in 1 .. Len(s) /\ i \in 1 .. Len(s) + n
        BY <1>1, <1>4, <2>1
    <3>2. up[i] = s[i]
        BY <1>4, <2>1, <3>1
    <3> QED BY <3>1, <3>2
  <2>2. CASE i > Len(s)
    <3>1. i - Len(s) \in 1 .. n
        BY <1>1, <1>4, <2>2
    <3>2. t[i - Len(s)] = p + (i - Len(s)) - 1
        BY <1>3, <3>1
    <3>3. up[i] = t[i - Len(s)]
        BY <1>1, <1>4, <2>2
    <3> QED BY <1>1, <3>2, <3>3
  <2> QED BY <1>1, <1>4, <2>1, <2>2
<1>6. Len(up) = Len(s) + e - p + 1
    BY <1>1, <1>4 DEF n
<1> QED BY <1>4, <1>5, <1>6 DEF up, t

\* write_line moves on by one event.
LEMMA WriteCursor ==
    ASSUME TypeInv, NEW c \in Clients, Write(c), Cursor(conn[c], sent)
    PROVE  Cursor(conn'[c], sent')
<1> USE WorkerAssumption
<1>0. conn \in [Clients -> Conns] /\ conn[c] \in Conns /\ sent' = sent
    BY DEF TypeInv, Write, hub
<1>1. /\ conn[c].replay \in Seq(1 .. MaxEvents) /\ conn[c].pos \in Nat /\ conn[c].last \in Nat
      /\ sent \in Nat /\ Len(conn[c].replay) \in Nat
    BY <1>0, LenProperties DEF Conns, TypeInv, HubOK
<1>2. CASE conn[c].replay # <<>>
  <2>1. conn' = [conn EXCEPT ![c] =
            [conn[c] EXCEPT !.last = Head(conn[c].replay), !.replay = Tail(conn[c].replay)]]
      BY <1>2 DEF Write
  <2>2. /\ conn'[c].last = Head(conn[c].replay) /\ conn'[c].pos = conn[c].pos
        /\ conn'[c].replay = Tail(conn[c].replay)
      BY <1>0, <2>1 DEF Conns
  <2>3. /\ conn[c].replay \in Seq(Int) /\ conn[c].pos - 1 \in Int
        /\ \A i \in 1 .. Len(conn[c].replay) :
              conn[c].replay[i] = conn[c].pos - 1 - Len(conn[c].replay) + i
      BY <1>1 DEF Cursor
  <2>4. /\ Head(conn[c].replay) = conn[c].pos - 1 - Len(Tail(conn[c].replay))
        /\ \A i \in 1 .. Len(Tail(conn[c].replay)) :
              Tail(conn[c].replay)[i] = conn[c].pos - 1 - Len(Tail(conn[c].replay)) + i
      BY <1>2, <2>3, TailLeadsOn
  <2> QED BY <1>0, <2>2, <2>4 DEF Cursor
<1>3. CASE conn[c].replay = <<>>
  <2>1. conn' = [conn EXCEPT ![c] =
            [conn[c] EXCEPT !.last = conn[c].pos, !.pos = conn[c].pos + 1]]
      BY <1>3 DEF Write
  <2>2. /\ conn'[c].last = conn[c].pos /\ conn'[c].pos = conn[c].pos + 1
        /\ conn'[c].replay = <<>> /\ Len(conn'[c].replay) = 0
      BY <1>0, <1>3, <2>1 DEF Conns
  <2>3. sent - conn[c].pos + 1 \in 1 .. Cap
      BY <1>3 DEF Write, Ready
  <2> QED BY <1>0, <1>1, <2>2, <2>3 DEF Cursor
<1> QED BY <1>2, <1>3

LEMMA StepCursors ==
    TypeInv /\ TypeInv' /\ ServedInv /\ CursorsLeadOn /\ [Next]_vars => CursorsLeadOn'
<1> SUFFICES ASSUME TypeInv, TypeInv', ServedInv, CursorsLeadOn, [Next]_vars,
                    NEW d \in Clients, conn'[d].st = "live"
             PROVE  Cursor(conn'[d], sent')
    BY DEF CursorsLeadOn
<1> USE WorkerAssumption
<1>0. /\ conn \in [Clients -> Conns] /\ conn[d] \in Conns /\ HubOK
      /\ conn[d].st = "live" => Cursor(conn[d], sent)
    BY DEF TypeInv, CursorsLeadOn
<1>1. ASSUME conn'[d] = conn[d], sent' \in {sent, sent + 1} PROVE Cursor(conn'[d], sent')
  <2>1. sent' \in Nat /\ sent \in Nat
      BY DEF TypeInv, HubOK
  <2>2. sent <= sent'
      BY <1>1, <2>1
  <2>3. Cursor(conn[d], sent)
      BY <1>0, <1>1
  <2> QED BY <1>0, <1>1, <2>1, <2>2, <2>3, CursorGrows
<1>2. CASE Exit \/ Killed
    BY <1>0, <1>2 DEF Exit, Killed, Gone, NoConn
<1>3. CASE RunStep /\ ~Exit
  <2>1. conn' = conn /\ sent' \in {sent, sent + 1}
      BY <1>3 DEF RunStep, TurnEvent, AwaitInput, TurnEndsRun, TakeFrame, Poll, Persist,
                  PersistFails, RunEnd, Publish, attach, hub
  <2> QED BY <1>1, <2>1
<1>4. CASE Resume
  <2>1. Served = {} /\ conn' = conn
      BY <1>4 DEF Resume, attach, ServedInv, NoneServed
  <2> QED BY <2>1 DEF Served
<1>5. CASE UNCHANGED vars
    BY <1>1, <1>5 DEF vars, attach, hub
<1>6. ASSUME NEW c \in Clients,
             \/ ConnStep(c) \/ Accept(c) \/ Reject(c) \/ Write(c) \/ Leave(c)
             \/ \E kind \in {"message", "end"} : Send(c, kind)
      PROVE  Cursor(conn'[d], sent')
  <2>1. sent' = sent /\ (c # d => conn'[d] = conn[d])
      BY <1>0, <1>6 DEF ConnStep, Subscribe, Lagged, WriteFails, Read, ReadEnds, Accept, Reject,
                        Write, Leave, Send, hub
  <2>2. CASE c # d
      BY <1>1, <2>1, <2>2
  <2>3. CASE c = d
    <3>1. CASE Subscribe(d)
        BY <3>1, SubscribeCursor
    <3>2. CASE Write(d)
        BY <1>0, <3>2, WriteCursor DEF Write, Ready
    <3>3. CASE Lagged(d)
      <4>1. /\ conn'[d].pos = sent - Cap + 1 /\ conn'[d].replay = <<>>
            /\ conn'[d].last = conn[d].last /\ Len(conn'[d].replay) = 0
            /\ conn[d].replay = <<>> /\ sent - conn[d].pos + 1 > Cap /\ Cursor(conn[d], sent)
          BY <1>0, <3>3 DEF Lagged, Conns
      <4>2. conn[d].pos \in Nat /\ conn[d].last \in Nat /\ sent \in Nat
          BY <1>0 DEF Conns, HubOK
      <4>3. conn[d].last <= conn[d].pos - 1
          BY <4>1, <4>2 DEF Cursor
      <4> QED BY <2>1, <4>1, <4>2, <4>3 DEF Cursor
    <3>4. CASE Leave(d)
      <4>1. /\ conn'[d].pos = conn[d].pos /\ conn'[d].replay = conn[d].replay
            /\ conn'[d].last = conn[d].last /\ conn[d].st = "live"
          BY <1>0, <3>4 DEF Leave, Conns
      <4> QED BY <1>0, <2>1, <4>1 DEF Cursor
    <3>5. CASE WriteFails(d) \/ Accept(d) \/ Reject(d)
      <4>1. CASE WriteFails(d)
          BY <1>0, <4>1 DEF WriteFails, NoConn
      <4>2. CASE Accept(d)
          BY <1>0, <4>2 DEF Accept, Conns
      <4>3. CASE Reject(d)
          BY <1>0, <4>3 DEF Reject, Conns
      <4> QED BY <3>5, <4>1, <4>2, <4>3
    <3>6. CASE Read(d) \/ ReadEnds(d) \/ \E kind \in {"message", "end"} : Send(d, kind)
        BY <1>1, <2>1, <3>6 DEF Read, ReadEnds, Send
    <3> QED BY <1>6, <2>3, <3>1, <3>2, <3>3, <3>4, <3>5, <3>6 DEF ConnStep
  <2> QED BY <2>2, <2>3
<1> QED BY <1>2, <1>3, <1>4, <1>5, <1>6 DEF Next, RunStep

\* A connection whose cursor leads on sees everything.
LEMMA CursorsShowAll == TypeInv /\ CursorsLeadOn => AttachSeesAll
<1> SUFFICES ASSUME TypeInv, CursorsLeadOn, NEW c \in Clients, conn[c].st = "live"
             PROVE  LET up == Upcoming(c)
                    IN /\ up = <<>> => conn[c].last = sent
                       /\ up # <<>> => /\ up[Len(up)] = sent
                                       /\ \A i \in 2 .. Len(up) : up[i] = up[i - 1] + 1
                                       /\ \/ up[1] = conn[c].last + 1
                                          \/ up[1] > conn[c].last + 1 /\ Len(up) >= Cap
    BY DEF AttachSeesAll
<1> USE WorkerAssumption
<1>1. conn[c] \in Conns /\ HubOK /\ Cursor(conn[c], sent)
    BY DEF TypeInv, CursorsLeadOn
<1>2. PICK rep, pos, last, e, up :
          /\ rep = conn[c].replay /\ pos = conn[c].pos /\ last = conn[c].last /\ e = sent
          /\ up = Upcoming(c)
    OBVIOUS
<1>3. /\ rep \in Seq(Int) /\ pos \in Int /\ last \in Int /\ e \in Int /\ Len(rep) \in Nat
    BY <1>1, <1>2, LenProperties DEF Conns, HubOK
<1>4. /\ pos <= e + 1
      /\ \A i \in 1 .. Len(rep) : rep[i] = pos - 1 - Len(rep) + i
      /\ \/ last = pos - 1 - Len(rep)
         \/ rep = <<>> /\ last < pos - 1 /\ e - pos + 1 >= Cap
    BY <1>1, <1>2 DEF Cursor
<1>5. up = rep \o [i \in 1 .. e - pos + 1 |-> pos + i - 1]
    BY <1>2 DEF Upcoming
<1>6. /\ up \in Seq(Int) /\ Len(up) = Len(rep) + e - pos + 1
      /\ \A i \in 1 .. Len(up) : up[i] = pos - 1 - Len(rep) + i
    BY <1>3, <1>4, <1>5, ReplayThenLive
<1>7. Len(up) \in Nat /\ (up = <<>> <=> Len(up) = 0) /\ (rep = <<>> => Len(rep) = 0)
    BY <1>6, EmptySeq, LenProperties
<1>8. up = <<>> => last = e
    BY <1>3, <1>4, <1>6, <1>7
<1>9. ASSUME up # <<>>
      PROVE  /\ up[Len(up)] = e
             /\ \A i \in 2 .. Len(up) : up[i] = up[i - 1] + 1
             /\ \/ up[1] = last + 1
                \/ up[1] > last + 1 /\ Len(up) >= Cap
  <2>1. 1 \in 1 .. Len(up) /\ Len(up) \in 1 .. Len(up)
      BY <1>7, <1>9
  <2>2. up[Len(up)] = e
      BY <1>3, <1>6, <2>1
  <2>3. ASSUME NEW i \in 2 .. Len(up) PROVE up[i] = up[i - 1] + 1
    <3>1. i \in 1 .. Len(up) /\ i - 1 \in 1 .. Len(up)
        BY <1>7
    <3>2. up[i] = pos - 1 - Len(rep) + i /\ up[i - 1] = pos - 1 - Len(rep) + (i - 1)
        BY <1>6, <3>1
    <3>3. i \in Int
        OBVIOUS
    <3> QED BY <1>3, <3>2, <3>3
  <2>4. up[1] = pos - Len(rep)
      BY <1>3, <1>6, <2>1
  <2>5. \/ up[1] = last + 1
        \/ up[1] > last + 1 /\ Len(up) >= Cap
      BY <1>3, <1>4, <1>6, <1>7, <2>4
  <2> QED BY <2>2, <2>3, <2>5
<1> QED BY <1>2, <1>8, <1>9

\* EventHub: whenever a client attaches and however slowly it reads, it gets the whole
\* ring and then every event, once and in order; only a receiver that has fallen more
\* than a buffer behind skips, and never more than it must.
THEOREM AttachedClientsSeeAll == Spec => []AttachSeesAll
<1>1. Init => TypeInv /\ ServedInv /\ CursorsLeadOn
    BY InitTypeInv, InitServed DEF Init, NoConn, CursorsLeadOn
<1>2. TypeInv /\ ServedInv /\ CursorsLeadOn /\ [Next]_vars => (TypeInv /\ ServedInv /\ CursorsLeadOn)'
    BY StepTypeInv, StepServed, StepCursors
<1> QED BY <1>1, <1>2, CursorsShowAll, PTL DEF Spec

----------------------------------------------------------------------------
(* The session.                                                            *)

\* From the rename of session.json on, the run's conversation does not change.
SavedAtEnd == pc \in {"end", "drain"} => saved = Conversation

\* A client that reads the RunEnd finds the whole conversation in session.json:
\* run() persists before it publishes, and takes no frame in between.
THEOREM RunEndMeansSaved == Spec => []EndImpliesSaved
<1>1. Init => SavedAtEnd
    BY DEF Init, SavedAtEnd
<1>2. SavedAtEnd /\ [Next]_vars => SavedAtEnd'
  <2> SUFFICES ASSUME SavedAtEnd, [Next]_vars PROVE SavedAtEnd'
      OBVIOUS
  <2>1. CASE Persist
      BY <2>1 DEF Persist, SavedAtEnd, Conversation
  <2>2. CASE TakeFrame \/ Resume \/ Exit \/ Killed
      BY <2>2 DEF TakeFrame, Resume, Exit, Killed, Gone, SavedAtEnd
  <2>3. CASE TurnEvent \/ AwaitInput \/ TurnEndsRun \/ Poll \/ PersistFails \/ RunEnd
    <3>1. saved' = saved /\ Conversation' = Conversation
        BY <2>3 DEF TurnEvent, AwaitInput, TurnEndsRun, Poll, PersistFails, RunEnd, session,
                    Conversation
    <3>2. pc' \in {"end", "drain"} => pc = "end"
        BY <2>3 DEF TurnEvent, AwaitInput, TurnEndsRun, Poll, PersistFails, RunEnd
    <3> QED BY <3>1, <3>2 DEF SavedAtEnd
  <2>4. CASE \/ UNCHANGED vars
             \/ \E c \in Clients :
                   \/ ConnStep(c) \/ Accept(c) \/ Reject(c) \/ Write(c) \/ Leave(c)
                   \/ \E kind \in {"message", "end"} : Send(c, kind)
    <3>1. pc' = pc /\ UNCHANGED session
        BY <2>4 DEF ConnStep, Subscribe, Lagged, WriteFails, Read, ReadEnds, Accept, Reject, Write,
                    Leave, Send, vars
    <3> QED BY <3>1 DEF session, SavedAtEnd, Conversation
  <2> QED BY <2>1, <2>2, <2>3, <2>4 DEF Next, RunStep
<1>3. SavedAtEnd => EndImpliesSaved
    BY DEF SavedAtEnd, EndImpliesSaved
<1> QED BY <1>1, <1>2, <1>3, PTL DEF Spec

----------------------------------------------------------------------------
(* The frames.                                                             *)

\* The frames of c in s have ascending numbers; those in s come before those in t;
\* none in s has a number past n.
Asc(s, c) ==
    \A i, j \in 1 .. Len(s) : i < j /\ s[i].from = c /\ s[j].from = c => s[i].num < s[j].num
Before(s, t, c) ==
    \A i \in 1 .. Len(s), j \in 1 .. Len(t) :
        s[i].from = c /\ t[j].from = c => s[i].num < t[j].num
UpTo(s, n) == \A i \in 1 .. Len(s) : s[i].num <= n

LEMMA TailKeeps ==
    ASSUME NEW s \in Seq(Frames), s # <<>>, NEW t \in Seq(Frames), NEW c, NEW n
    PROVE  /\ Asc(s, c) => Asc(Tail(s), c)
           /\ Before(s, t, c) => Before(Tail(s), t, c)
           /\ Before(t, s, c) => Before(t, Tail(s), c)
           /\ UpTo(s, n) => UpTo(Tail(s), n)
           /\ Asc(s, c) => Before(<<Head(s)>>, Tail(s), c)
           /\ Before(s, t, c) => Before(<<Head(s)>>, t, c)
           /\ Before(t, s, c) => Before(t, <<Head(s)>>, c)
<1>1. Len(s) \in Nat /\ Len(s) # 0 /\ Len(t) \in Nat
    BY LenProperties, EmptySeq
<1>2. /\ Len(Tail(s)) = Len(s) - 1
      /\ \A i \in 1 .. Len(Tail(s)) : Tail(s)[i] = s[i + 1]
    BY HeadTailProperties
<1>3. \A i \in 1 .. Len(Tail(s)) : i + 1 \in 1 .. Len(s) /\ 1 < i + 1
    BY <1>1, <1>2
<1>4. Head(s) = s[1] /\ 1 \in 1 .. Len(s) /\ Len(<<Head(s)>>) = 1 /\ <<Head(s)>>[1] = s[1]
    BY <1>1
<1>5. Asc(s, c) => Asc(Tail(s), c)
  <2> SUFFICES ASSUME Asc(s, c), NEW i \in 1 .. Len(Tail(s)), NEW j \in 1 .. Len(Tail(s)), i < j,
                      Tail(s)[i].from = c, Tail(s)[j].from = c
               PROVE  Tail(s)[i].num < Tail(s)[j].num
      BY DEF Asc
  <2>1. i + 1 < j + 1
      OBVIOUS
  <2> QED BY <1>2, <1>3, <2>1 DEF Asc
<1>6. Before(s, t, c) => Before(Tail(s), t, c)
    BY <1>2, <1>3 DEF Before
<1>7. Before(t, s, c) => Before(t, Tail(s), c)
    BY <1>2, <1>3 DEF Before
<1>8. UpTo(s, n) => UpTo(Tail(s), n)
    BY <1>2, <1>3 DEF UpTo
<1>9. Asc(s, c) => Before(<<Head(s)>>, Tail(s), c)
    BY <1>2, <1>3, <1>4 DEF Asc, Before
<1>10. Before(s, t, c) => Before(<<Head(s)>>, t, c)
    BY <1>4 DEF Before
<1>11. Before(t, s, c) => Before(t, <<Head(s)>>, c)
    BY <1>4 DEF Before
<1> QED BY <1>5, <1>6, <1>7, <1>8, <1>9, <1>10, <1>11

LEMMA AppendKeeps ==
    ASSUME NEW s \in Seq(Frames), NEW t \in Seq(Frames), NEW f \in Frames, NEW c, NEW n
    PROVE  /\ Asc(s, c) /\ Before(s, <<f>>, c) => Asc(Append(s, f), c)
           /\ Before(s, t, c) /\ Before(<<f>>, t, c) => Before(Append(s, f), t, c)
           /\ Before(t, s, c) /\ Before(t, <<f>>, c) => Before(t, Append(s, f), c)
           /\ UpTo(s, n) /\ f.num <= n => UpTo(Append(s, f), n)
<1> DEFINE a == Append(s, f)
<1>1. Len(s) \in Nat /\ Len(t) \in Nat
    BY LenProperties
<1>2. /\ Len(a) = Len(s) + 1 /\ a[Len(s) + 1] = f
      /\ \A i \in 1 .. Len(s) : a[i] = s[i]
    BY AppendProperties
<1>3. \A i \in 1 .. Len(a) : i \in 1 .. Len(s) \/ i = Len(s) + 1
    BY <1>1, <1>2
<1>4. Len(<<f>>) = 1 /\ 1 \in 1 .. Len(<<f>>) /\ <<f>>[1] = f
    OBVIOUS
<1> HIDE DEF a
<1>5. Asc(s, c) /\ Before(s, <<f>>, c) => Asc(a, c)
  <2> SUFFICES ASSUME Asc(s, c), Before(s, <<f>>, c), NEW i \in 1 .. Len(a), NEW j \in 1 .. Len(a),
                      i < j, a[i].from = c, a[j].from = c
               PROVE  a[i].num < a[j].num
      BY DEF Asc
  <2>1. i \in 1 .. Len(s)
      BY <1>1, <1>2
  <2>2. CASE j \in 1 .. Len(s)
      BY <1>2, <2>1, <2>2 DEF Asc
  <2>3. CASE j = Len(s) + 1
      BY <1>2, <1>4, <2>1, <2>3 DEF Before
  <2> QED BY <1>3, <2>2, <2>3
<1>6. Before(s, t, c) /\ Before(<<f>>, t, c) => Before(a, t, c)
    BY <1>2, <1>3, <1>4 DEF Before
<1>7. Before(t, s, c) /\ Before(t, <<f>>, c) => Before(t, a, c)
    BY <1>2, <1>3, <1>4 DEF Before
<1>8. UpTo(s, n) /\ f.num <= n => UpTo(a, n)
    BY <1>2, <1>3 DEF UpTo
<1> QED BY <1>5, <1>6, <1>7, <1>8 DEF a

LEMMA ConcatKeeps ==
    ASSUME NEW s \in Seq(Frames), NEW t \in Seq(Frames), NEW u \in Seq(Frames), NEW c
    PROVE  /\ Asc(s, c) /\ Asc(t, c) /\ Before(s, t, c) => Asc(s \o t, c)
           /\ Before(s, u, c) /\ Before(t, u, c) => Before(s \o t, u, c)
<1> DEFINE a == s \o t
<1>1. Len(s) \in Nat /\ Len(t) \in Nat /\ Len(u) \in Nat
    BY LenProperties
<1>2. /\ Len(a) = Len(s) + Len(t)
      /\ \A i \in 1 .. Len(s) + Len(t) : a[i] = IF i <= Len(s) THEN s[i] ELSE t[i - Len(s)]
    BY ConcatProperties
<1>3. \A i \in 1 .. Len(a) : \/ i \in 1 .. Len(s) /\ a[i] = s[i]
                             \/ i > Len(s) /\ i - Len(s) \in 1 .. Len(t) /\ a[i] = t[i - Len(s)]
    BY <1>1, <1>2
<1> HIDE DEF a
<1>4. Asc(s, c) /\ Asc(t, c) /\ Before(s, t, c) => Asc(a, c)
  <2> SUFFICES ASSUME Asc(s, c), Asc(t, c), Before(s, t, c), NEW i \in 1 .. Len(a),
                      NEW j \in 1 .. Len(a), i < j, a[i].from = c, a[j].from = c
               PROVE  a[i].num < a[j].num
      BY DEF Asc
  <2>1. CASE i \in 1 .. Len(s) /\ j \in 1 .. Len(s) /\ a[i] = s[i] /\ a[j] = s[j]
      BY <2>1 DEF Asc
  <2>2. CASE /\ i \in 1 .. Len(s) /\ a[i] = s[i]
             /\ j > Len(s) /\ j - Len(s) \in 1 .. Len(t) /\ a[j] = t[j - Len(s)]
      BY <2>2 DEF Before
  <2>3. CASE /\ i > Len(s) /\ i - Len(s) \in 1 .. Len(t) /\ a[i] = t[i - Len(s)]
             /\ j > Len(s) /\ j - Len(s) \in 1 .. Len(t) /\ a[j] = t[j - Len(s)]
    <3>1. i - Len(s) < j - Len(s)
        BY <1>1
    <3> QED BY <2>3, <3>1 DEF Asc
  <2>4. CASE i > Len(s) /\ j \in 1 .. Len(s)
      BY <1>1, <2>4
  <2> QED BY <1>3, <2>1, <2>2, <2>3, <2>4
<1>5. Before(s, u, c) /\ Before(t, u, c) => Before(a, u, c)
    BY <1>3 DEF Before
<1> QED BY <1>4, <1>5 DEF a

\* The way of a frame is wire, inbox, run: what is further on is older, and no number
\* has been given that is not counted.
InOrder(c) ==
    /\ Asc(taken, c) /\ Asc(inbox, c) /\ Asc(wire[c], c)
    /\ Before(taken, inbox, c) /\ Before(taken, wire[c], c) /\ Before(inbox, wire[c], c)
OwnWire(c) == \A i \in 1 .. Len(wire[c]) : wire[c][i].from = c
FramesCounted ==
    /\ UpTo(taken, frames) /\ UpTo(inbox, frames)
    /\ \A c \in Clients : UpTo(wire[c], frames)
FrameInv == FramesCounted /\ \A c \in Clients : InOrder(c) /\ OwnWire(c)

LEMMA NothingInOrder ==
    ASSUME NEW t, NEW c, NEW n
    PROVE  Asc(<<>>, c) /\ Before(<<>>, t, c) /\ Before(t, <<>>, c) /\ UpTo(<<>>, n)
    BY DEF Asc, Before, UpTo

\* next_input takes the oldest frame.
LEMMA TakeInOrder == ASSUME TypeInv, FrameInv, TakeFrame PROVE FrameInv'
<1>1. inbox \in Seq(Frames) /\ taken \in Seq(Frames) /\ wire \in [Clients -> Seq(Frames)]
    BY DEF TypeInv, InputOK, SessionOK
<1>2. /\ inbox # <<>> /\ inbox' = Tail(inbox) /\ frames' = frames /\ wire' = wire
      /\ taken' = taken \/ taken' = Append(taken, Head(inbox))
    BY DEF TakeFrame, attach
<1>3. Tail(inbox) \in Seq(Frames) /\ Head(inbox) \in Frames /\ Head(inbox).num <= frames
  <2>1. Head(inbox) = inbox[1] /\ 1 \in 1 .. Len(inbox)
      BY <1>1, <1>2, EmptySeq
  <2> QED BY <1>1, <1>2, <2>1, HeadTailProperties DEF FrameInv, FramesCounted, UpTo
<1>4. ASSUME NEW c \in Clients PROVE InOrder(c)' /\ OwnWire(c)'
  <2>1. /\ Asc(taken, c) /\ Asc(inbox, c) /\ Asc(wire[c], c) /\ OwnWire(c)
        /\ Before(taken, inbox, c) /\ Before(taken, wire[c], c) /\ Before(inbox, wire[c], c)
        /\ wire[c] \in Seq(Frames)
      BY <1>1 DEF FrameInv, InOrder
  <2>2. /\ Asc(Tail(inbox), c) /\ Before(Tail(inbox), wire[c], c) /\ Before(taken, Tail(inbox), c)
        /\ Before(<<Head(inbox)>>, Tail(inbox), c) /\ Before(<<Head(inbox)>>, wire[c], c)
        /\ Before(taken, <<Head(inbox)>>, c)
      BY <1>1, <1>2, <2>1, TailKeeps
  <2>3. CASE taken' = taken
      BY <1>2, <2>1, <2>2, <2>3 DEF InOrder, OwnWire
  <2>4. CASE taken' = Append(taken, Head(inbox))
    <3>1. /\ Asc(Append(taken, Head(inbox)), c)
          /\ Before(Append(taken, Head(inbox)), Tail(inbox), c)
          /\ Before(Append(taken, Head(inbox)), wire[c], c)
        BY <1>1, <1>3, <2>1, <2>2, AppendKeeps
    <3> QED BY <1>2, <2>1, <2>2, <2>4, <3>1 DEF InOrder, OwnWire
  <2> QED BY <1>2, <2>3, <2>4
<1>5. FramesCounted'
  <2>1. UpTo(Tail(inbox), frames) /\ UpTo(Append(taken, Head(inbox)), frames)
      BY <1>1, <1>2, <1>3, TailKeeps, AppendKeeps DEF FrameInv, FramesCounted
  <2> QED BY <1>2, <2>1 DEF FrameInv, FramesCounted
<1> QED BY <1>4, <1>5 DEF FrameInv

\* read_inbound_frames hands on the oldest frame of its connection, or drops it.
LEMMA ReadInOrder == ASSUME TypeInv, FrameInv, NEW d \in Clients, Read(d) PROVE FrameInv'
<1>1. /\ inbox \in Seq(Frames) /\ taken \in Seq(Frames) /\ wire \in [Clients -> Seq(Frames)]
      /\ wire[d] \in Seq(Frames)
    BY DEF TypeInv, InputOK, SessionOK
<1>2. /\ wire[d] # <<>> /\ wire'[d] = Tail(wire[d]) /\ frames' = frames /\ taken' = taken
      /\ inbox' = inbox \/ inbox' = Append(inbox, Head(wire[d]))
      /\ \A c \in Clients : c # d => wire'[c] = wire[c]
    BY <1>1 DEF Read, session
<1>3. /\ Tail(wire[d]) \in Seq(Frames) /\ Head(wire[d]) \in Frames /\ Head(wire[d]).num <= frames
      /\ Head(wire[d]).from = d /\ OwnWire(d)'
  <2>1. Head(wire[d]) = wire[d][1] /\ 1 \in 1 .. Len(wire[d])
      BY <1>1, <1>2, EmptySeq
  <2>2. /\ Tail(wire[d]) \in Seq(Frames) /\ Head(wire[d]) \in Frames
        /\ Len(Tail(wire[d])) = Len(wire[d]) - 1 /\ Len(wire[d]) \in Nat
        /\ \A i \in 1 .. Len(Tail(wire[d])) : Tail(wire[d])[i] = wire[d][i + 1]
      BY <1>1, <1>2, HeadTailProperties, LenProperties
  <2>3. \A i \in 1 .. Len(wire[d]) : wire[d][i].from = d /\ wire[d][i].num <= frames
      BY DEF FrameInv, FramesCounted, UpTo, OwnWire
  <2>4. \A i \in 1 .. Len(Tail(wire[d])) : i + 1 \in 1 .. Len(wire[d])
      BY <2>2
  <2>5. \A i \in 1 .. Len(Tail(wire[d])) : Tail(wire[d])[i].from = d
      BY <2>2, <2>3, <2>4
  <2> QED BY <1>2, <2>1, <2>2, <2>3, <2>5 DEF OwnWire
<1>4. ASSUME NEW c \in Clients PROVE InOrder(c)' /\ OwnWire(c)'
  <2>1. /\ Asc(taken, c) /\ Asc(inbox, c) /\ Asc(wire[c], c) /\ OwnWire(c)
        /\ Before(taken, inbox, c) /\ Before(taken, wire[c], c) /\ Before(inbox, wire[c], c)
        /\ wire[c] \in Seq(Frames)
      BY <1>1 DEF FrameInv, InOrder
  <2>2. /\ Asc(wire'[c], c) /\ OwnWire(c)'
        /\ Before(taken, wire'[c], c) /\ Before(inbox, wire'[c], c)
    <3>1. CASE c = d
      <4>1. /\ Asc(Tail(wire[c]), c) /\ Before(taken, Tail(wire[c]), c)
            /\ Before(inbox, Tail(wire[c]), c)
          BY <1>1, <1>2, <2>1, <3>1, TailKeeps
      <4> QED BY <1>2, <1>3, <3>1, <4>1
    <3>2. CASE c # d
        BY <1>2, <2>1, <3>2 DEF OwnWire
    <3> QED BY <3>1, <3>2
  <2>3. CASE inbox' = inbox
      BY <1>2, <2>1, <2>2, <2>3 DEF InOrder
  <2>4. CASE inbox' = Append(inbox, Head(wire[d]))
    <3>1. /\ Before(taken, <<Head(wire[d])>>, c) /\ Before(inbox, <<Head(wire[d])>>, c)
          /\ Before(<<Head(wire[d])>>, wire'[c], c)
      <4>1. CASE c = d
          BY <1>1, <1>2, <2>1, <4>1, TailKeeps
      <4>2. CASE c # d
        <5>1. \A i \in 1 .. Len(<<Head(wire[d])>>) : <<Head(wire[d])>>[i].from # c
            BY <1>3, <4>2
        <5> QED BY <5>1 DEF Before
      <4> QED BY <4>1, <4>2
    <3>2. wire'[c] \in Seq(Frames)
        BY <1>1, <1>2, <1>3
    <3>3. /\ Asc(Append(inbox, Head(wire[d])), c)
          /\ Before(taken, Append(inbox, Head(wire[d])), c)
          /\ Before(Append(inbox, Head(wire[d])), wire'[c], c)
        BY <1>1, <1>3, <2>1, <2>2, <3>1, <3>2, AppendKeeps
    <3> QED BY <1>2, <2>1, <2>2, <2>4, <3>3 DEF InOrder
  <2> QED BY <1>2, <2>3, <2>4
<1>5. FramesCounted'
  <2>1. UpTo(Tail(wire[d]), frames) /\ UpTo(Append(inbox, Head(wire[d])), frames)
      BY <1>1, <1>2, <1>3, TailKeeps, AppendKeeps DEF FrameInv, FramesCounted
  <2>2. \A c \in Clients : UpTo(wire'[c], frames)
      BY <1>2, <2>1 DEF FrameInv, FramesCounted
  <2> QED BY <1>2, <2>1, <2>2 DEF FrameInv, FramesCounted
<1> QED BY <1>4, <1>5 DEF FrameInv

\* A client numbers its frames in the order it sends them.
LEMMA SendInOrder ==
    ASSUME TypeInv, FrameInv, NEW d \in Clients, NEW kind \in {"message", "end"}, Send(d, kind)
    PROVE  FrameInv'
<1> USE WorkerAssumption
<1> DEFINE f == [from |-> d, num |-> frames + 1, kind |-> kind]
<1>1. /\ inbox \in Seq(Frames) /\ taken \in Seq(Frames) /\ wire \in [Clients -> Seq(Frames)]
      /\ wire[d] \in Seq(Frames) /\ frames \in 0 .. MaxFrames
    BY DEF TypeInv, InputOK, SessionOK
<1>2. /\ frames' = frames + 1 /\ taken' = taken /\ inbox' = inbox /\ frames < MaxFrames
      /\ wire'[d] = Append(wire[d], f) /\ \A c \in Clients : c # d => wire'[c] = wire[c]
    BY <1>1 DEF Send, session
<1>3. f \in Frames /\ f.from = d /\ f.num = frames + 1
    BY <1>1, <1>2 DEF Frames
<1> HIDE DEF f
<1>4. ASSUME NEW s \in Seq(Frames), UpTo(s, frames), NEW c
      PROVE  UpTo(s, frames + 1) /\ Before(s, <<f>>, c)
  <2>0. \A i \in 1 .. Len(s) : s[i] \in Frames
      BY <1>4, ElementOfSeq
  <2>1. \A i \in 1 .. Len(s) : s[i].num \in Int /\ s[i].num <= frames
      BY <1>4, <2>0 DEF UpTo, Frames
  <2>2. \A i \in 1 .. Len(s) : s[i].num < frames + 1
      BY <1>1, <2>1
  <2>3. UpTo(s, frames + 1)
      BY <1>1, <2>1 DEF UpTo
  <2>4. Len(<<f>>) = 1 /\ <<f>>[1].num = frames + 1
      BY <1>3
  <2> QED BY <2>2, <2>3, <2>4 DEF Before
<1>5. ASSUME NEW c \in Clients PROVE InOrder(c)' /\ OwnWire(c)'
  <2>1. /\ Asc(taken, c) /\ Asc(inbox, c) /\ Asc(wire[c], c) /\ OwnWire(c)
        /\ Before(taken, inbox, c) /\ Before(taken, wire[c], c) /\ Before(inbox, wire[c], c)
        /\ UpTo(taken, frames) /\ UpTo(inbox, frames) /\ UpTo(wire[c], frames)
      BY <1>1 DEF FrameInv, InOrder, FramesCounted
  <2>2. CASE c # d
      BY <1>2, <2>1, <2>2 DEF InOrder, OwnWire
  <2>3. CASE c = d
    <3>1. Before(taken, <<f>>, c) /\ Before(inbox, <<f>>, c) /\ Before(wire[d], <<f>>, c)
        BY <1>1, <1>4, <2>1, <2>3
    <3>2. /\ Asc(Append(wire[d], f), c) /\ Before(taken, Append(wire[d], f), c)
          /\ Before(inbox, Append(wire[d], f), c)
        BY <1>1, <1>3, <2>1, <2>3, <3>1, AppendKeeps
    <3>3. OwnWire(d)'
      <4>1. /\ Len(wire'[d]) = Len(wire[d]) + 1 /\ Len(wire[d]) \in Nat
            /\ wire'[d][Len(wire[d]) + 1] = f
            /\ \A i \in 1 .. Len(wire[d]) : wire'[d][i] = wire[d][i]
          BY <1>1, <1>2, <1>3, AppendProperties, LenProperties
      <4>2. \A i \in 1 .. Len(wire'[d]) : i \in 1 .. Len(wire[d]) \/ i = Len(wire[d]) + 1
          BY <4>1
      <4> QED BY <1>3, <2>1, <2>3, <4>1, <4>2 DEF OwnWire
    <3> QED BY <1>2, <2>1, <2>3, <3>2, <3>3 DEF InOrder
  <2> QED BY <2>2, <2>3
<1>6. FramesCounted'
  <2>1. f.num <= frames + 1
      BY <1>1, <1>3
  <2>2. UpTo(Append(wire[d], f), frames + 1)
      BY <1>1, <1>3, <1>4, <2>1, AppendKeeps DEF FrameInv, FramesCounted
  <2>3. \A c \in Clients : UpTo(wire'[c], frames + 1)
      BY <1>1, <1>2, <1>4, <2>2 DEF FrameInv, FramesCounted
  <2> QED BY <1>1, <1>2, <1>4, <2>3 DEF FrameInv, FramesCounted
<1> QED BY <1>5, <1>6 DEF FrameInv

LEMMA StepFrames == TypeInv /\ FrameInv /\ [Next]_vars => FrameInv'
<1> SUFFICES ASSUME TypeInv, FrameInv, [Next]_vars PROVE FrameInv'
    OBVIOUS
<1>1. CASE UNCHANGED <<taken, inbox, wire, frames>>
    BY <1>1 DEF FrameInv, FramesCounted, InOrder, OwnWire
<1>2. CASE RunEnd \/ Resume
  <2>1. /\ taken' \in {taken, <<>>} /\ inbox' \in {inbox, <<>>}
        /\ wire' = wire /\ frames' = frames
      BY <1>2 DEF RunEnd, Resume, attach, session
  <2>2. ASSUME NEW c \in Clients PROVE InOrder(c)' /\ OwnWire(c)'
    <3>1. /\ Asc(taken, c) /\ Asc(inbox, c) /\ Asc(wire[c], c) /\ OwnWire(c)
          /\ Before(taken, inbox, c) /\ Before(taken, wire[c], c) /\ Before(inbox, wire[c], c)
        BY DEF FrameInv, InOrder
    <3>2. Asc(taken', c) /\ Asc(inbox', c) /\ Asc(wire'[c], c)
        BY <2>1, <3>1, NothingInOrder
    <3>3. Before(taken', wire'[c], c) /\ Before(inbox', wire'[c], c)
        BY <2>1, <3>1, NothingInOrder
    <3>4. Before(taken', inbox', c)
        BY <2>1, <3>1, NothingInOrder
    <3> QED BY <2>1, <3>1, <3>2, <3>3, <3>4 DEF InOrder, OwnWire
  <2>3. UpTo(taken', frames) /\ UpTo(inbox', frames)
      BY <2>1, NothingInOrder DEF FrameInv, FramesCounted
  <2> QED BY <2>1, <2>2, <2>3 DEF FrameInv, FramesCounted
<1>3. CASE Exit \/ Killed
  <2>1. /\ taken' = taken /\ inbox' = <<>> /\ frames' = frames
        /\ \A c \in Clients : wire'[c] = <<>>
      BY <1>3 DEF Exit, Killed, Gone, session
  <2>2. ASSUME NEW c \in Clients PROVE InOrder(c)' /\ OwnWire(c)'
    <3>1. Asc(taken, c)
        BY DEF FrameInv, InOrder
    <3>2. InOrder(c)'
        BY <2>1, <3>1, NothingInOrder DEF InOrder
    <3> QED BY <2>1, <3>2 DEF OwnWire
  <2> QED BY <2>1, <2>2, NothingInOrder DEF FrameInv, FramesCounted
<1>4. CASE TurnEvent \/ AwaitInput \/ TurnEndsRun \/ Poll \/ Persist \/ PersistFails
           \/ UNCHANGED vars
  <2>1. UNCHANGED <<taken, inbox, wire, frames>>
      BY <1>4 DEF TurnEvent, AwaitInput, TurnEndsRun, Poll, Persist, PersistFails, attach, session,
                  vars
  <2> QED BY <1>1, <2>1
<1>5. ASSUME NEW c \in Clients,
             \/ Subscribe(c) \/ Lagged(c) \/ WriteFails(c) \/ ReadEnds(c)
             \/ Accept(c) \/ Reject(c) \/ Write(c) \/ Leave(c)
      PROVE  FrameInv'
  <2>1. UNCHANGED <<taken, inbox, wire, frames>>
      BY <1>5 DEF Subscribe, Lagged, WriteFails, ReadEnds, Accept, Reject, Write, Leave, session
  <2> QED BY <1>1, <2>1
<1> QED BY <1>2, <1>3, <1>4, <1>5, TakeInOrder, ReadInOrder, SendInOrder
        DEF Next, RunStep, ConnStep

\* read_inbound_frames and the inbox: whatever the connections interleave and the full
\* inbox drops, no frame of a client overtakes another of it or arrives twice.
THEOREM FramesArriveInOrder == Spec => []FramesInOrder
<1>1. Init => TypeInv /\ FrameInv
    BY InitTypeInv, NothingInOrder DEF Init, FrameInv, FramesCounted, InOrder, OwnWire
<1>2. TypeInv /\ FrameInv /\ [Next]_vars => TypeInv' /\ FrameInv'
    BY StepTypeInv, StepFrames
<1>3. TypeInv /\ FrameInv => FramesInOrder
  <2> SUFFICES ASSUME TypeInv, FrameInv, NEW c \in Clients
               PROVE  Asc((taken \o inbox) \o wire[c], c)
      BY DEF FramesInOrder, Asc
  <2>1. inbox \in Seq(Frames) /\ taken \in Seq(Frames) /\ wire[c] \in Seq(Frames)
      BY DEF TypeInv, InputOK, SessionOK
  <2>2. taken \o inbox \in Seq(Frames)
      BY <2>1, ConcatProperties
  <2>3. Asc(taken \o inbox, c) /\ Before(taken \o inbox, wire[c], c)
      BY <2>1, ConcatKeeps DEF FrameInv, InOrder
  <2> QED BY <2>1, <2>2, <2>3, ConcatKeeps DEF FrameInv, InOrder
<1> QED BY <1>1, <1>2, <1>3, PTL DEF Spec

=============================================================================
