------------------------------- MODULE Worker -------------------------------
(***************************************************************************)
(* A worker process, `caliban __agent-worker`: it runs one agent, fans its *)
(* events out to the clients attached to the per-agent socket, feeds the   *)
(* frames they send into the run, ends an agent nobody attends, and leaves *)
(* a session that a later worker can resume.                               *)
(*                                                                         *)
(* An event is its number in the order of publication; a frame is the      *)
(* connection it came over and its number.  What the agent does in a turn  *)
(* is module TurnLoop; here a turn publishes some events and ends.         *)
(***************************************************************************)
EXTENDS Integers, Sequences, FiniteSets

CONSTANTS
    Clients,    \* attach connections
    Cap,        \* HISTORY_CAP, also the capacity of the broadcast channel
    InboxCap,   \* capacity of the inbound channel
    IdlePolls,  \* polls that pass before the idle deadline
    MaxEvents,  \* bound: events of one worker
    MaxFrames,  \* bound: frames of all clients
    MaxLives,   \* bound: workers, each resuming the one before
    Unsaved     \* there is no session.json

ASSUME WorkerAssumption ==
    /\ IsFiniteSet(Clients)
    /\ Cap \in Nat \ {0} /\ InboxCap \in Nat \ {0} /\ IdlePolls \in Nat
    /\ MaxEvents \in Nat \ {0} /\ MaxFrames \in Nat /\ MaxLives \in Nat \ {0}

VARIABLES
    interactive, \* spec.interactive
    pc,          \* where run() is
    sent,        \* events published
    history,     \* EventHub.history
    inbox,       \* the shared channel of inbound frames
    polls,       \* polls left before the deadline of next_input
    hasClients,  \* has_clients
    conn,        \* each connection: its task, the peer, what is left to replay,
                 \* the broadcast cursor, the last event written
    wire,        \* frames a client sent that its reader has not read
    reader,      \* each connection's read_inbound_frames task
    frames,      \* frames sent so far, by all clients
    taken,       \* messages the run took from the inbox
    base,        \* the conversation this worker started from
    saved,       \* session.json
    lives        \* workers so far

hub     == <<sent, history>>
attach  == <<hasClients, conn, wire, reader, frames>>
session == <<taken, base, saved, lives>>
vars    == <<interactive, pc, hub, inbox, polls, attach, session>>

Frames == [from : Clients, num : 1 .. MaxFrames, kind : {"message", "end"}]

NoConn == [st |-> "away", peer |-> FALSE, replay |-> <<>>, pos |-> 1, last |-> 0]
Served == {c \in Clients : conn[c].st \in {"joined", "live"}}
Alive  == pc # "exited"

\* The run holds the inbox's receiver.
Receiving == pc \in {"turn", "idle", "persist", "end", "unsaved"}

\* What is still to be written to c: the rest of the replay, then the live events.
Upcoming(c) ==
    conn[c].replay \o [i \in 1 .. sent - conn[c].pos + 1 |-> conn[c].pos + i - 1]

\* The conversation the run has come to: RunEnd's final_messages.
Conversation == base \o taken

Init ==
    /\ interactive \in BOOLEAN /\ pc = "turn"
    /\ sent = 0 /\ history = <<>> /\ inbox = <<>> /\ polls = IdlePolls
    /\ hasClients = 0
    /\ conn = [c \in Clients |-> NoConn]
    /\ wire = [c \in Clients |-> <<>>] /\ reader = [c \in Clients |-> "none"]
    /\ frames = 0
    /\ taken = <<>> /\ base = <<>> /\ saved = Unsaved /\ lives = 1

----------------------------------------------------------------------------
(* The run.                                                                *)

\* Variant: a full channel holds the sender back.
PublishBlocking ==
    /\ \A c \in Clients : conn[c].st = "live" => sent - conn[c].pos + 1 < Cap
    /\ sent' = sent + 1
    /\ history' = Append(IF Len(history) = Cap THEN Tail(history) ELSE history, sent + 1)

\* EventHub::publish: the oldest line goes once the ring is full, and the event is
\* broadcast whether anybody listens or keeps up.
Publish ==
    /\ sent' = sent + 1
    /\ history' = Append(IF Len(history) = Cap THEN Tail(history) ELSE history, sent + 1)

\* An event of the turn.  One is kept back for the RunEnd.
TurnEvent ==
    /\ pc = "turn" /\ sent < MaxEvents - 1
    /\ Publish
    /\ UNCHANGED <<interactive, pc, inbox, polls, attach, session>>

\* An interactive run ends a turn: next_input arms the deadline.
AwaitInput ==
    /\ pc = "turn" /\ interactive
    /\ pc' = "idle" /\ polls' = IdlePolls
    /\ UNCHANGED <<interactive, hub, inbox, attach, session>>

\* A run without input source is over, and any run that a refusal, a budget or
\* a provider error ends.
TurnEndsRun ==
    /\ pc = "turn" /\ pc' = "persist"
    /\ UNCHANGED <<interactive, hub, inbox, polls, attach, session>>

\* next_input receives a frame.
TakeFrame ==
    /\ pc = "idle" /\ inbox # <<>>
    /\ inbox' = Tail(inbox)
    /\ \/ /\ Head(inbox).kind = "message"
          /\ taken' = Append(taken, Head(inbox)) /\ pc' = "turn"
       \/ /\ Head(inbox).kind = "end"
          /\ pc' = "persist" /\ UNCHANGED taken
    /\ UNCHANGED <<interactive, hub, polls, attach, base, saved, lives>>

\* Variant: the deadline is reset at every poll.
PollAlwaysResets ==
    /\ pc = "idle"
    /\ \/ (hasClients > 0 \/ polls > 0) /\ polls' = IdlePolls /\ UNCHANGED pc
       \/ hasClients = 0 /\ polls = 0 /\ pc' = "persist" /\ UNCHANGED polls
    /\ UNCHANGED <<interactive, hub, inbox, attach, session>>

\* next_input wakes: a client in attendance resets the deadline; without one the
\* run ends once it has passed.
Poll ==
    /\ pc = "idle"
    /\ \/ hasClients > 0 /\ polls' = IdlePolls /\ UNCHANGED pc
       \/ hasClients = 0 /\ polls = 0 /\ pc' = "persist" /\ UNCHANGED polls
       \/ hasClients = 0 /\ polls > 0 /\ polls' = polls - 1 /\ UNCHANGED pc
    /\ UNCHANGED <<interactive, hub, inbox, attach, session>>

\* Variant: the RunEnd goes out before the session is saved.
PersistLast ==
    /\ pc = "persist" /\ pc' = "end"
    /\ UNCHANGED <<interactive, hub, inbox, polls, attach, session>>

\* persist_session: a temporary file, renamed over session.json.
Persist ==
    /\ pc = "persist" /\ pc' = "end"
    /\ saved' = Conversation
    /\ UNCHANGED <<interactive, hub, inbox, polls, attach, taken, base, lives>>

\* The write or the rename fails: only logged.
PersistFails ==
    /\ pc = "persist" /\ pc' = "unsaved"
    /\ UNCHANGED <<interactive, hub, inbox, polls, attach, session>>

\* The RunEnd is published; the stream and with it the inbox's receiver are gone.
RunEnd ==
    /\ pc \in {"end", "unsaved"}
    /\ pc' = IF pc = "end" THEN "drain" ELSE "drain_unsaved"
    /\ Publish
    /\ inbox' = <<>>
    /\ UNCHANGED <<interactive, polls, attach, session>>

\* The process is gone, and with it its tasks and its sockets.
Gone ==
    /\ pc' = "exited" /\ inbox' = <<>> /\ hasClients' = 0
    /\ conn' = [c \in Clients |->
          IF conn[c].st = "away" THEN conn[c] ELSE [NoConn EXCEPT !.st = "done"]]
    /\ wire' = [c \in Clients |-> <<>>]
    /\ reader' = [c \in Clients |-> IF reader[c] = "none" THEN "none" ELSE "stopped"]
    /\ UNCHANGED <<interactive, hub, polls, frames, session>>

\* The grace period passes and run() returns.
Exit == pc \in {"drain", "drain_unsaved"} /\ Gone

\* The daemon signals the worker, or it fails: no RunEnd, no session.
Killed == Alive /\ Gone

\* A new worker with resume_session: load_resume_messages finds the messages, or
\* the run starts from its prompt.  It has a session directory of its own.
Resume ==
    /\ pc = "exited" /\ lives < MaxLives /\ lives' = lives + 1
    /\ base' = IF saved = Unsaved THEN <<>> ELSE saved
    /\ saved' = Unsaved /\ taken' = <<>>
    /\ pc' = "turn" /\ sent' = 0 /\ history' = <<>> /\ polls' = IdlePolls
    /\ UNCHANGED <<interactive, inbox, attach>>

----------------------------------------------------------------------------
(* The attached clients.                                                   *)

\* A dial whose handshake fails or takes too long: only this connection is dropped.
Reject(c) ==
    /\ Alive /\ conn[c].st = "away"
    /\ conn' = [conn EXCEPT ![c].st = "done"]
    /\ UNCHANGED <<interactive, pc, hub, inbox, polls, hasClients, wire, reader, frames, session>>

\* Variant: the guard is dropped as soon as it is made.
AcceptUncounted(c) ==
    /\ Alive /\ conn[c].st = "away"
    /\ conn' = [conn EXCEPT ![c] = [@ EXCEPT !.st = "joined", !.peer = TRUE]]
    /\ reader' = [reader EXCEPT ![c] = IF interactive THEN "reading" ELSE "none"]
    /\ UNCHANGED <<interactive, pc, hub, inbox, polls, hasClients, wire, frames, session>>

\* A dial that authenticates, and the start of serve_attach_client: the client is
\* counted and, if the run takes input, its frames get a reader.
Accept(c) ==
    /\ Alive /\ conn[c].st = "away"
    /\ conn' = [conn EXCEPT ![c] = [@ EXCEPT !.st = "joined", !.peer = TRUE]]
    /\ hasClients' = hasClients + 1
    /\ reader' = [reader EXCEPT ![c] = IF interactive THEN "reading" ELSE "none"]
    /\ UNCHANGED <<interactive, pc, hub, inbox, polls, wire, frames, session>>

\* Variant: the receiver is made before the lock is taken for the snapshot.
SubscribeUnlocked(c) ==
    /\ conn[c].st = "joined"
    /\ \E pos \in {sent, sent + 1} : pos > 0 /\
          conn' = [conn EXCEPT ![c] = [@ EXCEPT !.st = "live", !.replay = history, !.pos = pos,
                                                !.last = sent - Len(history)]]
    /\ UNCHANGED <<interactive, pc, hub, inbox, polls, hasClients, wire, reader,
                   frames, session>>

\* EventHub::subscribe: the history to replay and a receiver of what follows it.
Subscribe(c) ==
    /\ conn[c].st = "joined"
    /\ conn' = [conn EXCEPT ![c] = [@ EXCEPT !.st = "live", !.replay = history,
                                             !.pos = sent + 1, !.last = sent - Len(history)]]
    /\ UNCHANGED <<interactive, pc, hub, inbox, polls, hasClients, wire, reader,
                   frames, session>>

\* The receiver has fallen behind: it goes on with the oldest event still buffered.
Lagged(c) ==
    /\ conn[c].st = "live" /\ conn[c].replay = <<>> /\ sent - conn[c].pos + 1 > Cap
    /\ conn' = [conn EXCEPT ![c].pos = sent - Cap + 1]
    /\ UNCHANGED <<interactive, pc, hub, inbox, polls, hasClients, wire, reader,
                   frames, session>>

\* Something is to be written to c.
Ready(c) ==
    /\ conn[c].st = "live"
    /\ \/ conn[c].replay # <<>>
       \/ sent - conn[c].pos + 1 \in 1 .. Cap

\* write_line to a client that reads.
Write(c) ==
    /\ Ready(c) /\ conn[c].peer
    /\ conn' = [conn EXCEPT ![c] =
          IF conn[c].replay # <<>>
          THEN [conn[c] EXCEPT !.last = Head(conn[c].replay), !.replay = Tail(conn[c].replay)]
          ELSE [conn[c] EXCEPT !.last = conn[c].pos, !.pos = conn[c].pos + 1]]
    /\ UNCHANGED <<interactive, pc, hub, inbox, polls, hasClients, wire, reader,
                   frames, session>>

\* write_line fails because the client has left: the task ends and is not counted
\* any more.  Nothing else tells it that the client has left.
WriteFails(c) ==
    /\ Ready(c) /\ ~conn[c].peer
    /\ conn' = [conn EXCEPT ![c] = [NoConn EXCEPT !.st = "done"]]
    /\ hasClients' = hasClients - 1
    /\ UNCHANGED <<interactive, pc, hub, inbox, polls, wire, reader, frames, session>>

\* The client types a message or ends its input.  Nobody reads what it sends to a
\* run that takes none.
Send(c, kind) ==
    /\ interactive /\ conn[c].peer /\ frames < MaxFrames
    /\ frames' = frames + 1
    /\ wire' = [wire EXCEPT ![c] =
                  Append(@, [from |-> c, num |-> frames + 1, kind |-> kind])]
    /\ UNCHANGED <<interactive, pc, hub, inbox, polls, hasClients, conn, reader,
                   session>>

\* The client closes its connection.
Leave(c) ==
    /\ conn[c].peer
    /\ conn' = [conn EXCEPT ![c].peer = FALSE]
    /\ UNCHANGED <<interactive, pc, hub, inbox, polls, hasClients, wire, reader,
                   frames, session>>

\* Variant: the line buffer is not cleared, so that a frame may be read again.
ReadUncleared(c) ==
    /\ reader[c] = "reading" /\ wire[c] # <<>>
    /\ wire' \in {wire, [wire EXCEPT ![c] = Tail(@)]}
    /\ inbox' = IF Receiving /\ Len(inbox) < InboxCap THEN Append(inbox, Head(wire[c])) ELSE inbox
    /\ UNCHANGED <<interactive, pc, hub, polls, hasClients, conn, reader, frames, session>>

\* read_inbound_frames: a frame goes into the inbox, or is dropped when it is full;
\* a closed inbox stops the reader.  Lines that are no frame or too long are skipped.
Read(c) ==
    /\ reader[c] = "reading" /\ wire[c] # <<>>
    /\ wire' = [wire EXCEPT ![c] = Tail(@)]
    /\ \/ /\ Receiving
          /\ inbox' = IF Len(inbox) < InboxCap THEN Append(inbox, Head(wire[c])) ELSE inbox
          /\ UNCHANGED reader
       \/ /\ ~Receiving
          /\ reader' = [reader EXCEPT ![c] = "stopped"] /\ UNCHANGED inbox
    /\ UNCHANGED <<interactive, pc, hub, polls, hasClients, conn, frames, session>>

\* The reader meets the end of the stream.
ReadEnds(c) ==
    /\ reader[c] = "reading" /\ wire[c] = <<>> /\ ~conn[c].peer
    /\ reader' = [reader EXCEPT ![c] = "stopped"]
    /\ UNCHANGED <<interactive, pc, hub, inbox, polls, hasClients, conn, wire, frames,
                   session>>

RunStep ==
    \/ TurnEvent \/ AwaitInput \/ TurnEndsRun \/ TakeFrame \/ Poll
    \/ Persist \/ PersistFails \/ RunEnd \/ Exit

\* What the connection's two tasks do by themselves.  A write to a client that is
\* there waits for the client to read.
ConnStep(c) == Subscribe(c) \/ Lagged(c) \/ WriteFails(c) \/ Read(c) \/ ReadEnds(c)

Next ==
    \/ RunStep \/ Killed \/ Resume
    \/ \E c \in Clients :
          \/ ConnStep(c) \/ Accept(c) \/ Reject(c) \/ Write(c) \/ Leave(c)
          \/ \E kind \in {"message", "end"} : Send(c, kind)

Spec == Init /\ [][Next]_vars

\* The runtime schedules the run's task, whatever the connections do; turns end.
FairSpec == Spec /\ WF_vars(RunStep)

----------------------------------------------------------------------------
(* Properties.                                                             *)

\* The variables hold what the worker and its connections hold.
TypeOK ==
    /\ interactive \in BOOLEAN
    /\ pc \in {"turn", "idle", "persist", "end", "unsaved", "drain", "drain_unsaved", "exited"}
    /\ sent \in 0 .. MaxEvents /\ history \in Seq(1 .. MaxEvents) /\ Len(history) <= Cap
    /\ inbox \in Seq(Frames) /\ Len(inbox) <= InboxCap
    /\ polls \in 0 .. IdlePolls /\ hasClients \in 0 .. Cardinality(Clients)
    /\ conn \in [Clients -> [st : {"away", "joined", "live", "done"},
                             peer : BOOLEAN, replay : Seq(1 .. MaxEvents),
                             pos : 1 .. MaxEvents + 1, last : 0 .. MaxEvents]]
    /\ wire \in [Clients -> Seq(Frames)]
    /\ reader \in [Clients -> {"none", "reading", "stopped"}]
    /\ frames \in 0 .. MaxFrames
    /\ taken \in Seq(Frames) /\ base \in Seq(Frames) /\ saved \in Seq(Frames) \cup {Unsaved}
    /\ lives \in 1 .. MaxLives

\* An attached client gets every event from the oldest in the history at the time
\* it attached, each once and in order, wherever the run is when it attaches; a
\* slow client skips only what no longer fits the broadcast buffer.
AttachSeesAll ==
    \A c \in Clients : conn[c].st = "live" =>
        LET up == Upcoming(c)
        IN /\ up = <<>> => conn[c].last = sent
           /\ up # <<>> => /\ up[Len(up)] = sent
                           /\ \A i \in 2 .. Len(up) : up[i] = up[i - 1] + 1
                           /\ \/ up[1] = conn[c].last + 1
                              \/ up[1] > conn[c].last + 1 /\ Len(up) >= Cap

\* What a client sends reaches the run in the order it was sent and at most once,
\* although the connections share the inbox and a full inbox drops frames.
FramesInOrder ==
    \A c \in Clients :
        LET all == (taken \o inbox) \o wire[c]
        IN \A i, j \in 1 .. Len(all) :
              i < j /\ all[i].from = c /\ all[j].from = c => all[i].num < all[j].num

\* A client that has seen the RunEnd can rely on session.json: it holds the whole
\* conversation of the run, unless writing it failed.
EndImpliesSaved ==
    \A c \in Clients :
        conn[c].st = "live" /\ pc = "drain" /\ conn[c].last = sent => saved = Conversation

\* The idle timeout never ends a run while an operator who was let in is still
\* connected, however long the operator has been silent.
NoTimeoutUnderOperator ==
    [][pc = "idle" /\ pc' = "persist" /\ inbox' = inbox =>
          \A c \in Served : ~conn[c].peer]_vars

\* The run can always go on by itself: no client, be it stalled, gone or flooding
\* the inbox, ever holds it back.
RunNeverBlocked == Alive => ENABLED RunStep

\* An idle run that no connection task is serving ends, gets input or is attached to.
UnattendedEnds == (pc = "idle" /\ Served = {}) ~> (pc # "idle" \/ Served # {})
=============================================================================
