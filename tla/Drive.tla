-------------------------------- MODULE Drive --------------------------------
(***************************************************************************)
(* A driven run: caliban-drive's DriveSession, the DriveRegistry of the    *)
(* serve commands with its permission bridge, and the surfaces in front of *)
(* it.  Over ACP a session/prompt is pumped for one turn; over HTTP and    *)
(* MCP the client itself polls, sends input and answers permissions.       *)
(*                                                                         *)
(* Events, prompts and permission questions are numbers in the order in    *)
(* which they arise.  A client sends a prompt of a session only when the   *)
(* one before has returned, as ACP has it; its cancels, each handled by a  *)
(* task of its own, may be handled at any later time.                      *)
(***************************************************************************)
EXTENDS Naturals, Sequences

CONSTANTS
    Surfaces,   \* "acp", "poll"
    Settle,     \* SETTLE: empty polls before a turn counts as over
    HubCap,     \* capacity of the hub's broadcast channel (history_cap, 1024)
    MaxEvents,  \* bound: events of the run before its RunEnd
    MaxAsks,    \* bound: permission questions
    MaxPrompts, \* bound: prompts, or inputs sent through the registry
    MaxCancels  \* bound: session/cancel notifications

ASSUME DriveAssumption ==
    /\ Surfaces \subseteq {"acp", "poll"} /\ Settle \in Nat \ {0} /\ HubCap \in Nat \ {0}
    /\ MaxEvents \in Nat /\ MaxAsks \in Nat /\ MaxPrompts \in Nat /\ MaxCancels \in Nat

VARIABLES
    surface,    \* how the client drives the run
    connected,  \* the client's connection is open (ACP; the others have none)
    held,       \* the registry, and with it the run's DriveSession, is alive
    run,        \* the run: where it is, the published status, its question, its prompt
    cancelled,  \* the run's cancellation token
    inputs,     \* channel of the ChannelInputProvider
    published,  \* events published by the hub
    rx,         \* the event up to which the drainer's receiver has read or skipped
    buf,        \* RunEntry.events: the buffer the drainer fills and poll reads
    draining,   \* the drainer's subscription has not ended
    overwritten,\* history: events the channel dropped before the drainer read them
    permq,      \* perm_rx: questions nobody has looked at
    pending,    \* RunEntry.pending: the surfaced question, 0 if none
    answer,     \* what the oneshot of each question carries
    asks,       \* questions asked so far
    ran,        \* history: questions whose tool was executed
    allowed,    \* history: questions the client has allowed
    pump,       \* the handler of session/prompt, and (history) behind: how many settling
                \* polls in a row have found a task that was still to run
    cursor,     \* SessionState.cursor, or the cursor of a polling client
    flag,       \* SessionState.cancel
    cancels,    \* session/cancel notifications in flight, and sent
    prompts,    \* prompts sent
    delivered,  \* history: events the client has received
    reply       \* what the last prompt returned

request == <<permq, pending, answer, asks, ran, allowed>>
client  == <<surface, prompts, cancels, connected>>
drainer == <<rx, buf, draining>>
events  == <<published, overwritten, drainer>>
vars    == <<client, held, run, cancelled, inputs, events, request, pump, cursor,
             flag, delivered, reply>>

Questions == 1 .. MaxAsks
Terminal  == {"Done", "Failed"}
NoPump    == [pc |-> "idle", cursor |-> 0, empty |-> FALSE, settle |-> 0,
              behind |-> 0, q |-> 0, got |-> "none"]

Init ==
    /\ surface \in Surfaces /\ connected = TRUE /\ held = TRUE
    /\ run = [pc |-> "none", status |-> "Starting", q |-> 0, prompt |-> 0]
    /\ cancelled = FALSE /\ inputs = <<>>
    /\ published = 0 /\ overwritten = {} /\ rx = 0 /\ buf = <<>> /\ draining = TRUE
    /\ permq = <<>> /\ pending = 0 /\ answer = [q \in Questions |-> "none"]
    /\ asks = 0 /\ ran = {} /\ allowed = {}
    /\ pump = NoPump /\ cursor = 0 /\ flag = FALSE
    /\ cancels = [sent |-> 0, handled |-> 0] /\ prompts = 0
    /\ delivered = <<>> /\ reply = "none"

----------------------------------------------------------------------------
(* The run: drive_run, the hub and the permission bridge.                  *)

\* Hub::publish sends to the broadcast channel, which never waits: with HubCap
\* events unread the new one takes the place of the oldest.
Publish ==
    /\ published' = published + 1
    /\ overwritten' = IF published + 1 > rx + HubCap
                      THEN overwritten \cup {published + 1 - HubCap} ELSE overwritten

\* The run publishes an event.
Emit ==
    /\ run.pc = "turn" /\ published < MaxEvents
    /\ Publish
    /\ UNCHANGED <<client, held, run, cancelled, inputs, drainer, request, pump,
                   cursor, flag, delivered, reply>>

\* DriveAskHandler::prompt: a gated tool call asks, and waits for its own oneshot.
\* Without anybody to read the question it is refused with AskDenied, which the
\* run's mode may turn into an allow (ModeFilter under dontAsk or acceptEdits).
Ask ==
    /\ run.pc = "turn" /\ asks < MaxAsks
    /\ asks' = asks + 1
    /\ \/ held /\ permq' = Append(permq, asks + 1) /\ UNCHANGED answer
       \/ /\ ~held /\ UNCHANGED permq
          /\ \E v \in {"deny", "mode"} : answer' = [answer EXCEPT ![asks + 1] = v]
    /\ run' = [run EXCEPT !.pc = "asking", !.q = asks + 1]
    /\ UNCHANGED <<client, held, cancelled, inputs, events, pending, ran, allowed, pump,
                   cursor, flag, delivered, reply>>

\* The answer arrives: the tool runs or is refused.
Answered ==
    /\ run.pc = "asking" /\ answer[run.q] # "none"
    /\ run' = [run EXCEPT !.pc = "turn", !.q = 0]
    /\ ran' = IF answer[run.q] \in {"allow", "mode"} THEN ran \cup {run.q} ELSE ran
    /\ UNCHANGED <<client, held, cancelled, inputs, events, permq, pending, answer, asks,
                   allowed, pump, cursor, flag, delivered, reply>>

\* ASK_TIMEOUT passes: the tool is refused and the question is left to itself.
AskTimesOut ==
    /\ run.pc = "asking" /\ answer[run.q] = "none"
    /\ run' = [run EXCEPT !.pc = "turn", !.q = 0]
    /\ UNCHANGED <<client, held, cancelled, inputs, events, request, pump, cursor, flag,
                   delivered, reply>>

\* A turn ends: ChannelInputProvider::next_input awaits input.
EndTurn ==
    /\ run.pc = "turn"
    /\ run' = [run EXCEPT !.pc = "await", !.status = "AwaitingInput"]
    /\ UNCHANGED <<client, held, cancelled, inputs, events, request, pump, cursor, flag,
                   delivered, reply>>

\* next_input receives: a message resumes the run, an EndInput ends it.
TakeInput ==
    /\ run.pc = "await" /\ inputs # <<>>
    /\ inputs' = Tail(inputs)
    /\ \/ /\ Head(inputs) # 0
          /\ run' = [run EXCEPT !.pc = "turn", !.status = "Running", !.prompt = Head(inputs)]
          /\ UNCHANGED <<published, overwritten>>
       \/ /\ Head(inputs) = 0 /\ run' = [run EXCEPT !.pc = "ending"]
          /\ Publish
    /\ UNCHANGED <<client, held, cancelled, drainer, request, pump, cursor, flag,
                   delivered, reply>>

\* The run is over, by itself or because its token is cancelled: the RunEnd is
\* published, then the stream ends.
RunEnd ==
    /\ \/ run.pc = "turn"
       \/ run.pc = "await" /\ cancelled
    /\ run' = [run EXCEPT !.pc = "ending"]
    /\ Publish
    /\ UNCHANGED <<client, held, cancelled, inputs, drainer, request, pump,
                   cursor, flag, delivered, reply>>

\* drive_run publishes the terminal status.
Done ==
    /\ run.pc = "ending"
    /\ run' = [run EXCEPT !.pc = "ended", !.status = "Done"] /\ inputs' = <<>>
    /\ UNCHANGED <<client, held, cancelled, events, request, pump, cursor, flag, delivered,
                   reply>>

\* The stream yields an error: drive_run leaves it and publishes Failed, without RunEnd.
RunFails ==
    /\ run.pc = "turn"
    /\ run' = [run EXCEPT !.pc = "ended", !.status = "Failed"] /\ inputs' = <<>>
    /\ UNCHANGED <<client, held, cancelled, events, request, pump, cursor, flag, delivered,
                   reply>>

\* The registry's drainer receives an event.
Drain ==
    /\ draining /\ rx < published /\ published <= rx + HubCap
    /\ rx' = rx + 1 /\ buf' = Append(buf, rx + 1)
    /\ UNCHANGED <<client, held, run, cancelled, inputs, published, overwritten, draining,
                   request, pump, cursor, flag, delivered, reply>>

\* The receiver finds that it has lagged: it goes on with the oldest event that is
\* still there, and the stream says nothing of the ones between.
Lag ==
    /\ draining /\ published > rx + HubCap
    /\ rx' = published - HubCap
    /\ UNCHANGED <<client, held, run, cancelled, inputs, published, overwritten, buf,
                   draining, request, pump, cursor, flag, delivered, reply>>

\* The subscription sees the terminal status and, the channel emptied, ends.
DrainEnds ==
    /\ draining /\ run.status \in Terminal /\ rx = published
    /\ draining' = FALSE
    /\ UNCHANGED <<client, held, run, cancelled, inputs, published, overwritten, rx, buf,
                   request, pump, cursor, flag, delivered, reply>>

----------------------------------------------------------------------------
(* The registry.                                                           *)

\* The question poll and permit look at: the surfaced one or else the next.
Front == IF pending # 0 THEN pending ELSE IF permq # <<>> THEN Head(permq) ELSE 0
Pulled == IF pending = 0 /\ permq # <<>> THEN Tail(permq) ELSE permq

\* Variant: the answer goes to whatever the run is asking.
PermitCurrent(q, v) ==
    /\ permq' = Pulled
    /\ pending' = IF Front = q THEN 0 ELSE Front
    /\ answer' = IF run.pc = "asking" /\ answer[run.q] = "none"
                 THEN [answer EXCEPT ![run.q] = v] ELSE answer

\* DriveRegistry::permit: the answer goes to the surfaced question if it is the
\* one meant, and is without effect when the run has given it up.
Permit(q, v) ==
    /\ permq' = Pulled
    /\ pending' = IF Front = q THEN 0 ELSE Front
    /\ answer' = IF Front = q /\ run.pc = "asking" /\ run.q = q /\ answer[q] = "none"
                 THEN [answer EXCEPT ![q] = v] ELSE answer

\* DriveRegistry::spawn: the run starts with its prompt.
Spawn(p) == run' = [pc |-> "turn", status |-> "Running", q |-> 0, prompt |-> p]

\* DriveRegistry::poll, from a cursor.
NewEvents(from) == SubSeq(buf, from + 1, Len(buf))

----------------------------------------------------------------------------
(* The HTTP and MCP surfaces: one request, one call of the registry.       *)

\* create_run
CreateRun ==
    /\ surface = "poll" /\ run.pc = "none" /\ prompts < MaxPrompts
    /\ prompts' = prompts + 1 /\ Spawn(prompts + 1)
    /\ UNCHANGED <<surface, cancels, connected, held, cancelled, inputs, events, request,
                   pump, cursor, flag, delivered, reply>>

\* get_events
GetEvents ==
    /\ surface = "poll" /\ run.pc # "none"
    /\ delivered' = delivered \o NewEvents(cursor) /\ cursor' = Len(buf)
    /\ permq' = Pulled /\ pending' = Front
    /\ UNCHANGED <<client, held, run, cancelled, inputs, events, answer, asks, ran, allowed,
                   pump, flag, reply>>

\* post_input: a message or the end of input (0), refused when the run has ended.
PostInput(end) ==
    /\ surface = "poll" /\ run.pc \notin {"none", "ended"}
    /\ prompts < MaxPrompts /\ prompts' = prompts + 1
    /\ inputs' = Append(inputs, IF end THEN 0 ELSE prompts + 1)
    /\ UNCHANGED <<surface, cancels, connected, held, run, cancelled, events, request, pump,
                   cursor, flag, delivered, reply>>

\* post_permit: for any question the client may have heard of.
PostPermit(q, v) ==
    /\ surface = "poll" /\ q <= asks
    /\ Permit(q, v)
    /\ allowed' = IF v = "allow" THEN allowed \cup {q} ELSE allowed
    /\ UNCHANGED <<client, held, run, cancelled, inputs, events, asks, ran, pump, cursor,
                   flag, delivered, reply>>

----------------------------------------------------------------------------
(* The ACP surface.                                                        *)

\* The client sends session/prompt or session/cancel.
SendPrompt ==
    /\ surface = "acp" /\ connected /\ pump.pc = "idle" /\ prompts < MaxPrompts
    /\ prompts' = prompts + 1 /\ reply' = "none"
    /\ pump' = [NoPump EXCEPT !.pc = "frame"]
    /\ UNCHANGED <<surface, cancels, connected, held, run, cancelled, inputs, events,
                   request, cursor, flag, delivered>>

SendCancel ==
    /\ surface = "acp" /\ connected /\ pump.pc # "idle" /\ cancels.sent < MaxCancels
    /\ cancels' = [cancels EXCEPT !.sent = @ + 1]
    /\ UNCHANGED <<surface, prompts, connected, held, run, cancelled, inputs, events,
                   request, pump, cursor, flag, delivered, reply>>

\* on_session_cancel only raises the flag that the pump looks at.
HandleCancel ==
    /\ cancels.handled < cancels.sent
    /\ cancels' = [cancels EXCEPT !.handled = @ + 1] /\ flag' = TRUE
    /\ UNCHANGED <<surface, prompts, connected, held, run, cancelled, inputs, events,
                   request, pump, cursor, delivered, reply>>

\* on_session_prompt lowers the flag and reads the session's cursor.
HandlePrompt ==
    /\ pump.pc = "frame"
    /\ flag' = FALSE
    /\ pump' = [pump EXCEPT !.pc = "route", !.cursor = cursor]
    /\ UNCHANGED <<client, held, run, cancelled, inputs, events, request, cursor, delivered,
                   reply>>

Returned(why) ==
    /\ pump' = NoPump /\ reply' = why

\* The first prompt spawns the run, unless it cannot be built; another resumes it,
\* or is refused when the run has ended.
Route ==
    /\ pump.pc = "route"
    /\ \/ run.pc = "none" /\ Spawn(prompts) /\ UNCHANGED <<inputs, reply>>
          /\ pump' = [pump EXCEPT !.pc = "poll"]
       \/ run.pc = "none" /\ Returned("error") /\ UNCHANGED <<run, inputs>>
       \/ /\ run.pc \notin {"none", "ended"} /\ inputs' = Append(inputs, prompts)
          /\ pump' = [pump EXCEPT !.pc = "poll"] /\ UNCHANGED <<run, reply>>
       \/ run.pc = "ended" /\ Returned("error") /\ UNCHANGED <<run, inputs>>
    /\ UNCHANGED <<client, held, cancelled, events, request, cursor, flag, delivered>>

\* Variant: the advanced cursor is not kept for the next prompt.
FinishForgets(why) ==
    /\ Returned(why) /\ UNCHANGED cursor

\* on_session_prompt keeps the cursor, then replies.
Finish(why) ==
    /\ Returned(why) /\ cursor' = pump.cursor

\* pump_turn sees the flag.
PumpCancelled ==
    /\ pump.pc = "poll" /\ flag
    /\ Finish("cancelled")
    /\ UNCHANGED <<client, held, run, cancelled, inputs, events, request, flag, delivered>>

\* Nothing is on its way to the client: the run's task and the drainer have nothing
\* ready to do, and the pump has seen all of the buffer.
Quiet ==
    /\ ~(run.pc = "await" /\ (inputs # <<>> \/ cancelled)) /\ run.pc # "ending"
    /\ draining => rx = published
    /\ pump.cursor = Len(buf)

\* pump_turn polls, first the buffer: the new events go to the client.
Poll ==
    /\ pump.pc = "poll" /\ ~flag
    /\ LET new == NewEvents(pump.cursor)
       IN /\ delivered' = IF connected THEN delivered \o new ELSE delivered
          /\ pump' = [pump EXCEPT !.pc = "status", !.cursor = Len(buf), !.empty = new = <<>>]
    /\ UNCHANGED <<client, held, run, cancelled, inputs, events, request, cursor,
                   flag, reply>>

\* Variant: a poll that finds the run at work does not start the count again.
SettledKept(still) == IF still THEN pump.settle + 1 ELSE pump.settle

\* How many empty polls at a boundary, or after the end, there have been in a row.
Settled(still) == IF still THEN pump.settle + 1 ELSE 0

\* Then the status and the question: a question is surfaced, and SETTLE empty polls
\* in a row end the turn.  Between two polls the pump sleeps for POLL_INTERVAL,
\* which any number of steps of the other tasks may fill, or none.
PollStatus ==
    /\ pump.pc = "status"
    /\ permq' = Pulled /\ pending' = Front
    /\ LET still == pump.empty /\ run.status \in {"AwaitingInput"} \cup Terminal
       IN \/ /\ Front # 0
             /\ pump' = [pump EXCEPT !.pc = "ask", !.q = Front, !.settle = 0, !.behind = 0]
             /\ UNCHANGED <<cursor, reply>>
          \/ /\ Front = 0 /\ ~(still /\ Settled(still) >= Settle)
             /\ pump' = [pump EXCEPT !.pc = "poll", !.settle = Settled(still),
                            !.behind = IF still /\ ~Quiet THEN @ + 1 ELSE 0]
             /\ UNCHANGED <<cursor, reply>>
          \/ /\ Front = 0 /\ still /\ Settled(still) >= Settle
             /\ Finish(IF run.status = "Failed" THEN "error" ELSE "end_turn")
    /\ UNCHANGED <<client, held, run, cancelled, inputs, events, answer, asks, ran, allowed,
                   flag, delivered>>

\* The client answers session/request_permission; route_response finds the request.
ClientAnswers(v) ==
    /\ connected /\ pump.pc = "ask" /\ pump.got = "none"
    /\ pump' = [pump EXCEPT !.got = v]
    /\ allowed' = IF v = "allow" THEN allowed \cup {pump.q} ELSE allowed
    /\ UNCHANGED <<client, held, run, cancelled, inputs, events, permq, pending, answer,
                   asks, ran, cursor, flag, delivered, reply>>

\* Variant: a request waits for the client and nothing else.
ForwardAnswered ==
    /\ pump.pc = "ask" /\ pump.got # "none"
    /\ Permit(pump.q, pump.got)
    /\ pump' = [pump EXCEPT !.pc = "poll", !.q = 0, !.got = "none"]
    /\ UNCHANGED <<client, held, run, cancelled, inputs, events, asks, ran, allowed, cursor,
                   flag, delivered, reply>>

\* request_client returns the answer, or gives up after its timeout or a cancel;
\* anything but an allow denies.
Forward ==
    /\ pump.pc = "ask"
    /\ \/ pump.got # "none" /\ Permit(pump.q, pump.got)
       \/ pump.got = "none" /\ Permit(pump.q, "deny")
    /\ pump' = [pump EXCEPT !.pc = "poll", !.q = 0, !.got = "none"]
    /\ UNCHANGED <<client, held, run, cancelled, inputs, events, asks, ran, allowed, cursor,
                   flag, delivered, reply>>

----------------------------------------------------------------------------
(* The end of the connection.                                              *)

\* The reader of an ACP connection meets the end of its input.  Over HTTP there is
\* no connection to lose: the registry lives as long as the server.
Disconnect ==
    /\ surface = "acp" /\ connected /\ connected' = FALSE
    /\ UNCHANGED <<surface, prompts, cancels, held, run, cancelled, inputs, events, request,
                   pump, cursor, flag, delivered, reply>>

\* Variant: dropping the session leaves the run alone.
ReleaseLeaks ==
    /\ held /\ ~connected /\ pump.pc = "idle" /\ cancels.handled = cancels.sent
    /\ held' = FALSE /\ permq' = <<>> /\ pending' = 0
    /\ UNCHANGED <<client, run, cancelled, inputs, events, answer, asks, ran, allowed, pump,
                   cursor, flag, delivered, reply>>

\* With the last handler goes the connection's registry: Drop for DriveSession cancels the run,
\* and the questions nobody answered are dropped, which denies them.
Release ==
    /\ held /\ ~connected /\ pump.pc = "idle" /\ cancels.handled = cancels.sent
    /\ held' = FALSE /\ cancelled' = TRUE
    /\ permq' = <<>> /\ pending' = 0
    /\ answer' = [q \in Questions |->
          IF q <= asks /\ answer[q] = "none" THEN "deny" ELSE answer[q]]
    /\ UNCHANGED <<client, run, inputs, events, asks, ran, allowed, pump, cursor, flag,
                   delivered, reply>>

RunStep ==
    \/ Emit \/ Ask \/ Answered \/ AskTimesOut \/ EndTurn \/ TakeInput \/ RunEnd \/ Done
    \/ RunFails
Drainer == Drain \/ Lag \/ DrainEnds
PumpStep == HandlePrompt \/ Route \/ PumpCancelled \/ Poll \/ PollStatus \/ Forward

Next ==
    \/ RunStep \/ Drainer \/ PumpStep \/ HandleCancel \/ Release
    \/ SendPrompt \/ SendCancel \/ Disconnect \/ CreateRun \/ GetEvents
    \/ \E end \in BOOLEAN : PostInput(end)
    \/ \E v \in {"allow", "deny"} :
          \/ ClientAnswers(v)
          \/ \E q \in Questions : PostPermit(q, v)

Spec == Init /\ [][Next]_vars

\* The runtime schedules every task and time passes; turns end.  The client does
\* what it likes.
FairSpec ==
    /\ Spec /\ WF_vars(RunStep) /\ WF_vars(Drainer) /\ WF_vars(PumpStep)
    /\ WF_vars(HandleCancel) /\ WF_vars(Release)

----------------------------------------------------------------------------
(* Properties.                                                             *)

\* A gated tool runs only when the client has allowed that very call, whatever
\* answers come late, for another question, or not at all; a question that is open
\* when the client goes is refused whatever the mode.  Only a call made when there
\* is no client left to ask is the mode's to allow.
NeverFailsOpen == \A q \in ran : q \in allowed \/ answer[q] = "mode"

\* s holds events in their order, each once, and leaves out only such as the channel
\* dropped because the drainer had not read HubCap of them.
InOrder(s) ==
    /\ \A i, j \in 1 .. Len(s) : i < j => s[i] < s[j]
    /\ \A i \in 1 .. Len(s) : \A e \in 1 .. s[i] - 1 :
          e \in overwritten \/ \E j \in 1 .. i - 1 : s[j] = e

\* The client receives the events of the run in order and each once, across prompts
\* and cancelled prompts.  It misses an event in between only when the broadcast
\* channel had overwritten it before the drainer came to it.
UpdatesOnce == InOrder(delivered)

\* s leaves out no published event but the overwritten ones.
HasAll(s) ==
    \A e \in 1 .. published : e \in overwritten \/ \E j \in 1 .. Len(s) : s[j] = e

\* A prompt returns end_turn when the run has taken it up and come to a boundary
\* after it, or has ended, and the client has every event of the turn.  The one
\* exception is that at each of the SETTLE polls in a row there was a task ready,
\* the run's or the drainer's, that had not run: SETTLE - 1 sleeps are all the time
\* the pump gives them.
ReplyAfterTurn ==
    [][reply' = "end_turn" /\ reply # "end_turn" =>
          \/ ~Quiet /\ pump.behind + 1 >= Settle
          \/ /\ run.status = "Done" \/ (run.status = "AwaitingInput" /\ run.prompt = prompts)
             /\ connected => HasAll(delivered')]_vars

\* Every prompt returns, though the client may never answer a question.
PromptsReturn == pump.pc # "idle" ~> pump.pc = "idle"

\* When the connection of an ACP client has ended, its run comes to an end.
DisconnectEndsRun == ~connected ~> run.pc \in {"none", "ended"}
=============================================================================
