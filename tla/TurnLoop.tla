------------------------------ MODULE TurnLoop ------------------------------
(***************************************************************************)
(* The agent turn loop: Agent::stream_until_done_with_settings and the     *)
(* RecoveryState it consults.  One behaviour is one run.                   *)
(*                                                                         *)
(* The loop is one task, but it awaits at every hook, at the provider, at  *)
(* the tools and at the operator, and the caller may cancel at any of      *)
(* those points.  A turn may be attempted several times (interrupted       *)
(* stream, reactive compaction, escalated token budget) before it counts.  *)
(*                                                                         *)
(* Of a response the model keeps the stop reason, what text it has and how *)
(* many tool calls; of the token budgets it keeps only which branch they   *)
(* select.                                                                 *)
(***************************************************************************)
EXTENDS Compaction

CONSTANTS
    Configs,            \* the parts of AgentConfig and RunSettings that select branches
    Responses,          \* what the provider may answer
    MaxTurns,           \* config.max_turns
    MaxAttempts,        \* retry.max_attempts
    MaxMeta,            \* config.max_meta_continuations
    MaxForced,          \* MAX_FORCED_CONTINUATIONS
    MaxCompactFails,    \* MAX_CONSECUTIVE_COMPACT_FAILURES
    EmptyNudgeMax,      \* config.empty_turn_nudge_max
    MaxCalls            \* bound: tool calls in one response

\* A provider stops for ToolUse only with a call; with other stop reasons it may
\* have calls too, and then no later step looks at its text.  StopSequence is
\* handled as EndTurn and ContentFilter as Refusal.  tokens: the response
\* consumed output tokens.
Response ==
    {r \in [stop : {"EndTurn", "ToolUse", "MaxTokens", "Refusal"},
            text : {"text", "thinking", "empty"}, calls : 0 .. MaxCalls, tokens : BOOLEAN] :
        /\ r.stop = "ToolUse" => r.calls > 0
        /\ r.calls > 0 => r.text = "empty"
        /\ r.text # "empty" \/ r.calls > 0 => r.tokens}

\* max_tokens_recovery, whether settings.input_source is set, and
\* no_edit_nudge_threshold.
Config == [recovery : BOOLEAN, interactive : BOOLEAN, noEdit : Nat]

ASSUME LimitsAssumption ==
    /\ MaxTurns \in Nat /\ MaxAttempts \in Nat \ {0} /\ MaxMeta \in Nat
    /\ MaxForced \in Nat /\ MaxCompactFails \in Nat
    /\ EmptyNudgeMax \in Nat /\ MaxCalls \in Nat
    /\ Responses \subseteq Response /\ Configs \subseteq Config

VARIABLES
    pc,             \* where the loop is
    config,         \* the configuration of this run
    cancelled,      \* the caller's CancellationToken
    turn,           \* turn_index
    history,
    stopped,        \* stopped_for
    completed,      \* turns_completed
    recovery,       \* RecoveryState
    nudges,         \* turns_since_last_edit, no_edit_nudge_armed, empty_turn_nudges
    drainRetries,   \* re-issues of this turn after an interrupted stream
    pass,           \* the local variables of one pass through the loop's body
    rounds,         \* history: passes begun for this turn index
    emissions       \* history: passes of this turn that showed content

vars == <<pc, config, cancelled, turn, history, stopped, completed, recovery,
          nudges, drainRetries, pass, rounds, emissions>>

StopConditions ==
    {"MaxTurnsReached", "EndOfTurn", "Cancelled", "ProviderError", "HookDenied",
     "MaxTokensExhausted", "Refusal", "StreamIdle", "ThinkingBudgetExhausted", "TimeBudgetExceeded", "CostBudgetExceeded"}

\* RecoveryState::default
NoRecovery ==
    [stageA       |-> FALSE,    \* stage_a_attempted_this_turn
     escalated    |-> FALSE,    \* override_max_tokens_for_request is set
     meta         |-> 0,        \* meta_continuation_count
     reactive     |-> FALSE,    \* attempted_reactive_compact
     forced       |-> 0,        \* forced_continuations
     compactFails |-> 0]        \* auto_tracking.consecutive_failures

NoNudges == [sinceEdit |-> 0, armed |-> TRUE, empty |-> 0]

\* The body's locals before it assigns them.
NoPass ==
    [attempt  |-> 0,            \* of with_retry
     emitted  |-> FALSE,        \* emitted_content_this_turn
     response |-> [stop |-> "EndTurn", text |-> "empty", calls |-> 0, tokens |-> FALSE],
     plans    |-> <<>>,         \* verdict of the before_tool gate on each call
     next     |-> 1,            \* the call being planned or enqueued
     pending  |-> {},           \* calls being executed
     results  |-> <<>>,         \* outcome of each call so far
     fatal    |-> FALSE,        \* fatal_stop: a dispatched call was cancelled
     edited   |-> FALSE,        \* had_successful_edit_this_turn
     decision |-> "Continue"]   \* what the after_turn hook asked for

Init ==
    /\ pc = "start"
    /\ config \in Configs
    /\ cancelled = FALSE
    /\ turn = 0 /\ history = <<SystemText, UserText>>
    /\ stopped = "MaxTurnsReached" /\ completed = 0
    /\ recovery = NoRecovery /\ nudges = NoNudges
    /\ drainRetries = 0 /\ pass = NoPass
    /\ rounds = 0 /\ emissions = 0

response == pass.response

\* Ids of the tool calls in keep, in the order of the response.
CallIds(keep) == Filter([k \in 1 .. response.calls |-> <<turn, k>>], keep)

----------------------------------------------------------------------------
(* The loop's control transfers.  Each one drops the body's locals.        *)

\* break 'outer
BreakOuter(stop) ==
    /\ pc' = "end" /\ stopped' = stop /\ pass' = NoPass
    /\ UNCHANGED <<turn, drainRetries, rounds, emissions>>

\* break 'inner, then the head of the for loop
NextTurn ==
    /\ turn' = turn + 1
    /\ pc' = IF turn + 1 < MaxTurns THEN "top" ELSE "end"
    /\ drainRetries' = 0 /\ rounds' = 0 /\ emissions' = 0 /\ pass' = NoPass
    /\ UNCHANGED stopped

\* continue 'inner
RedoTurn ==
    /\ pc' = "top" /\ pass' = NoPass
    /\ UNCHANGED <<turn, stopped, rounds, emissions>>

\* The body goes on at label with its locals now p.
Proceed(label, p) ==
    /\ pc' = label /\ pass' = p
    /\ UNCHANGED <<turn, stopped, drainRetries, rounds, emissions>>

\* What most steps leave alone.
runVars == <<config, cancelled, history, completed, recovery, nudges>>

\* RecoveryState::reset_for_new_turn
ResetForNewTurn(r) == [r EXCEPT !.stageA = FALSE, !.escalated = FALSE]

----------------------------------------------------------------------------
(* Before the request.                                                     *)

\* The before_run hook.  Its error ends the stream at once: no after_run.
BeforeRun ==
    /\ pc = "start"
    /\ \/ /\ pc' = IF MaxTurns > 0 THEN "top" ELSE "end"
          /\ UNCHANGED stopped
       \/ pc' = "done" /\ stopped' = "HookDenied"
    /\ UNCHANGED <<runVars, turn, drainRetries, pass, rounds, emissions>>

\* Cancellation, then the time and cost budgets, then the before_turn hook.
TopStops ==
    /\ pc = "top"
    /\ IF cancelled
       THEN BreakOuter("Cancelled")
       ELSE \E stop \in {"TimeBudgetExceeded", "CostBudgetExceeded", "HookDenied"} :
               BreakOuter(stop)
    /\ UNCHANGED runVars

\* maybe_compact: over the threshold and not disabled by earlier failures.
MaybeCompact ==
    \/ UNCHANGED <<history, recovery>>
    \/ /\ recovery.compactFails < MaxCompactFails
       /\ \/ /\ recovery' = [recovery EXCEPT !.compactFails = @ + 1]
             /\ UNCHANGED history
          \/ /\ recovery' = [recovery EXCEPT !.compactFails = 0]
             /\ history' \in {history} \cup Compactions(history)

\* Variant: the token is not looked at between turns.
TopProceedsCancelled ==
    /\ pc = "top"
    /\ MaybeCompact
    /\ pc' = "request" /\ pass' = [NoPass EXCEPT !.attempt = 1]
    /\ rounds' = rounds + 1
    /\ UNCHANGED <<config, cancelled, turn, stopped, completed, nudges, drainRetries,
                   emissions>>

\* Compaction and build_request.
TopProceeds ==
    /\ pc = "top" /\ ~cancelled
    /\ MaybeCompact
    /\ pc' = "request" /\ pass' = [NoPass EXCEPT !.attempt = 1]
    /\ rounds' = rounds + 1
    /\ UNCHANGED <<config, cancelled, turn, stopped, completed, nudges, drainRetries,
                   emissions>>

----------------------------------------------------------------------------
(* The request and its stream.                                             *)

\* with_retry finds the token cancelled before an attempt or in a backoff.
RequestCancelled ==
    /\ pc = "request" /\ cancelled
    /\ BreakOuter("Cancelled")
    /\ UNCHANGED runVars

\* The provider answers an attempt with a stream or with an error.  A
\* retryable error starts the next attempt after a backoff; the first-byte
\* timeout and every other error end the run.
RequestOpens ==
    /\ pc = "request" /\ ~cancelled
    /\ \/ Proceed("drain", NoPass)
       \/ /\ pass.attempt < MaxAttempts
          /\ Proceed("request", [pass EXCEPT !.attempt = @ + 1])
       \/ BreakOuter("StreamIdle")
       \/ BreakOuter("ProviderError")
    /\ UNCHANGED runVars

\* Variant: every ContextTooLong is answered with a compaction.
ContextTooLongAgain ==
    /\ pc = "request" /\ ~cancelled
    /\ recovery' = [recovery EXCEPT !.reactive = TRUE]
    /\ \/ /\ RedoTurn /\ history' \in Compactions(history)
          /\ UNCHANGED drainRetries
       \/ BreakOuter("ProviderError") /\ UNCHANGED history
    /\ UNCHANGED <<config, cancelled, completed, nudges>>

\* on_context_too_long: once in a run the history is compacted and the turn
\* redone; the compactor may decline.  (A later such error is RequestOpens'
\* ProviderError.)
ContextTooLong ==
    /\ pc = "request" /\ ~cancelled /\ ~recovery.reactive
    /\ recovery' = [recovery EXCEPT !.reactive = TRUE]
    /\ \/ /\ RedoTurn /\ history' \in Compactions(history)
          /\ UNCHANGED drainRetries
       \/ BreakOuter("ProviderError") /\ UNCHANGED history
    /\ UNCHANGED <<config, cancelled, completed, nudges>>

\* The first delta or tool call start is shown to the consumer.
DrainContent ==
    /\ pc = "drain" /\ ~cancelled /\ ~pass.emitted
    /\ pass' = [pass EXCEPT !.emitted = TRUE]
    /\ emissions' = emissions + 1
    /\ UNCHANGED <<runVars, pc, turn, stopped, drainRetries, rounds>>

\* Variant: the turn is re-issued although content was shown.
DrainInterruptedReplays ==
    /\ pc = "drain" /\ ~cancelled
    /\ drainRetries < MaxAttempts - 1
    /\ drainRetries' = drainRetries + 1
    /\ RedoTurn
    /\ UNCHANGED runVars

\* A retryable interruption before any content: the turn is re-issued.
DrainInterrupted ==
    /\ pc = "drain" /\ ~cancelled /\ ~pass.emitted
    /\ drainRetries < MaxAttempts - 1
    /\ drainRetries' = drainRetries + 1
    /\ RedoTurn
    /\ UNCHANGED runVars

\* Cancelled between two events, idle, another error, or too much thinking.
DrainStops ==
    /\ pc = "drain"
    /\ IF cancelled
       THEN BreakOuter("Cancelled")
       ELSE \/ BreakOuter("StreamIdle")
            \/ BreakOuter("ProviderError")
            \/ pass.emitted /\ BreakOuter("ThinkingBudgetExhausted")
    /\ UNCHANGED runVars

\* Variant: the truncated attempt is counted as a turn.
DrainCompletesCounts ==
    /\ pc = "drain"
    /\ \E r \in Responses :
          /\ pass.emitted <=> (r.text # "empty" \/ r.calls > 0)
          /\ IF config.recovery /\ r.stop = "MaxTokens" /\ ~recovery.stageA
             THEN /\ recovery' = [recovery EXCEPT !.stageA = TRUE, !.escalated = TRUE]
                  /\ RedoTurn /\ completed' = completed + 1 /\ UNCHANGED drainRetries
             ELSE /\ Proceed("plan", [NoPass EXCEPT !.response = r,
                                         !.results = [k \in 1 .. r.calls |-> "none"]])
                  /\ UNCHANGED <<recovery, completed>>
    /\ UNCHANGED <<config, cancelled, history, nudges>>

\* The stream ends.  on_max_tokens_pre_dispatch: the first MaxTokens of a turn
\* is retried with the escalated budget, before tools, hooks and TurnEnd.
DrainCompletes ==
    /\ pc = "drain"
    /\ \E r \in Responses :
          /\ pass.emitted <=> (r.text # "empty" \/ r.calls > 0)
          /\ IF config.recovery /\ r.stop = "MaxTokens" /\ ~recovery.stageA
             THEN /\ recovery' = [recovery EXCEPT !.stageA = TRUE, !.escalated = TRUE]
                  /\ RedoTurn /\ UNCHANGED drainRetries
             ELSE /\ Proceed("plan", [NoPass EXCEPT !.response = r,
                                         !.results = [k \in 1 .. r.calls |-> "none"]])
                  /\ UNCHANGED recovery
    /\ UNCHANGED <<config, cancelled, history, completed, nudges>>

----------------------------------------------------------------------------
(* The tools.                                                              *)

\* The token is checked before each block; text comes before the calls.
PlanCancelled ==
    /\ pc = "plan" /\ cancelled
    /\ pass.next <= response.calls \/ (pass.next = 1 /\ response.text # "empty")
    /\ BreakOuter("Cancelled")
    /\ UNCHANGED runVars

\* plan_tool_call: plan mode and the before_tool hook allow a call (a file
\* edit or not), deny it, or fail and end the run.
PlanCall ==
    /\ pc = "plan" /\ ~cancelled /\ pass.next <= response.calls
    /\ \/ \E verdict \in {"Edit", "Other", "Denied"} :
             Proceed("plan", [pass EXCEPT !.plans = Append(@, verdict), !.next = @ + 1])
       \/ BreakOuter("HookDenied")
    /\ UNCHANGED runVars

PlanDone ==
    /\ pc = "plan" /\ pass.next > response.calls
    /\ ~(cancelled /\ pass.next = 1 /\ response.text # "empty")
    /\ Proceed("dispatch", [pass EXCEPT !.next = 1])
    /\ UNCHANGED runVars

\* The dispatch loop: a denied call has its result, an allowed one is queued,
\* and a cancelled token leaves the loop (the calls behind it get nothing).
EnqueueCall ==
    /\ pc = "dispatch" /\ pass.next <= Len(pass.plans)
    /\ \/ /\ pass.plans[pass.next] = "Denied"
          /\ Proceed("dispatch", [pass EXCEPT !.results[pass.next] = "err", !.next = @ + 1])
       \/ /\ pass.plans[pass.next] # "Denied" /\ ~cancelled
          /\ Proceed("dispatch", [pass EXCEPT !.pending = @ \cup {pass.next}, !.next = @ + 1])
       \/ /\ pass.plans[pass.next] # "Denied" /\ cancelled
          /\ pc' = "invoke" /\ stopped' = "Cancelled"
          /\ UNCHANGED <<turn, drainRetries, pass, rounds, emissions>>
    /\ UNCHANGED runVars

EnqueueDone ==
    /\ pc = "dispatch" /\ pass.next > Len(pass.plans)
    /\ Proceed("invoke", pass)
    /\ UNCHANGED runVars

\* dispatch_tool returns, in any order; a call reports Cancelled only when the
\* token is, and may still succeed then.
InvokeReturns(k) ==
    /\ pc = "invoke" /\ k \in pass.pending
    /\ \/ \E outcome \in {"ok", "err"} :
             Proceed("invoke", [pass EXCEPT !.pending = @ \ {k}, !.results[k] = outcome])
       \/ /\ cancelled
          /\ Proceed("invoke", [pass EXCEPT !.pending = @ \ {k}, !.fatal = TRUE])
    /\ UNCHANGED runVars

\* finalize_tool_results: the assistant message, then the results that exist
\* in the order of the calls.
FinalizeToolResults(h) ==
    LET calls    == 1 .. response.calls
        answered == CallIds({k \in calls : pass.results[k] # "none"})
        asked    == Append(h, Assistant(response.text # "empty", CallIds(calls)))
    IN  IF answered = <<>> THEN asked ELSE Append(asked, ToolResults(answered))

HadSuccessfulEdit ==
    \E k \in 1 .. response.calls : pass.plans[k] = "Edit" /\ pass.results[k] = "ok"

\* All calls are in: a cancelled one ends the run.
Finalize ==
    /\ pc = "invoke" /\ pass.pending = {}
    /\ IF pass.fatal
       THEN BreakOuter("Cancelled") /\ UNCHANGED history
       ELSE /\ Proceed("hook", [NoPass EXCEPT !.response = response,
                                               !.edited = HadSuccessfulEdit])
            /\ history' = FinalizeToolResults(history)
    /\ UNCHANGED <<config, cancelled, completed, recovery, nudges>>

----------------------------------------------------------------------------
(* After the turn.                                                         *)

Degenerate ==
    /\ response.calls = 0 /\ response.text # "text" /\ response.tokens
    /\ response.stop = "EndTurn"

TurnIsFailure ==
    \/ response.stop = "Refusal"
    \/ /\ response.stop = "MaxTokens" /\ config.recovery /\ recovery.stageA
       /\ recovery.meta >= MaxMeta

\* after_turn or after_turn_failure, then TurnEnd and the counters.  An error
\* of after_turn ends the run after the turn is counted.
AfterTurn ==
    /\ pc = "hook"
    /\ completed' = completed + 1
    /\ \/ \E d \in {"Continue", "ContinueWith", "Stop"} :
             /\ TurnIsFailure => d = "Continue"
             /\ Proceed("settle", [pass EXCEPT !.decision = d])
       \/ ~TurnIsFailure /\ BreakOuter("HookDenied")
    /\ UNCHANGED <<config, cancelled, history, recovery, nudges>>

TrackEdits ==
    IF pass.edited
    THEN [nudges EXCEPT !.sinceEdit = 0, !.armed = TRUE]
    ELSE [nudges EXCEPT !.sinceEdit = @ + 1]

\* Variant: the nudge is repeated every turn until an edit.
NudgeDueUnarmed ==
    /\ ~pass.edited
    /\ config.noEdit > 0 /\ nudges.sinceEdit + 1 >= config.noEdit
    /\ response.stop \notin {"Refusal", "MaxTokens"}

\* The no-edit nudge is due; it must not preempt a terminal stop reason.
NudgeDue ==
    /\ ~pass.edited
    /\ config.noEdit > 0 /\ nudges.sinceEdit + 1 >= config.noEdit /\ nudges.armed
    /\ response.stop \notin {"Refusal", "MaxTokens"}

\* A user message is added, the turn's recovery state reset and the loop
\* advances.
InjectAndAdvance(r) ==
    /\ history' = Append(history, UserText)
    /\ recovery' = ResetForNewTurn(r)
    /\ NextTurn
    /\ UNCHANGED <<config, cancelled, completed>>

SettleNudges ==
    /\ pc = "settle" /\ NudgeDue
    /\ nudges' = [TrackEdits EXCEPT !.armed = FALSE]
    /\ InjectAndAdvance(recovery)

SettleStops ==
    /\ pc = "settle" /\ ~NudgeDue /\ pass.decision = "Stop"
    /\ nudges' = TrackEdits
    /\ BreakOuter("HookDenied")
    /\ UNCHANGED <<config, cancelled, history, completed, recovery>>

SettleForces ==
    /\ pc = "settle" /\ ~NudgeDue
    /\ pass.decision = "ContinueWith" /\ recovery.forced < MaxForced
    /\ nudges' = TrackEdits
    /\ InjectAndAdvance([recovery EXCEPT !.forced = @ + 1])

\* The hook lets the loop decide.  An empty turn of a run that has nobody to
\* hand over to is nudged, a bounded number of times in a row.
SettleProceeds ==
    /\ pc = "settle" /\ ~NudgeDue
    /\ \/ pass.decision = "Continue"
       \/ pass.decision = "ContinueWith" /\ recovery.forced >= MaxForced
    /\ IF Degenerate /\ ~config.interactive /\ nudges.empty < EmptyNudgeMax
       THEN /\ nudges' = [TrackEdits EXCEPT !.empty = @ + 1]
            /\ InjectAndAdvance(recovery)
       ELSE /\ nudges' = IF Degenerate THEN TrackEdits
                         ELSE [TrackEdits EXCEPT !.empty = 0]
            /\ Proceed("decide", pass)
            /\ UNCHANGED <<config, cancelled, history, completed, recovery>>

----------------------------------------------------------------------------
(* on_stop_reason.                                                         *)

DecideToolUse ==
    /\ pc = "decide" /\ response.stop = "ToolUse"
    /\ recovery' = ResetForNewTurn(recovery)
    /\ NextTurn
    /\ UNCHANGED <<config, cancelled, history, completed, nudges>>

\* Stage B, while it lasts: the meta-continuation prompt and another turn.
DecideMeta ==
    /\ pc = "decide" /\ response.stop = "MaxTokens"
    /\ config.recovery /\ recovery.meta < MaxMeta
    /\ InjectAndAdvance([recovery EXCEPT !.meta = @ + 1])
    /\ UNCHANGED nudges

\* ensure_assistant_note: fill an empty last assistant message, or add one
\* when the last message is not the assistant's.
EnsureAssistantNote(h) ==
    IF h[Len(h)].role # "assistant" THEN Append(h, AssistantText)
    ELSE IF HasContent(h[Len(h)]) THEN h
    ELSE [h EXCEPT ![Len(h)] = AssistantText]

DecideSurrenders ==
    /\ pc = "decide"
    /\ \/ /\ response.stop = "Refusal"
          /\ history' = EnsureAssistantNote(history)
          /\ BreakOuter("Refusal")
       \/ /\ response.stop = "MaxTokens" /\ ~(config.recovery /\ recovery.meta < MaxMeta)
          /\ UNCHANGED history
          /\ BreakOuter("MaxTokensExhausted")
       \/ /\ response.stop = "EndTurn" /\ ~config.interactive
          /\ UNCHANGED history
          /\ BreakOuter("EndOfTurn")
    /\ UNCHANGED <<config, cancelled, completed, recovery, nudges>>

\* An interactive run is at next_input and nothing ends its wait yet.
AwaitsOperator ==
    pc = "decide" /\ response.stop = "EndTurn" /\ config.interactive /\ ~cancelled

\* The operator's message resumes the run, the end of input ends it.
OperatorAnswers ==
    /\ AwaitsOperator
    /\ \/ /\ BreakOuter("EndOfTurn")
          /\ UNCHANGED <<config, cancelled, history, completed, recovery>>
       \/ InjectAndAdvance(recovery)
    /\ UNCHANGED nudges

\* Variant: the wait does not select on the token.
InputCancelledUnseen == FALSE

\* A cancellation wakes the wait, and wins over a message already there.
InputCancelled ==
    /\ pc = "decide" /\ response.stop = "EndTurn" /\ config.interactive /\ cancelled
    /\ BreakOuter("Cancelled")
    /\ UNCHANGED runVars

\* after_run or after_run_failure, whose errors are only logged; RunEnd.
AfterRun ==
    /\ pc = "end" /\ pc' = "done"
    /\ UNCHANGED <<runVars, turn, stopped, drainRetries, pass, rounds, emissions>>

----------------------------------------------------------------------------

Cancel ==
    /\ ~cancelled /\ pc \notin {"end", "done"}
    /\ cancelled' = TRUE
    /\ UNCHANGED <<pc, config, turn, history, stopped, completed, recovery, nudges,
                   drainRetries, pass, rounds, emissions>>

BeforeRequest == BeforeRun \/ TopStops \/ TopProceeds
Request       == RequestCancelled \/ RequestOpens \/ ContextTooLong
Drain         == DrainContent \/ DrainInterrupted \/ DrainStops \/ DrainCompletes
Tools         == \/ PlanCancelled \/ PlanCall \/ PlanDone \/ EnqueueCall \/ EnqueueDone
                 \/ (\E k \in 1 .. MaxCalls : InvokeReturns(k)) \/ Finalize
Settle        == SettleNudges \/ SettleStops \/ SettleForces \/ SettleProceeds
Decide        == DecideToolUse \/ DecideMeta \/ DecideSurrenders \/ InputCancelled

Loop == BeforeRequest \/ Request \/ Drain \/ Tools \/ AfterTurn \/ Settle \/ Decide
        \/ AfterRun

Next == Loop \/ OperatorAnswers \/ Cancel

Spec == Init /\ [][Next]_vars

\* The loop's task is polled while it can go on.  What it awaits ends: hooks and
\* tools return, a silent provider is cut off by the stream watchdog, and a
\* response is bounded by its token budget.  The operator need never answer.
FairSpec == Spec /\ WF_vars(Loop)

----------------------------------------------------------------------------
(* Properties.                                                             *)

\* The variables hold what the run's state holds.
TypeOK ==
    /\ pc \in {"start", "top", "request", "drain", "plan", "dispatch", "invoke",
               "hook", "settle", "decide", "end", "done"}
    /\ config \in Configs
    /\ cancelled \in BOOLEAN
    /\ turn \in Nat /\ completed \in Nat /\ stopped \in StopConditions
    /\ recovery \in [stageA : BOOLEAN, escalated : BOOLEAN, meta : 0 .. MaxMeta,
                     reactive : BOOLEAN, forced : 0 .. MaxForced,
                     compactFails : 0 .. MaxCompactFails]
    /\ nudges \in [sinceEdit : Nat, armed : BOOLEAN, empty : 0 .. EmptyNudgeMax]
    /\ drainRetries \in 0 .. MaxAttempts - 1
    /\ rounds \in Nat /\ emissions \in Nat
    /\ pass.attempt \in 0 .. MaxAttempts /\ pass.emitted \in BOOLEAN
    /\ pass.response \in Response
    /\ pass.next \in 1 .. MaxCalls + 1 /\ pass.pending \subseteq 1 .. MaxCalls
    /\ pass.decision \in {"Continue", "ContinueWith", "Stop"}

\* Whatever was compacted, cancelled, denied, nudged or retried before, the
\* history a request is built from is one a provider accepts.
RequestsWellFormed == pc = "request" => WellFormed(history)

\* A turn counts once, however often it was redone: the turns completed are the
\* turns begun before this one, plus this one once its TurnEnd is out.
TurnsCountOnce ==
    /\ pc \in {"top", "request", "drain", "plan", "dispatch", "invoke", "hook"} =>
           completed = turn
    /\ pc \in {"settle", "decide"} => completed = turn + 1
    /\ completed <= MaxTurns

\* The three ways to redo a turn are bounded together: a turn that is not
\* getting anywhere is given up after a fixed number of passes.  Each turn starts
\* with the configured token budget: one escalated for a turn never reaches a
\* request of a later one, whichever way the loop advances.
RoundsBounded ==
    /\ rounds <= MaxAttempts + 2
    /\ recovery.stageA = recovery.escalated
    /\ pc = "top" /\ rounds = 0 => ~recovery.stageA

\* A consumer is shown the content of one attempt per turn: a broken stream or one
\* too long is issued again only before it has shown anything.  The escalated retry
\* of Stage A is the exception: its truncated attempt has already been streamed
\* out as deltas, so the answer that replaces it is a second one on the screen.
ShownOnce == emissions <= IF recovery.stageA THEN 2 ELSE 1

\* The loop ends: no combination of recoveries, nudges, forced continuations
\* and hook decisions keeps it going.  Only an operator who never answers keeps
\* an interactive run, and cancelling ends that wait too.
Terminates == <>(pc = "done") \/ <>[]AwaitsOperator

\* A Stop decision of the after_turn hook ends the run with HookDenied, whatever
\* the response asked for, unless the no-edit nudge was due: the nudge goes first,
\* spends itself and drops the decision.
StopHalts ==
    [][pc = "settle" /\ pass.decision = "Stop" /\ pc' # pc
          => \/ pc' = "end" /\ stopped' = "HookDenied"
             \/ nudges.armed /\ ~nudges'.armed /\ history' = Append(history, UserText)]_vars
=============================================================================
