--------------------------- MODULE PermissionGate ---------------------------
(***************************************************************************)
(* What a tool call passes before it runs: the plan-mode check and the     *)
(* before_tool chain of phase 1 (config hooks, ModeFilter with the         *)
(* auto-mode classifier, PermissionsHook with its session rules), and the  *)
(* operator's side of it in the terminal: the Ask modal with its queue and *)
(* sub-prompt, the mode keys, the /permissions overlay.                    *)
(*                                                                         *)
(* A call stands for a tool with its input and a pattern for the calls it  *)
(* matches.  Phase 1 is serial; TurnLoop has what happens around it.       *)
(***************************************************************************)
EXTENDS Naturals, Sequences, SequencesExt

CONSTANTS
    Calls,      \* tool calls
    ReadOnly,   \* calls of tools that are is_read_only
    Edits,      \* calls of FILE_EDIT_TOOLS
    Enter,      \* the EnterPlanMode call
    Exit,       \* the ExitPlanMode call
    Trusted,    \* calls that default_rules allows
    AutoHard,   \* calls that the classifier's hard_deny list matches
    AutoSoft,   \* ... its soft_deny list
    AutoAllow,  \* ... its allow and environment lists
    Patterns,   \* patterns the operator can choose
    Setups,     \* command lines with the settings they meet
    MaxCalls,   \* bound: calls gated
    MaxRules,   \* bound: session rules added
    MaxKeys,    \* bound: operator keys outside the modal
    Nothing     \* an empty Option

Rule == [pats : SUBSET Calls, action : {"allow", "ask", "deny"}]

ASSUME GateAssumption ==
    /\ ReadOnly \cup Edits \cup Trusted \cup AutoHard \cup AutoSoft \cup AutoAllow \subseteq Calls
    /\ {Enter, Exit} \subseteq Calls /\ Patterns \subseteq SUBSET Calls
    /\ MaxCalls \in Nat /\ MaxRules \in Nat /\ MaxKeys \in Nat
    /\ Nothing \notin [id : Nat, call : Calls]
    /\ \A s \in Setups :
          /\ {s.cliAllow, s.cliDeny, s.cliAsk, s.deny, s.ask, s.allow, s.serverDeny, s.serverAsk,
              s.serverAllow} \subseteq Seq(SUBSET Calls)
          /\ s.ordered \in Seq(Rule)

VARIABLES
    setup,      \* the command line and the settings this process started with
    mode,       \* SharedPermissionMode
    latch,      \* App.bypass_latch; the ModeFilter has its own copy, setup.latch
    planFlag,   \* SharedPlanMode
    runtime,    \* RuntimeRuleStore
    files,      \* rules in the rule files, as the overlay reads them
    cache,      \* the classifier's cache: the verdict on each call
    gate,       \* phase 1: where it is, its call, the mode it loaded, its request
    allowed,    \* calls planned as Allowed
    cancelled,  \* the run's token
    channel,    \* AskRequests sent to the terminal's event loop
    modal,      \* ask_modal
    queue,      \* ask_queue
    sub,        \* always_subprompt
    view,       \* the terminal's view
    made        \* bounds: calls gated, session rules added, keys pressed

terminal == <<channel, modal, queue, sub, view>>
policy   == <<setup, mode, latch, planFlag, runtime, files>>
vars     == <<policy, cache, gate, allowed, cancelled, terminal, made>>

Mutating == Calls \ (ReadOnly \cup {Enter, Exit})

----------------------------------------------------------------------------
(* The rule list.                                                          *)

RulesOf(pats, action) == [i \in DOMAIN pats |-> [pats |-> pats[i], action |-> action]]

\* The action of the first of the rules numbered in some that matches.
FirstAmong(rules, some, c) ==
    LET hits == {i \in some : c \in rules[i].pats}
    IN  IF hits = {} THEN "none" ELSE rules[CHOOSE i \in hits : \A j \in hits : i <= j].action

\* evaluate_rules: the action of the first rule that matches.
FirstMatch(rules, c) == FirstAmong(rules, DOMAIN rules, c)

\* Settings::permission_rules: the ordered form wins over the three buckets.
SettingsRules(s) ==
    IF s.ordered # <<>> THEN s.ordered
    ELSE RulesOf(s.deny, "deny") \o RulesOf(s.ask, "ask") \o RulesOf(s.allow, "allow")

DefaultRules == << [pats |-> Trusted, action |-> "allow"], [pats |-> Calls, action |-> "ask"] >>

\* The global list that build_permissions puts together.
GlobalRules(s) ==
    RulesOf(s.cliAllow, "allow") \o RulesOf(s.cliDeny, "deny") \o RulesOf(s.cliAsk, "ask")
        \o SettingsRules(s) \o DefaultRules

\* compile_server_permission_rules.
ServerRules(s) ==
    RulesOf(s.serverDeny, "deny") \o RulesOf(s.serverAsk, "ask") \o RulesOf(s.serverAllow, "allow")

\* Variant: the server rules go in front of the first rule that is not a deny.
MergePositional(global, server, c) ==
    LET head == {i \in DOMAIN global : \A j \in 1 .. i : global[j].action = "deny"}
        n    == IF head = {} THEN 0 ELSE CHOOSE i \in head : \A j \in head : j <= i
    IN  FirstMatch(SubSeq(global, 1, n) \o server \o SubSeq(global, n + 1, Len(global)), c)

\* merge_with_global and evaluate_rules on the list it returns: every global deny,
\* the server rules, the rest of the global rules, each part in its order.
Merge(global, server, c) ==
    LET denies == {i \in DOMAIN global : global[i].action = "deny"}
        first  == FirstAmong(global, denies, c)
        second == FirstMatch(server, c)
    IN  IF server = <<>> THEN FirstMatch(global, c)
        ELSE IF first # "none" THEN first
        ELSE IF second # "none" THEN second ELSE FirstAmong(global, DOMAIN global \ denies, c)

StaticVerdict(c) == Merge(GlobalRules(setup), ServerRules(setup), c)

\* RuntimeRuleStore::evaluate: the newest session rule that matches.
SessionVerdict(rs, c) == FirstMatch(Reverse(rs), c)

\* evaluate_with_rule: session rules, then the static ones.
Evaluate(c) ==
    IF SessionVerdict(runtime, c) # "none" THEN SessionVerdict(runtime, c) ELSE StaticVerdict(c)

----------------------------------------------------------------------------
(* Start-up.                                                               *)

\* resolve_startup_mode.
StartupMode(s) == IF s.cliMode # Nothing THEN s.cliMode
                  ELSE IF s.defaultMode # Nothing THEN s.defaultMode ELSE "default"

\* check_enforce_gate looks at the flags, resolve_startup_mode at the mode.
Refused(s) ==
    \/ s.enforce /\ (s.autoAllow \/ s.cliMode \in {"bypass", "dontAsk", "acceptEdits"})
    \/ StartupMode(s) = "bypass" /\ ~s.latch

NoGate == [at |-> "off", call |-> Nothing, mode |-> "default", id |-> 0]

\* A resumed session brings its own plan flag.
Init ==
    /\ setup \in {s \in Setups : ~Refused(s)}
    /\ mode = StartupMode(setup) /\ latch = setup.latch
    /\ planFlag \in {mode = "plan"} \cup setup.resumed
    /\ runtime = <<>> /\ files = ToSet(SettingsRules(setup))
    /\ cache = [c \in Calls |-> Nothing]
    /\ gate = NoGate /\ allowed = {} /\ cancelled = FALSE
    /\ channel = <<>> /\ modal = Nothing /\ queue = <<>> /\ sub = Nothing
    /\ view = "main"
    /\ made = [calls |-> 0, rules |-> 0, keys |-> 0]

----------------------------------------------------------------------------
(* The run.                                                                *)

\* A prompt starts a run; the model answers with tool calls, or the turn ends it.
Submit ==
    /\ gate.at = "off" /\ view = "main"
    /\ gate' = [gate EXCEPT !.at = "stream"] /\ cancelled' = FALSE
    /\ UNCHANGED <<policy, cache, allowed, terminal, made>>

Response ==
    /\ gate.at = "stream" /\ ~cancelled
    /\ gate' = [gate EXCEPT !.at = "next"]
    /\ UNCHANGED <<policy, cache, allowed, cancelled, terminal, made>>

RunEnds ==
    /\ gate.at = "stream" \/ (gate.at = "next" /\ cancelled)
    /\ gate' = NoGate /\ allowed' = {}
    /\ UNCHANGED <<policy, cache, cancelled, terminal, made>>

Step(at) == [gate EXCEPT !.at = at, !.call = IF at = "next" THEN Nothing ELSE @]

\* plan_tool_call up to the hooks: the plan-mode check.
PlanCall(c) ==
    /\ gate.at = "next" /\ ~cancelled /\ made.calls < MaxCalls
    /\ made' = [made EXCEPT !.calls = @ + 1]
    /\ gate' = IF planFlag /\ c \in Mutating THEN gate
               ELSE [gate EXCEPT !.at = "hooks", !.call = c]
    /\ UNCHANGED <<policy, cache, allowed, cancelled, terminal>>

\* A config PreToolUse hook in front of the permission layer denies the call.
HookDenies ==
    /\ gate.at = "hooks"
    /\ gate' = Step("next")
    /\ UNCHANGED <<policy, cache, allowed, cancelled, terminal, made>>

\* A hook fails: the run ends with HookDenied.
HookFails ==
    /\ gate.at = "hooks"
    /\ gate' = NoGate /\ allowed' = {}
    /\ UNCHANGED <<policy, cache, cancelled, terminal, made>>

Allow(c) == allowed' = allowed \cup {c} /\ gate' = Step("next") /\ UNCHANGED channel
Deny     == gate' = Step("next") /\ UNCHANGED <<allowed, channel>>

\* rewrite_ask_to_allow, then normalize_ask_denied.
Rewrite(m, c, decision) ==
    IF decision # "askDenied" THEN decision
    ELSE IF m = "dontAsk" \/ (m = "acceptEdits" /\ c \in Edits) THEN "allow" ELSE "deny"

\* PermissionsHook::before_tool inside ModeFilter: the terminal's handler sends
\* a request and waits; the non-interactive one answers at once.
Inner(c, m) ==
    LET verdict  == Evaluate(c)
        decision == IF verdict # "ask" THEN verdict
                    ELSE IF setup.autoAllow THEN "allow" ELSE "askDenied"
    IN  IF verdict = "ask" /\ setup.tui
        THEN /\ channel' = Append(channel, [id |-> made.calls, call |-> c])
             /\ gate' = [gate EXCEPT !.at = "ask", !.call = c, !.mode = m, !.id = made.calls]
             /\ UNCHANGED allowed
        ELSE IF Rewrite(m, c, decision) = "allow" THEN Allow(c) ELSE Deny

\* handle_auto, when the classifier has a verdict.
Apply(c, v) ==
    \/ v = "allow" /\ Allow(c)
    \/ v = "hard" /\ Deny
    \/ v = "soft" /\ Inner(c, "auto")

\* static_match.
StaticMatch(c) ==
    IF c \in AutoHard THEN "hard" ELSE IF c \in AutoSoft THEN "soft"
    ELSE IF c \in AutoAllow THEN "allow" ELSE "none"

\* classify, up to the model call.
Classify(c) ==
    \/ /\ setup.autoDisabled
       /\ Apply(c, "soft") /\ UNCHANGED cache
    \/ /\ ~setup.autoDisabled /\ cache[c] # Nothing
       /\ Apply(c, cache[c]) /\ UNCHANGED cache
    \/ /\ ~setup.autoDisabled /\ cache[c] = Nothing /\ StaticMatch(c) # "none"
       /\ cache' = [cache EXCEPT ![c] = StaticMatch(c)]
       /\ Apply(c, StaticMatch(c))
    \/ /\ ~setup.autoDisabled /\ cache[c] = Nothing /\ StaticMatch(c) = "none"
       /\ gate' = [gate EXCEPT !.at = "classify"]
       /\ UNCHANGED <<cache, allowed, channel>>

\* The config hooks let the call through and ModeFilter::before_tool loads the mode.
BeforeTool ==
    /\ gate.at = "hooks"
    /\ LET c == gate.call IN
       \/ mode = "bypass" /\ setup.latch /\ Allow(c) /\ UNCHANGED cache
       \/ mode = "plan" /\ c \in Mutating /\ Deny /\ UNCHANGED cache
       \/ mode = "auto" /\ Classify(c)
       \/ /\ \/ mode \in {"default", "acceptEdits", "dontAsk"}
             \/ mode = "bypass" /\ ~setup.latch
             \/ mode = "plan" /\ c \notin Mutating
          /\ Inner(c, mode) /\ UNCHANGED cache
    /\ UNCHANGED <<policy, cancelled, modal, queue, sub, view, made>>

\* classifier_call returns; an error or a malformed answer is a soft deny, and
\* is cached like any other verdict.
Classified(v) ==
    /\ gate.at = "classify"
    /\ cache' = [cache EXCEPT ![gate.call] = v]
    /\ Apply(gate.call, v)
    /\ UNCHANGED <<policy, cancelled, modal, queue, sub, view, made>>

\* Variant: a prompt nobody answers is allowed.
AskTimesOutOpen ==
    /\ gate.at = "ask"
    /\ allowed' = allowed \cup {gate.call} /\ gate' = Step("next")
    /\ UNCHANGED <<policy, cache, cancelled, terminal, made>>

\* Variant: the handler waits without a limit.
AskWaits == FALSE /\ UNCHANGED vars

\* ASK_TIMEOUT; the request stays where it is in the terminal.
AskTimesOut ==
    /\ gate.at = "ask"
    /\ gate' = Step("next")
    /\ UNCHANGED <<policy, cache, allowed, cancelled, terminal, made>>

\* Phase 2: the allowed calls run and the plan-mode tools set the flag.
Dispatch ==
    /\ gate.at = "next" /\ ~cancelled
    /\ planFlag' \in IF {Enter, Exit} \subseteq allowed THEN BOOLEAN
                     ELSE IF Enter \in allowed THEN {TRUE}
                     ELSE IF Exit \in allowed THEN {FALSE} ELSE {planFlag}
    /\ allowed' = {} /\ gate' = Step("stream")
    /\ UNCHANGED <<setup, mode, latch, runtime, files, cache, cancelled, terminal, made>>

----------------------------------------------------------------------------
(* The Ask modal.                                                          *)

\* The event loop takes a request from the channel.
ReceiveAsk ==
    /\ channel # <<>>
    /\ channel' = Tail(channel)
    /\ IF modal # Nothing
       THEN queue' = Append(queue, Head(channel)) /\ UNCHANGED <<modal, view>>
       ELSE modal' = Head(channel) /\ view' = "ask" /\ UNCHANGED queue
    /\ UNCHANGED <<policy, cache, gate, allowed, cancelled, sub, made>>

\* The oneshots of the requests in granted and refused are sent on; that of a
\* request whose handler has given up has no receiver.
Respond(granted, refused) ==
    /\ allowed' = IF gate.at = "ask" /\ gate.id \in granted THEN allowed \cup {gate.call} ELSE allowed
    /\ gate' = IF gate.at = "ask" /\ gate.id \in granted \cup refused THEN Step("next") ELSE gate

\* Variant: the queue is left to the next request that comes.
AnswerWithoutDrain(ans, rs, rest) ==
    /\ Respond(IF modal # Nothing /\ ans = "allow" THEN {modal.id} ELSE {},
               IF modal # Nothing /\ ans # "allow" THEN {modal.id} ELSE {})
    /\ modal' = Nothing /\ UNCHANGED queue /\ view' = rest

\* The modal is answered and drain_ask_queue goes through the queue with the
\* session rules rs: it resolves what they decide and shows the first request
\* they do not; otherwise the view is rest.
Answer(ans, rs, rest) ==
    LET Undecided(i) == SessionVerdict(rs, queue[i].call) \notin {"allow", "deny"}
        undecided    == {i \in DOMAIN queue : Undecided(i)}
        n            == IF undecided = {} THEN Len(queue) + 1
                        ELSE CHOOSE i \in undecided : \A j \in undecided : i <= j
        decided(a)   == {queue[i].id : i \in {j \in 1 .. n - 1 : SessionVerdict(rs, queue[j].call) = a}}
        own(a)       == IF modal # Nothing /\ ans = a THEN {modal.id} ELSE {}
    IN  /\ Respond(own("allow") \cup decided("allow"), own("deny") \cup decided("deny"))
        /\ modal' = IF undecided = {} THEN Nothing ELSE queue[n]
        /\ queue' = SubSeq(queue, n + 1, Len(queue))
        /\ view' = IF undecided = {} THEN rest ELSE "ask"

\* perform_ask_choice: allow or deny once.
AnswerOnce(ans) ==
    /\ view = "ask" /\ sub = Nothing /\ modal # Nothing
    /\ Answer(ans, runtime, "main")
    /\ UNCHANGED <<policy, cache, cancelled, channel, sub, made>>

\* `a` or `d` in the modal opens the sub-prompt.
OpenAlways(action) ==
    /\ view = "ask" /\ sub = Nothing /\ modal # Nothing
    /\ sub' = [action |-> action, over |-> "ask"]
    /\ UNCHANGED <<policy, cache, gate, allowed, cancelled, channel, modal, queue, view, made>>

\* Esc in the sub-prompt, whichever overlay opened it: allow once.
SubpromptEsc ==
    /\ sub # Nothing
    /\ sub' = Nothing /\ Answer("allow", runtime, IF modal # Nothing THEN "main" ELSE view)
    /\ UNCHANGED <<policy, cache, cancelled, channel, made>>

\* Enter in the sub-prompt, commit_subprompt: a session rule, a rule in a file
\* when a file scope is chosen and can be written, and the answer to the modal.
SubpromptEnter(pats, saves) ==
    /\ sub # Nothing /\ made.rules < MaxRules
    /\ made' = [made EXCEPT !.rules = @ + 1]
    /\ LET rule == [pats |-> pats, action |-> sub.action] IN
       /\ runtime' = Append(runtime, rule)
       /\ files' = IF saves THEN files \cup {rule} ELSE files
       /\ Answer(sub.action, Append(runtime, rule), "main")
    /\ sub' = Nothing
    /\ UNCHANGED <<setup, mode, latch, planFlag, cache, cancelled, channel>>

----------------------------------------------------------------------------
(* The mode keys and the /permissions overlay.                             *)

Key == made.keys < MaxKeys /\ made' = [made EXCEPT !.keys = @ + 1]

Modes == <<"default", "acceptEdits", "plan", "auto", "dontAsk", "bypass">>
After(m) == LET i == CHOOSE j \in DOMAIN Modes : Modes[j] = m IN Modes[(i % Len(Modes)) + 1]

\* next_permission_mode: bypass is skipped without the latch.
NextMode(m) == IF After(m) = "bypass" /\ ~latch THEN After(After(m)) ELSE After(m)

\* cycle_permission_mode n times over.
CycleMode(n) ==
    LET path[i \in 0 .. n] == IF i = 0 THEN mode ELSE NextMode(path[i - 1])
        left == \E i \in 0 .. n - 1 : path[i] = "auto"
    IN  /\ mode' = path[n] /\ planFlag' = (path[n] = "plan")
        /\ cache' = IF left THEN [c \in Calls |-> Nothing] ELSE cache

Steady == UNCHANGED <<setup, gate, allowed, channel, modal, queue>>

ShiftTab ==
    /\ view = "main" /\ sub = Nothing /\ Key
    /\ CycleMode(1)
    /\ Steady /\ UNCHANGED <<latch, runtime, files, cancelled, sub, view>>

\* drop_bypass.
DropBypass ==
    /\ view = "main" /\ sub = Nothing /\ Key
    /\ latch' = FALSE /\ mode' = IF mode = "bypass" THEN "default" ELSE mode
    /\ Steady /\ UNCHANGED <<planFlag, runtime, files, cache, cancelled, sub, view>>

\* /plan, not while a turn runs.
TogglePlan ==
    /\ view = "main" /\ sub = Nothing /\ gate.at = "off" /\ Key
    /\ planFlag' = ~planFlag
    /\ Steady /\ UNCHANGED <<mode, latch, runtime, files, cache, cancelled, sub, view>>

\* Esc, or Ctrl+C in an overlay, cancels the run.
Cancel ==
    /\ view \in {"main", "permissions"} /\ sub = Nothing /\ gate.at # "off" /\ ~cancelled
    /\ cancelled' = TRUE
    /\ Steady /\ UNCHANGED <<mode, latch, planFlag, runtime, files, cache, sub, view, made>>

\* /permissions is an immediate command: a run may be going on.
OpenPermissions ==
    /\ view = "main" /\ sub = Nothing /\ Key
    /\ view' = "permissions"
    /\ Steady /\ UNCHANGED <<mode, latch, planFlag, runtime, files, cache, cancelled, sub>>

ClosePermissions ==
    /\ view = "permissions" /\ sub = Nothing
    /\ view' = "main"
    /\ Steady /\ UNCHANGED <<mode, latch, planFlag, runtime, files, cache, cancelled, sub, made>>

\* Shift+Tab in the overlay: five steps forward for one step back.
OverlayShiftTab ==
    /\ view = "permissions" /\ sub = Nothing /\ Key
    /\ CycleMode(5)
    /\ Steady /\ UNCHANGED <<latch, runtime, files, cancelled, sub, view>>

\* displayed_rules: session rules without those a file has too, then the files' rules.
Shown == SelectSeq(runtime, LAMBDA r : r \notin files)

\* `d` on a session row: the row's number is taken for its place in the store.
DeleteSessionRow(i) ==
    /\ view = "permissions" /\ sub = Nothing /\ i \in DOMAIN Shown /\ Key
    /\ runtime' = RemoveAt(runtime, i)
    /\ Steady /\ UNCHANGED <<mode, latch, planFlag, files, cache, cancelled, sub, view>>

\* `d` on a file row: delete_rule_at drops every rule of the pattern.
DeleteFileRow(r) ==
    /\ view = "permissions" /\ sub = Nothing /\ r \in files /\ Key
    /\ files' = {f \in files : f.pats # r.pats}
    /\ Steady /\ UNCHANGED <<mode, latch, planFlag, runtime, cache, cancelled, sub, view>>

\* `a` and `p` in the overlay open the same sub-prompt.
AddRule ==
    /\ view = "permissions" /\ sub = Nothing /\ Key
    /\ \E a \in {"allow"} \cup {runtime[i].action : i \in DOMAIN runtime} :
           sub' = [action |-> a, over |-> "permissions"]
    /\ Steady /\ UNCHANGED <<mode, latch, planFlag, runtime, files, cache, cancelled, view>>

Operator ==
    \/ \E a \in {"allow", "deny"} : AnswerOnce(a) \/ OpenAlways(a)
    \/ SubpromptEsc
    \/ \E p \in Patterns, saves \in BOOLEAN : SubpromptEnter(p, saves)
    \/ ShiftTab \/ DropBypass \/ TogglePlan \/ Cancel
    \/ OpenPermissions \/ ClosePermissions \/ OverlayShiftTab \/ AddRule
    \/ \E i \in 1 .. MaxRules : DeleteSessionRow(i)
    \/ \E r \in files : DeleteFileRow(r)

Phase1 == BeforeTool \/ AskTimesOut \/ \E v \in {"allow", "soft", "hard"} : Classified(v)

Next ==
    \/ Submit \/ Response \/ RunEnds \/ Dispatch
    \/ \E c \in Calls : PlanCall(c)
    \/ HookDenies \/ HookFails \/ Phase1 \/ ReceiveAsk
    \/ setup.tui /\ Operator

Spec     == Init /\ [][Next]_vars
\* The runtime schedules the run; the classifier's request returns and the wait
\* for the operator has its deadline.
FairSpec == Spec /\ WF_vars(Phase1)

----------------------------------------------------------------------------
(* Properties.                                                             *)

\* The variables hold what the gate and the terminal hold.
TypeOK ==
    /\ setup \in Setups /\ mode \in ToSet(Modes) /\ {latch, planFlag, cancelled} \subseteq BOOLEAN
    /\ gate.at \in {"off", "stream", "next", "hooks", "classify", "ask"}
    /\ allowed \subseteq Calls /\ view \in {"main", "ask", "permissions"}

\* What the newest session rule or else the global rules say, whatever the
\* servers' rules are.
Banned(c) ==
    IF SessionVerdict(runtime, c) # "none" THEN SessionVerdict(runtime, c) = "deny"
    ELSE FirstMatch(GlobalRules(setup), c) = "deny"

\* A call that a session rule or the global rules deny passes the gate only
\* under bypass with its flag, in auto mode on the word of the classifier, which
\* handle_auto asks before any rule is looked at, or because the operator allows it
\* in the modal (the request was asked, or on its way, before the rule).  No server
\* rule, no mode but these two and no drained queue lifts a deny
\* (merge_with_global, rewrite_ask_to_allow, drain_ask_queue).
DenyHolds ==
    [][\A c \in allowed' \ allowed :
          Banned(c)' => \/ gate.at = "hooks" /\ mode = "bypass" /\ setup.latch
                        \/ gate.at = "hooks" /\ mode = "auto" /\ ~setup.autoDisabled
                        \/ gate.at = "classify"
                        \/ gate.at = "ask" /\ modal # Nothing /\ modal.id = gate.id]_vars

\* A call that waits for the operator is allowed only by an answer to the modal
\* that shows it or by a session rule made since; silence, an answer to another
\* request and a full queue never allow it (TuiAskHandler::prompt,
\* drain_ask_queue).
AllowedWasShown ==
    [][gate.at = "ask" /\ allowed' # allowed =>
          \/ view = "ask" /\ modal # Nothing /\ modal.id = gate.id
          \/ SessionVerdict(runtime', gate.call) = "allow"]_vars

\* A request that waits is on the screen or behind one that is: no overlay, no
\* sub-prompt and no drained queue hides a modal or strands the queue.
NothingStranded ==
    /\ modal # Nothing => view = "ask"
    /\ queue # <<>> => modal # Nothing

\* The gate gives its run an answer, whatever the operator does: the prompt
\* has a deadline (ASK_TIMEOUT).
GateReturns == gate.at \in {"hooks", "classify", "ask"} ~> gate.at \notin {"hooks", "classify", "ask"}

\* Deleting a session row drops a rule that a session row shows: "Session rules
\* are the first N rows; idx maps directly".
DeletesWhatItShows ==
    [][Len(runtime') < Len(runtime) =>
          \E i \in DOMAIN runtime : runtime[i] \notin files /\ runtime' = RemoveAt(runtime, i)]_vars
=============================================================================
