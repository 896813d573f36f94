------------------------ MODULE PermissionGateProofs ------------------------
(***************************************************************************)
(* The permission gate and its modal for any calls, patterns, rules and    *)
(* settings: no request is lost from sight, and a call that waits for the  *)
(* operator is allowed by nothing but the operator's word on that call.    *)
(***************************************************************************)
EXTENDS PermissionGate, SequenceTheorems, WellFoundedInduction, TLAPS

\* AskRequest: the handler's oneshot, and the call it is about.
Requests == [id : Nat, call : Calls]

\* The gate is a record with these fields, whatever the mode is called.
Shape(g) == g = [at |-> g.at, call |-> g.call, mode |-> g.mode, id |-> g.id]

\* Requests are well formed, and so are the call and the request the gate works on.
RequestsOK ==
    /\ channel \in Seq(Requests) /\ queue \in Seq(Requests)
    /\ modal \in Requests \cup {Nothing}
GateOK ==
    /\ Shape(gate) /\ made \in [calls : Nat, rules : Nat, keys : Nat]
    /\ gate.at \in {"hooks", "classify", "ask"} => gate.call \in Calls
    /\ gate.at = "ask" => gate.id = made.calls

----------------------------------------------------------------------------
(* Facts about the operators.                                              *)

LEMMA LeastOf ==
    ASSUME NEW S, S \subseteq Nat, S # {}
    PROVE  \E i \in S : \A j \in S : i <= j
<1>1. PICK x \in S : \A y \in S : ~(<<y, x>> \in OpToRel(<, Nat))
    BY NatLessThanWellFounded, WFMin
<1>2. \A y \in S : ~(y < x)
    BY <1>1 DEF OpToRel
<1> QED BY <1>2

\* What answering the modal does to the requests, the view and the gate.
LEMMA AnswerMoves ==
    ASSUME RequestsOK, NEW ans, NEW rs, NEW rest, Answer(ans, rs, rest)
    PROVE  /\ queue' \in Seq(Requests)
           /\ \A i \in 1 .. Len(queue') : \E j \in 1 .. Len(queue) : queue'[i] = queue[j]
           /\ \/ modal' = Nothing /\ queue' = <<>> /\ view' = rest
              \/ view' = "ask" /\ \E j \in 1 .. Len(queue) : modal' = queue[j]
           /\ gate' \in {gate, Step("next")}
           /\ allowed' # allowed => gate.at = "ask" /\ allowed' = allowed \cup {gate.call}
           /\ allowed' # allowed =>
                \/ modal # Nothing /\ modal.id = gate.id
                \/ \E j \in 1 .. Len(queue) :
                      queue[j].id = gate.id /\ SessionVerdict(rs, queue[j].call) = "allow"
<1> DEFINE undecided == {i \in DOMAIN queue :
                            SessionVerdict(rs, queue[i].call) \notin {"allow", "deny"}}
           n == IF undecided = {} THEN Len(queue) + 1
                ELSE CHOOSE i \in undecided : \A j \in undecided : i <= j
           decided(a) == {queue[i].id : i \in {j \in 1 .. n - 1 :
                                                 SessionVerdict(rs, queue[j].call) = a}}
           own(a) == IF modal # Nothing /\ ans = a THEN {modal.id} ELSE {}
<1>1. /\ Respond(own("allow") \cup decided("allow"), own("deny") \cup decided("deny"))
      /\ modal' = IF undecided = {} THEN Nothing ELSE queue[n]
      /\ queue' = SubSeq(queue, n + 1, Len(queue))
      /\ view' = IF undecided = {} THEN rest ELSE "ask"
    BY DEF Answer
<1>2. queue \in Seq(Requests) /\ Len(queue) \in Nat /\ DOMAIN queue = 1 .. Len(queue)
    BY LenProperties DEF RequestsOK
<1>3. undecided \subseteq 1 .. Len(queue)
    BY <1>2
<1>4. undecided # {} => n \in undecided
  <2> SUFFICES ASSUME undecided # {} PROVE n \in undecided
      OBVIOUS
  <2>1. \E i \in undecided : \A j \in undecided : i <= j
    <3>1. undecided \subseteq Nat
        BY <1>3
    <3> HIDE DEF undecided
    <3> QED BY <3>1, LeastOf
  <2>2. n = CHOOSE i \in undecided : \A j \in undecided : i <= j
      OBVIOUS
  <2> HIDE DEF undecided, n
  <2> QED BY <2>1, <2>2
<1>5. n \in 1 .. Len(queue) + 1 /\ (undecided = {} => n = Len(queue) + 1)
  <2>1. undecided = {} => n = Len(queue) + 1
      OBVIOUS
  <2> HIDE DEF undecided, n
  <2>2. CASE undecided = {}
      BY <1>2, <2>1, <2>2
  <2>3. CASE undecided # {}
    <3>1. n \in 1 .. Len(queue)
        BY <1>3, <1>4, <2>3
    <3> QED BY <1>2, <2>3, <3>1
  <2> QED BY <2>2, <2>3
<1> HIDE DEF n, undecided
<1>10. queue' = SubSeq(queue, n + 1, Len(queue))
    BY <1>1
<1>6. /\ queue' \in Seq(Requests)
      /\ \A i \in 1 .. Len(queue') : \E j \in 1 .. Len(queue) : queue'[i] = queue[j]
      /\ n = Len(queue) + 1 => queue' = <<>>
  <2>1. CASE n < Len(queue)
    <3>1. /\ SubSeq(queue, n + 1, Len(queue)) \in Seq(Requests)
          /\ Len(SubSeq(queue, n + 1, Len(queue))) = Len(queue) - n
          /\ \A i \in 1 .. Len(queue) - n : SubSeq(queue, n + 1, Len(queue))[i] = queue[n + i]
      <4>1. /\ n + 1 \in Int /\ Len(queue) \in Int /\ n + 1 <= Len(queue)
            /\ Len(queue) - (n + 1) + 1 = Len(queue) - n
            /\ \A i \in 1 .. Len(queue) - n : (n + 1) + i - 1 = n + i
          BY <1>2, <1>5, <2>1
      <4>2. \A i \in n + 1 .. Len(queue) : queue[i] \in Requests
          BY <1>2, <1>5
      <4> HIDE DEF Requests
      <4>3. /\ SubSeq(queue, n + 1, Len(queue)) \in Seq(Requests)
            /\ Len(SubSeq(queue, n + 1, Len(queue))) =
                  IF n + 1 <= Len(queue) THEN Len(queue) - (n + 1) + 1 ELSE 0
            /\ \A i \in 1 .. Len(queue) - (n + 1) + 1 :
                  SubSeq(queue, n + 1, Len(queue))[i] = queue[(n + 1) + i - 1]
          BY <4>1, <4>2, SubSeqProperties
      <4> QED BY <4>1, <4>3
    <3>2. \A i \in 1 .. Len(queue) - n : n + i \in 1 .. Len(queue)
        BY <1>2, <1>5
    <3>3. Len(queue') = Len(queue) - n
        BY <1>10, <3>1
    <3>4. ASSUME NEW i \in 1 .. Len(queue')
          PROVE  \E j \in 1 .. Len(queue) : queue'[i] = queue[j]
      <4>1. queue'[i] = queue[n + i] /\ n + i \in 1 .. Len(queue)
          BY <1>10, <3>1, <3>2, <3>3
      <4> QED BY <4>1
    <3> QED BY <1>10, <1>2, <2>1, <3>1, <3>4
  <2>2. CASE n >= Len(queue)
    <3>1. SubSeq(queue, n + 1, Len(queue)) = <<>>
        BY <1>2, <1>5, <2>2
    <3>2. queue' = <<>>
        BY <1>10, <3>1
    <3> QED BY <3>2, EmptySeq
  <2> QED BY <1>2, <1>5, <2>1, <2>2
<1>7. \/ modal' = Nothing /\ queue' = <<>> /\ view' = rest
      \/ view' = "ask" /\ \E j \in 1 .. Len(queue) : modal' = queue[j]
    BY <1>1, <1>3, <1>4, <1>5, <1>6
<1>8. gate' \in {gate, Step("next")}
    BY <1>1 DEF Respond
<1>9. ASSUME allowed' # allowed
      PROVE  \/ modal # Nothing /\ modal.id = gate.id
             \/ \E j \in 1 .. Len(queue) :
                   queue[j].id = gate.id /\ SessionVerdict(rs, queue[j].call) = "allow"
  <2>1. gate.id \in own("allow") \cup decided("allow")
      BY <1>1, <1>9 DEF Respond
  <2>2. CASE gate.id \in own("allow")
      BY <2>2
  <2>3. CASE gate.id \in decided("allow")
    <3>1. PICK j \in 1 .. n - 1 : queue[j].id = gate.id /\ SessionVerdict(rs, queue[j].call) = "allow"
        BY <2>3
    <3>2. j \in 1 .. Len(queue)
        BY <1>2, <1>5
    <3> QED BY <3>1, <3>2
  <2> QED BY <2>1, <2>2, <2>3
<1>11. allowed' # allowed => gate.at = "ask" /\ allowed' = allowed \cup {gate.call}
    BY <1>1 DEF Respond
<1> QED BY <1>6, <1>7, <1>8, <1>9, <1>11

----------------------------------------------------------------------------
(* What a step does to the gate.                                           *)

\* Phase 1 settles the call, hands it to the classifier, or asks about it.
Settles == gate' = Step("next") /\ channel' = channel
Asks ==
    /\ channel' = Append(channel, [id |-> made.calls, call |-> gate.call])
    /\ gate'.at = "ask" /\ gate'.call = gate.call /\ gate'.id = made.calls

\* All that can become of the gate: it stays, it lets go of its call, it takes up a new
\* one, or it goes on with the one it has.
GateStep ==
    \/ gate' = gate /\ made'.calls = made.calls
    \/ gate'.at \in {"off", "stream", "next"} /\ made'.calls >= made.calls
    \/ gate'.at = "hooks" /\ gate'.call \in Calls /\ made'.calls = made.calls + 1
    \/ /\ gate.at \in {"hooks", "classify"} /\ gate'.at = "classify" /\ gate'.call = gate.call
       /\ made'.calls = made.calls
    \/ gate.at \in {"hooks", "classify"} /\ Asks /\ made'.calls = made.calls

\* What the run does.
RunPart ==
    \/ Submit \/ Response \/ RunEnds \/ Dispatch
    \/ \E c \in Calls : PlanCall(c)
    \/ HookDenies \/ HookFails \/ Phase1

LEMMA StepFields ==
    ASSUME Shape(gate), NEW at
    PROVE  Shape(Step(at)) /\ Step(at).at = at /\ Step(at).id = gate.id
<1>1. PICK x : Step(at) = [gate EXCEPT !.at = at, !.call = x]
    BY Zenon DEF Step
<1> QED BY <1>1, Zenon DEF Shape

LEMMA NoGateShape == Shape(NoGate) /\ NoGate.at = "off"
    BY DEF Shape, NoGate

LEMMA InnerMoves ==
    ASSUME GateOK, NEW m, Inner(gate.call, m)
    PROVE  Shape(gate)' /\ (Settles \/ Asks)
<1>1. Shape(gate)
    BY DEF GateOK
<1>2. CASE Evaluate(gate.call) = "ask" /\ setup.tui
  <2>1. /\ channel' = Append(channel, [id |-> made.calls, call |-> gate.call])
        /\ gate' = [gate EXCEPT !.at = "ask", !.call = gate.call, !.mode = m, !.id = made.calls]
      BY <1>2, Zenon DEF Inner
  <2>2. Shape(gate)' /\ gate'.at = "ask" /\ gate'.call = gate.call /\ gate'.id = made.calls
      BY <1>1, <2>1, Zenon DEF Shape
  <2> QED BY <2>1, <2>2, Zenon DEF Asks
<1>3. CASE ~(Evaluate(gate.call) = "ask" /\ setup.tui)
  <2>1. gate' = Step("next") /\ channel' = channel
      BY <1>3, Zenon DEF Inner, Allow, Deny
  <2>2. Shape(gate)'
      BY <1>1, <2>1, StepFields
  <2> QED BY <2>1, <2>2 DEF Settles
<1> QED BY <1>2, <1>3

LEMMA ApplyMoves ==
    ASSUME GateOK, NEW v, Apply(gate.call, v)
    PROVE  Shape(gate)' /\ (Settles \/ Asks)
<1>1. CASE Inner(gate.call, "auto")
    BY <1>1, InnerMoves
<1>2. CASE Allow(gate.call) \/ Deny
    BY <1>2, StepFields DEF Allow, Deny, Settles, GateOK
<1> QED BY <1>1, <1>2 DEF Apply

LEMMA Phase1Moves ==
    ASSUME GateOK, Phase1
    PROVE  /\ Shape(gate)' /\ gate.at \in {"hooks", "classify", "ask"}
           /\ made' = made /\ UNCHANGED <<modal, queue, view>>
           /\ \/ Settles
              \/ gate.at \in {"hooks", "classify"} /\ Asks
              \/ /\ gate.at = "hooks" /\ gate'.at = "classify" /\ gate'.call = gate.call
                 /\ channel' = channel
<1>0. Shape(gate)
    BY DEF GateOK
<1>1. CASE AskTimesOut
    BY <1>0, <1>1, StepFields DEF AskTimesOut, Settles, terminal
<1>2. ASSUME NEW v, Classified(v)
      PROVE  /\ Shape(gate)' /\ gate.at = "classify" /\ made' = made
             /\ UNCHANGED <<modal, queue, view>> /\ (Settles \/ Asks)
  <2>1. /\ gate.at = "classify" /\ Apply(gate.call, v) /\ made' = made
        /\ UNCHANGED <<modal, queue, view>>
      BY <1>2 DEF Classified
  <2> QED BY <2>1, ApplyMoves
<1>3. CASE BeforeTool
  <2>1. gate.at = "hooks" /\ made' = made /\ UNCHANGED <<modal, queue, view>>
      BY <1>3 DEF BeforeTool
  <2>2. \/ Allow(gate.call) \/ Deny \/ Inner(gate.call, mode) \/ Classify(gate.call)
      BY <1>3, Zenon DEF BeforeTool
  <2>3. CASE Allow(gate.call) \/ Deny
      BY <1>0, <2>1, <2>3, StepFields DEF Allow, Deny, Settles
  <2>4. CASE Inner(gate.call, mode)
      BY <2>1, <2>4, InnerMoves
  <2>5. CASE Classify(gate.call)
    <3>1. CASE \E v : Apply(gate.call, v)
        BY <2>1, <3>1, ApplyMoves
    <3>2. CASE gate' = [gate EXCEPT !.at = "classify"] /\ channel' = channel
      <4>1. Shape(gate)' /\ gate'.at = "classify" /\ gate'.call = gate.call
          BY <1>0, <3>2, Zenon DEF Shape
      <4> QED BY <2>1, <3>2, <4>1
    <3> QED BY <2>5, <3>1, <3>2, Zenon DEF Classify
  <2> QED BY <2>2, <2>3, <2>4, <2>5
<1> QED BY <1>1, <1>2, <1>3 DEF Phase1

LEMMA RunMoves ==
    ASSUME GateOK, RunPart
    PROVE  /\ Shape(gate)' /\ made' \in [calls : Nat, rules : Nat, keys : Nat]
           /\ GateStep /\ UNCHANGED <<modal, queue, view>>
           /\ channel' = channel \/ (Asks /\ gate.at \in {"hooks", "classify"})
<1>0. Shape(gate) /\ made \in [calls : Nat, rules : Nat, keys : Nat] /\ made.calls \in Nat
    BY DEF GateOK
<1>1. CASE Submit \/ Response
  <2>1. /\ gate' = [gate EXCEPT !.at = "stream"] \/ gate' = [gate EXCEPT !.at = "next"]
        /\ made' = made /\ UNCHANGED terminal
      BY <1>1 DEF Submit, Response
  <2>2. Shape(gate)' /\ gate'.at \in {"stream", "next"}
      BY <1>0, <2>1, Zenon DEF Shape
  <2> QED BY <1>0, <2>1, <2>2 DEF GateStep, terminal
<1>2. CASE RunEnds \/ HookFails
  <2>1. gate' = NoGate /\ made' = made /\ UNCHANGED terminal
      BY <1>2 DEF RunEnds, HookFails
  <2>2. Shape(gate)' /\ gate'.at = "off"
      BY <2>1, NoGateShape
  <2> QED BY <1>0, <2>1, <2>2 DEF GateStep, terminal
<1>3. CASE Dispatch \/ HookDenies
  <2>1. /\ gate' = Step("stream") \/ gate' = Step("next")
        /\ made' = made /\ UNCHANGED terminal
      BY <1>3 DEF Dispatch, HookDenies
  <2>2. Shape(gate)' /\ gate'.at \in {"stream", "next"}
      BY <1>0, <2>1, StepFields
  <2> QED BY <1>0, <2>1, <2>2 DEF GateStep, terminal
<1>4. ASSUME NEW c \in Calls, PlanCall(c)
      PROVE  /\ Shape(gate)' /\ made' \in [calls : Nat, rules : Nat, keys : Nat]
             /\ GateStep /\ UNCHANGED terminal
  <2>1. /\ gate.at = "next" /\ made' = [made EXCEPT !.calls = @ + 1] /\ UNCHANGED terminal
        /\ gate' = gate \/ gate' = [gate EXCEPT !.at = "hooks", !.call = c]
      BY <1>4 DEF PlanCall
  <2>2. made' \in [calls : Nat, rules : Nat, keys : Nat] /\ made'.calls = made.calls + 1
      BY <1>0, <2>1
  <2>3. CASE gate' = gate
      BY <1>0, <2>1, <2>2, <2>3 DEF GateStep
  <2>4. CASE gate' = [gate EXCEPT !.at = "hooks", !.call = c]
    <3>1. Shape(gate)' /\ gate'.at = "hooks" /\ gate'.call = c
        BY <1>0, <2>4, Zenon DEF Shape
    <3> QED BY <2>1, <2>2, <3>1 DEF GateStep
  <2> QED BY <2>1, <2>3, <2>4
<1>5. CASE Phase1
  <2>1. made'.calls >= made.calls /\ made' = made
      BY <1>0, <1>5, Phase1Moves
  <2>2. Settles => gate'.at = "next" /\ channel' = channel
      BY <1>0, StepFields DEF Settles
  <2> QED BY <1>0, <1>5, <2>1, <2>2, Phase1Moves DEF GateStep
<1> QED BY <1>1, <1>2, <1>3, <1>4, <1>5 DEF RunPart, terminal

\* Keys that touch neither the requests nor the gate.
Keys ==
    \/ ShiftTab \/ DropBypass \/ TogglePlan \/ Cancel
    \/ OpenPermissions \/ ClosePermissions \/ OverlayShiftTab \/ AddRule
    \/ \E i \in 1 .. MaxRules : DeleteSessionRow(i)
    \/ \E r \in files : DeleteFileRow(r)
    \/ \E a \in {"allow", "deny"} : OpenAlways(a)

LEMMA KeysMove ==
    ASSUME GateOK, Keys
    PROVE  /\ UNCHANGED <<gate, allowed, channel, modal, queue>>
           /\ made' \in [calls : Nat, rules : Nat, keys : Nat] /\ made'.calls = made.calls
           /\ view' = view \/ view # "ask"
<1>0. made \in [calls : Nat, rules : Nat, keys : Nat]
    BY DEF GateOK
<1>1. ASSUME Key PROVE made' \in [calls : Nat, rules : Nat, keys : Nat] /\ made'.calls = made.calls
  <2>1. made' = [made EXCEPT !.keys = @ + 1]
      BY <1>1 DEF Key
  <2> QED BY <1>0, <2>1
<1>2. CASE Cancel \/ ClosePermissions \/ \E a \in {"allow", "deny"} : OpenAlways(a)
    BY <1>0, <1>2 DEF Cancel, ClosePermissions, OpenAlways, Steady
<1>3. CASE \/ ShiftTab \/ DropBypass \/ TogglePlan \/ OpenPermissions \/ OverlayShiftTab \/ AddRule
           \/ \E i \in 1 .. MaxRules : DeleteSessionRow(i)
           \/ \E r \in files : DeleteFileRow(r)
  <2>1. Key /\ Steady /\ (view' = view \/ view # "ask")
      BY <1>3 DEF ShiftTab, DropBypass, TogglePlan, OpenPermissions, OverlayShiftTab, AddRule,
                  DeleteSessionRow, DeleteFileRow
  <2> QED BY <1>1, <2>1 DEF Steady
<1> QED BY <1>2, <1>3 DEF Keys

\* The answers: each goes through Answer with the session rules it leaves behind.
Answers ==
    /\ \E ans, rest : Answer(ans, runtime', rest)
    /\ channel' = channel

LEMMA AnswersMove ==
    ASSUME GateOK,
           \/ \E a \in {"allow", "deny"} : AnswerOnce(a)
           \/ SubpromptEsc
           \/ \E p \in Patterns, saves \in BOOLEAN : SubpromptEnter(p, saves)
    PROVE  /\ Answers
           /\ made' \in [calls : Nat, rules : Nat, keys : Nat] /\ made'.calls = made.calls
<1>0. made \in [calls : Nat, rules : Nat, keys : Nat]
    BY DEF GateOK
<1>1. ASSUME NEW a, AnswerOnce(a) PROVE Answers /\ made' = made
  <2>1. Answer(a, runtime, "main") /\ runtime' = runtime /\ channel' = channel /\ made' = made
      BY <1>1 DEF AnswerOnce, policy
  <2>2. Answer(a, runtime', "main")
      BY <2>1
  <2> QED BY <2>1, <2>2 DEF Answers
<1>2. CASE SubpromptEsc
  <2>1. PICK rest : Answer("allow", runtime, rest)
      BY <1>2 DEF SubpromptEsc
  <2>2. runtime' = runtime /\ channel' = channel /\ made' = made
      BY <1>2 DEF SubpromptEsc, policy
  <2>3. Answer("allow", runtime', rest)
      BY <2>1, <2>2
  <2> QED BY <1>0, <2>2, <2>3 DEF Answers
<1>3. ASSUME NEW p, NEW saves, SubpromptEnter(p, saves)
      PROVE  Answers /\ made' = [made EXCEPT !.rules = @ + 1]
  <2>1. PICK rule : /\ runtime' = Append(runtime, rule)
                    /\ Answer(sub.action, Append(runtime, rule), "main")
      BY <1>3, Zenon DEF SubpromptEnter
  <2>2. Answer(sub.action, runtime', "main")
      BY <2>1
  <2> QED BY <1>3, <2>2 DEF SubpromptEnter, Answers
<1>4. [made EXCEPT !.rules = @ + 1] \in [calls : Nat, rules : Nat, keys : Nat]
    BY <1>0
<1>5. [made EXCEPT !.rules = @ + 1].calls = made.calls
    BY <1>0
<1> QED BY <1>0, <1>1, <1>2, <1>3, <1>4, <1>5

LEMMA NextSplits ==
    ASSUME GateOK, [Next]_vars
    PROVE  \/ RunPart
           \/ ReceiveAsk
           \/ Keys
           \/ /\ Answers /\ made' \in [calls : Nat, rules : Nat, keys : Nat]
              /\ made'.calls = made.calls
           \/ UNCHANGED vars
<1>1. CASE Operator
  <2>1. CASE Keys
      BY <2>1
  <2>2. CASE ~Keys
      BY <1>1, <2>2, AnswersMove DEF Operator, Keys
  <2> QED BY <2>1, <2>2
<1> QED BY <1>1 DEF Next, RunPart

----------------------------------------------------------------------------
(* The invariant.                                                          *)

\* Request ids are not used twice: what is in the terminal has an id given before, and
\* the one that carries the gate's id is about the gate's call.
FreshAt(r, calls, g) ==
    /\ r.id <= calls
    /\ g.at \in {"hooks", "classify"} => r.id < calls
    /\ g.at = "ask" /\ r.id = g.id => r.call = g.call
Fresh(r)      == FreshAt(r, made.calls, gate)
StaysFresh(r) == FreshAt(r, made'.calls, gate')

RequestsFresh ==
    /\ \A i \in 1 .. Len(channel) : Fresh(channel[i])
    /\ \A i \in 1 .. Len(queue) : Fresh(queue[i])
    /\ modal # Nothing => Fresh(modal)

GateInv == RequestsOK /\ GateOK /\ NothingStranded /\ RequestsFresh

LEMMA InitGateInv == Init => GateInv
<1> SUFFICES ASSUME Init PROVE GateInv
    OBVIOUS
<1>1. RequestsOK
    BY EmptySeq DEF Init, RequestsOK
<1>2. GateOK
  <2>1. gate = NoGate /\ made = [calls |-> 0, rules |-> 0, keys |-> 0]
      BY DEF Init
  <2>2. made \in [calls : Nat, rules : Nat, keys : Nat]
      BY <2>1
  <2> QED BY <2>1, <2>2, NoGateShape DEF GateOK
<1>3. NothingStranded
    BY DEF Init, NothingStranded
<1>4. RequestsFresh
    BY EmptySeq DEF Init, RequestsFresh
<1> QED BY <1>1, <1>2, <1>3, <1>4 DEF GateInv

LEMMA GateStepKeepsOK ==
    ASSUME GateOK, GateStep, Shape(gate)', made' \in [calls : Nat, rules : Nat, keys : Nat]
    PROVE  GateOK'
    BY DEF GateOK, GateStep, Asks

LEMMA GateStepKeepsFresh ==
    ASSUME GateOK, made' \in [calls : Nat, rules : Nat, keys : Nat], GateStep,
           NEW r \in Requests, Fresh(r)
    PROVE  StaysFresh(r)
<1>1. r.id \in Nat /\ made.calls \in Nat /\ made'.calls \in Nat
    BY DEF Requests, GateOK
<1>2. r.id <= made'.calls
    BY <1>1 DEF GateStep, Fresh, FreshAt
<1>3. gate'.at \in {"hooks", "classify"} => r.id < made'.calls
    BY <1>1 DEF GateStep, Fresh, FreshAt, Asks
<1>4. gate'.at = "ask" /\ r.id = gate'.id => r.call = gate'.call
    BY <1>1 DEF GateStep, Fresh, FreshAt, Asks
<1> QED BY <1>2, <1>3, <1>4 DEF Fresh, StaysFresh, FreshAt

\* A request is no empty Option.
LEMMA RequestIsSome == ASSUME NEW r \in Requests PROVE r # Nothing
    BY GateAssumption DEF Requests

LEMMA RunKeepsInv == ASSUME GateInv, RunPart PROVE GateInv'
<1>1. RequestsOK /\ GateOK /\ NothingStranded /\ RequestsFresh
    BY DEF GateInv
<1>2. /\ Shape(gate)' /\ made' \in [calls : Nat, rules : Nat, keys : Nat] /\ GateStep
      /\ modal' = modal /\ queue' = queue /\ view' = view
      /\ channel' = channel \/ (Asks /\ gate.at \in {"hooks", "classify"})
    BY <1>1, RunMoves
<1>3. GateOK'
    BY <1>1, <1>2, GateStepKeepsOK
<1>4. NothingStranded'
    BY <1>1, <1>2 DEF NothingStranded
<1>5. \A r \in Requests : Fresh(r) => StaysFresh(r)
    BY <1>1, <1>2, GateStepKeepsFresh
<1>6. /\ \A i \in 1 .. Len(channel) : channel[i] \in Requests /\ StaysFresh(channel[i])
      /\ \A i \in 1 .. Len(queue) : queue[i] \in Requests /\ StaysFresh(queue[i])
      /\ modal # Nothing => StaysFresh(modal)
    BY <1>1, <1>5, ElementOfSeq DEF RequestsOK, RequestsFresh
<1>7. CASE channel' = channel
    BY <1>1, <1>2, <1>3, <1>4, <1>6, <1>7 DEF GateInv, RequestsOK, RequestsFresh, Fresh, StaysFresh
<1>8. CASE Asks /\ gate.at \in {"hooks", "classify"}
  <2> DEFINE r == [id |-> made.calls, call |-> gate.call]
  <2>1. channel' = Append(channel, r)
      BY <1>8 DEF Asks
  <2>2. r \in Requests /\ made'.calls \in Nat /\ gate'.id = made'.calls
      BY <1>1, <1>2, <1>3, <1>8 DEF Requests, GateOK, Asks
  <2>3. r.id = gate'.id /\ r.call = gate'.call /\ gate'.at = "ask"
      BY <1>8 DEF Asks
  <2>4. StaysFresh(r)
      BY <2>2, <2>3 DEF Fresh, StaysFresh, FreshAt
  <2> HIDE DEF r
  <2>5. /\ channel' \in Seq(Requests) /\ Len(channel) \in Nat /\ Len(channel') = Len(channel) + 1
        /\ \A i \in 1 .. Len(channel) : channel'[i] = channel[i]
        /\ channel'[Len(channel) + 1] = r
      BY <1>1, <2>1, <2>2, AppendProperties, LenProperties DEF RequestsOK
  <2>6. \A i \in 1 .. Len(channel') : i \in 1 .. Len(channel) \/ i = Len(channel) + 1
      BY <2>5
  <2>7. \A i \in 1 .. Len(channel) : StaysFresh(channel'[i])
      BY <1>6, <2>5
  <2>8. StaysFresh(channel'[Len(channel) + 1])
      BY <2>4, <2>5
  <2>9. RequestsFresh'
      BY <1>2, <1>6, <2>6, <2>7, <2>8 DEF RequestsFresh, Fresh, StaysFresh
  <2> QED BY <1>1, <1>2, <1>3, <1>4, <2>5, <2>9 DEF GateInv, RequestsOK
<1> QED BY <1>2, <1>7, <1>8

LEMMA TerminalKeepsInv ==
    ASSUME GateInv, [Next]_vars, ~RunPart
    PROVE  GateInv'
<1>1. RequestsOK /\ GateOK /\ NothingStranded /\ RequestsFresh
    BY DEF GateInv
<1>2. ASSUME gate' \in {gate, Step("next")}, made'.calls = made.calls,
             made' \in [calls : Nat, rules : Nat, keys : Nat]
      PROVE  GateOK' /\ \A r \in Requests : Fresh(r) => StaysFresh(r)
  <2>1. Shape(gate)' /\ GateStep
    <3>1. CASE gate' = gate
        BY <1>1, <1>2, <3>1 DEF GateOK, GateStep
    <3>2. CASE gate' = Step("next")
      <4>1. Shape(gate)' /\ gate'.at = "next"
          BY <1>1, <3>2, StepFields DEF GateOK
      <4>2. made'.calls >= made.calls
          BY <1>2
      <4> QED BY <4>1, <4>2 DEF GateStep
    <3> QED BY <1>2, <3>1, <3>2
  <2> QED BY <1>1, <1>2, <2>1, GateStepKeepsOK, GateStepKeepsFresh
<1>3. /\ \A i \in 1 .. Len(channel) : channel[i] \in Requests /\ Fresh(channel[i])
      /\ \A i \in 1 .. Len(queue) : queue[i] \in Requests /\ Fresh(queue[i])
      /\ modal # Nothing => modal \in Requests /\ Fresh(modal)
    BY <1>1, ElementOfSeq DEF RequestsOK, RequestsFresh
<1>4. CASE ReceiveAsk
  <2>1. gate' = gate /\ made' = made /\ channel # <<>> /\ channel' = Tail(channel)
      BY <1>4 DEF ReceiveAsk
  <2>2. GateOK' /\ \A r \in Requests : Fresh(r) => StaysFresh(r)
      BY <1>1, <1>2, <2>1 DEF GateOK
  <2>3. /\ channel \in Seq(Requests) /\ Tail(channel) \in Seq(Requests)
        /\ Head(channel) \in Requests /\ Head(channel) = channel[1] /\ 1 \in 1 .. Len(channel)
        /\ \A i \in 1 .. Len(Tail(channel)) :
              Tail(channel)[i] = channel[i + 1] /\ i + 1 \in 1 .. Len(channel)
    <3>1. channel \in Seq(Requests) /\ Len(channel) \in Nat \ {0}
        BY <1>1, <2>1, EmptySeq DEF RequestsOK
    <3>2. /\ Tail(channel) \in Seq(Requests) /\ Head(channel) \in Requests
          /\ Len(Tail(channel)) = Len(channel) - 1
          /\ \A i \in 1 .. Len(Tail(channel)) : Tail(channel)[i] = channel[i + 1]
        BY <2>1, <3>1, HeadTailProperties
    <3>3. Head(channel) = channel[1] /\ 1 \in 1 .. Len(channel)
        BY <3>1
    <3>4. \A i \in 1 .. Len(Tail(channel)) : i + 1 \in 1 .. Len(channel)
        BY <3>1, <3>2
    <3> QED BY <3>1, <3>2, <3>3, <3>4
  <2>4. StaysFresh(Head(channel)) /\ \A i \in 1 .. Len(channel') : StaysFresh(channel'[i])
      BY <1>3, <2>1, <2>2, <2>3
  <2>5. CASE modal # Nothing
    <3>1. queue' = Append(queue, Head(channel)) /\ modal' = modal /\ view' = view
        BY <1>4, <2>5 DEF ReceiveAsk
    <3>2. /\ queue' \in Seq(Requests) /\ Len(queue) \in Nat /\ Len(queue') = Len(queue) + 1
          /\ \A i \in 1 .. Len(queue) : queue'[i] = queue[i]
          /\ queue'[Len(queue) + 1] = Head(channel)
        BY <1>1, <2>3, <3>1, AppendProperties, LenProperties DEF RequestsOK
    <3>3. \A i \in 1 .. Len(queue') : i \in 1 .. Len(queue) \/ i = Len(queue) + 1
        BY <3>2
    <3>4. \A i \in 1 .. Len(queue') : StaysFresh(queue'[i])
        BY <1>3, <2>2, <2>4, <3>2, <3>3
    <3>5. RequestsOK' /\ NothingStranded'
        BY <1>1, <2>1, <2>3, <2>5, <3>1, <3>2 DEF RequestsOK, NothingStranded
    <3>6. RequestsFresh'
        BY <1>3, <2>2, <2>4, <3>1, <3>4 DEF RequestsFresh, Fresh, StaysFresh
    <3> QED BY <2>2, <3>5, <3>6 DEF GateInv
  <2>6. CASE modal = Nothing
    <3>1. queue' = queue /\ modal' = Head(channel) /\ view' = "ask"
        BY <1>4, <2>6 DEF ReceiveAsk
    <3>2. RequestsOK' /\ NothingStranded'
        BY <1>1, <2>1, <2>3, <3>1, RequestIsSome DEF RequestsOK, NothingStranded
    <3>3. RequestsFresh'
        BY <1>3, <2>2, <2>4, <3>1 DEF RequestsFresh, Fresh, StaysFresh
    <3> QED BY <2>2, <3>2, <3>3 DEF GateInv
  <2> QED BY <2>5, <2>6
<1>5. CASE Keys \/ UNCHANGED vars
  <2>1. /\ gate' = gate /\ channel' = channel /\ modal' = modal /\ queue' = queue
        /\ made' \in [calls : Nat, rules : Nat, keys : Nat] /\ made'.calls = made.calls
        /\ view' = view \/ view # "ask"
      BY <1>1, <1>5, KeysMove DEF vars, terminal, GateOK
  <2>2. GateOK' /\ \A r \in Requests : Fresh(r) => StaysFresh(r)
      BY <1>2, <2>1
  <2>3. RequestsOK' /\ NothingStranded'
      BY <1>1, <2>1 DEF RequestsOK, NothingStranded
  <2>4. RequestsFresh'
      BY <1>3, <2>1, <2>2 DEF RequestsFresh, Fresh, StaysFresh
  <2> QED BY <2>2, <2>3, <2>4 DEF GateInv
<1>6. CASE /\ Answers /\ made' \in [calls : Nat, rules : Nat, keys : Nat]
           /\ made'.calls = made.calls
  <2>1. PICK ans, rest : Answer(ans, runtime', rest)
      BY <1>6 DEF Answers
  <2>2. /\ queue' \in Seq(Requests)
        /\ \A i \in 1 .. Len(queue') : \E j \in 1 .. Len(queue) : queue'[i] = queue[j]
        /\ \/ modal' = Nothing /\ queue' = <<>> /\ view' = rest
           \/ view' = "ask" /\ \E j \in 1 .. Len(queue) : modal' = queue[j]
        /\ gate' \in {gate, Step("next")}
      BY <1>1, <2>1, AnswerMoves
  <2>3. GateOK' /\ \A r \in Requests : Fresh(r) => StaysFresh(r)
      BY <1>2, <1>6, <2>2
  <2>4. \A j \in 1 .. Len(queue) : queue[j] # Nothing
      BY <1>3, RequestIsSome
  <2>5. RequestsOK' /\ NothingStranded'
      BY <1>1, <1>3, <1>6, <2>2, <2>4 DEF RequestsOK, NothingStranded, Answers
  <2>6. RequestsFresh'
      BY <1>3, <1>6, <2>2, <2>3 DEF RequestsFresh, Fresh, StaysFresh, Answers
  <2> QED BY <2>3, <2>5, <2>6 DEF GateInv
<1> QED BY <1>1, <1>4, <1>5, <1>6, NextSplits

LEMMA StepGateInv == GateInv /\ [Next]_vars => GateInv'
    BY RunKeepsInv, TerminalKeepsInv

\* The terminal never hides a request: no overlay opens over a modal, and the queue
\* behind it is drained or shown whenever the modal is answered.
THEOREM RequestsStayInSight == Spec => []NothingStranded
<1>1. GateInv => NothingStranded
    BY DEF GateInv
<1> QED BY <1>1, InitGateInv, StepGateInv, PTL DEF Spec

\* TuiAskHandler::prompt: a call that waits is allowed by the answer to the modal that
\* shows it, or by a session rule that allows it; never by a timeout, by the answer to
\* another request, or by a request of an earlier call that happens to come next.
THEOREM AllowedOnlyIfShown == Spec => AllowedWasShown
<1>1. ASSUME GateInv, [Next]_vars, gate.at = "ask", allowed' # allowed
      PROVE  \/ view = "ask" /\ modal # Nothing /\ modal.id = gate.id
             \/ SessionVerdict(runtime', gate.call) = "allow"
  <2>0. RequestsOK /\ GateOK /\ NothingStranded /\ RequestsFresh
      BY <1>1 DEF GateInv
  <2>1. ~(Submit \/ Response \/ RunEnds \/ Dispatch \/ HookDenies \/ HookFails)
      BY <1>1 DEF Submit, Response, RunEnds, Dispatch, HookDenies, HookFails
  <2>2. ~(\E c \in Calls : PlanCall(c)) /\ ~Phase1
      BY <1>1 DEF PlanCall, Phase1, BeforeTool, AskTimesOut, Classified
  <2>3. ~RunPart
      BY <2>1, <2>2 DEF RunPart
  <2>4. ~ReceiveAsk /\ ~Keys /\ ~UNCHANGED vars
      BY <1>1, <2>0, KeysMove DEF ReceiveAsk, vars
  <2>5. PICK ans, rest : Answer(ans, runtime', rest)
      BY <1>1, <2>0, <2>3, <2>4, NextSplits DEF Answers
  <2>6. \/ modal # Nothing /\ modal.id = gate.id
        \/ \E j \in 1 .. Len(queue) :
              queue[j].id = gate.id /\ SessionVerdict(runtime', queue[j].call) = "allow"
      BY <1>1, <2>0, <2>5, AnswerMoves
  <2>7. modal # Nothing => view = "ask"
      BY <2>0 DEF NothingStranded
  <2>8. \A j \in 1 .. Len(queue) : queue[j].id = gate.id => queue[j].call = gate.call
      BY <1>1, <2>0 DEF RequestsFresh, Fresh, FreshAt
  <2> QED BY <2>6, <2>7, <2>8
<1>2. GateInv /\ [Next]_vars
        => [gate.at = "ask" /\ allowed' # allowed =>
              \/ view = "ask" /\ modal # Nothing /\ modal.id = gate.id
              \/ SessionVerdict(runtime', gate.call) = "allow"]_vars
    BY <1>1
<1> QED BY <1>2, InitGateInv, StepGateInv, PTL DEF Spec, AllowedWasShown

----------------------------------------------------------------------------
(* Denies.                                                                 *)

\* A deny that the whole list comes to is still the verdict of the denies alone.
LEMMA DeniesFirst ==
    ASSUME NEW rules \in Seq(Rule), NEW c, FirstMatch(rules, c) = "deny"
    PROVE  FirstAmong(rules, {i \in DOMAIN rules : rules[i].action = "deny"}, c) = "deny"
<1> DEFINE hits   == {i \in DOMAIN rules : c \in rules[i].pats}
           denies == {i \in DOMAIN rules : rules[i].action = "deny"}
           dhits  == {i \in denies : c \in rules[i].pats}
           Least(S) == CHOOSE i \in S : \A j \in S : i <= j
<1>1. DOMAIN rules \subseteq Nat
    BY LenProperties
<1>2. hits # {} /\ rules[Least(hits)].action = "deny"
    BY DEF FirstMatch, FirstAmong
<1>3. Least(hits) \in hits
  <2>1. \E i \in hits : \A j \in hits : i <= j
      BY <1>1, <1>2, LeastOf
  <2> QED BY <2>1
<1>4. Least(hits) \in dhits
    BY <1>2, <1>3
<1>5. Least(dhits) \in dhits
  <2>1. \E i \in dhits : \A j \in dhits : i <= j
      BY <1>1, <1>4, LeastOf
  <2> QED BY <2>1
<1>6. rules[Least(dhits)].action = "deny"
    BY <1>5
<1> QED BY <1>4, <1>6 DEF FirstAmong

LEMMA RulesOfType ==
    ASSUME NEW pats \in Seq(SUBSET Calls), NEW action \in {"allow", "ask", "deny"}
    PROVE  RulesOf(pats, action) \in Seq(Rule)
<1>1. Len(pats) \in Nat /\ DOMAIN pats = 1 .. Len(pats) /\ \A i \in 1 .. Len(pats) : pats[i] \in SUBSET Calls
    BY LenProperties, ElementOfSeq
<1>2. \A i \in 1 .. Len(pats) : [pats |-> pats[i], action |-> action] \in Rule
    BY <1>1 DEF Rule
<1>3. RulesOf(pats, action) \in [1 .. Len(pats) -> Rule]
    BY <1>1, <1>2 DEF RulesOf
<1> QED BY <1>1, <1>3, SeqDef

LEMMA GlobalRulesType == ASSUME NEW s \in Setups PROVE GlobalRules(s) \in Seq(Rule)
<1>1. /\ s.cliAllow \in Seq(SUBSET Calls) /\ s.cliDeny \in Seq(SUBSET Calls)
      /\ s.cliAsk \in Seq(SUBSET Calls) /\ s.deny \in Seq(SUBSET Calls)
      /\ s.ask \in Seq(SUBSET Calls) /\ s.allow \in Seq(SUBSET Calls) /\ s.ordered \in Seq(Rule)
    BY GateAssumption
<1>2. SettingsRules(s) \in Seq(Rule)
  <2>1. /\ RulesOf(s.deny, "deny") \in Seq(Rule) /\ RulesOf(s.ask, "ask") \in Seq(Rule)
        /\ RulesOf(s.allow, "allow") \in Seq(Rule)
      BY <1>1, RulesOfType
  <2>2. RulesOf(s.deny, "deny") \o RulesOf(s.ask, "ask") \in Seq(Rule)
      BY <2>1, ConcatProperties
  <2>3. RulesOf(s.deny, "deny") \o RulesOf(s.ask, "ask") \o RulesOf(s.allow, "allow") \in Seq(Rule)
      BY <2>1, <2>2, ConcatProperties
  <2> QED BY <1>1, <2>3 DEF SettingsRules
<1>3. DefaultRules \in Seq(Rule)
  <2>1. [pats |-> Trusted, action |-> "allow"] \in Rule /\ [pats |-> Calls, action |-> "ask"] \in Rule
      BY GateAssumption DEF Rule
  <2> QED BY <2>1 DEF DefaultRules
<1>4. /\ RulesOf(s.cliAllow, "allow") \in Seq(Rule) /\ RulesOf(s.cliDeny, "deny") \in Seq(Rule)
      /\ RulesOf(s.cliAsk, "ask") \in Seq(Rule)
    BY <1>1, RulesOfType
<1>5. RulesOf(s.cliAllow, "allow") \o RulesOf(s.cliDeny, "deny") \in Seq(Rule)
    BY <1>4, ConcatProperties
<1>6. RulesOf(s.cliAllow, "allow") \o RulesOf(s.cliDeny, "deny") \o RulesOf(s.cliAsk, "ask")
        \in Seq(Rule)
    BY <1>4, <1>5, ConcatProperties
<1>7. RulesOf(s.cliAllow, "allow") \o RulesOf(s.cliDeny, "deny") \o RulesOf(s.cliAsk, "ask")
        \o SettingsRules(s) \in Seq(Rule)
    BY <1>2, <1>6, ConcatProperties
<1> QED BY <1>3, <1>7, ConcatProperties DEF GlobalRules

\* merge_with_global: what is banned is denied by evaluate_with_rule, whatever rules a
\* server brings.
LEMMA BannedIsDenied == ASSUME setup \in Setups, NEW c, Banned(c) PROVE Evaluate(c) = "deny"
<1>1. CASE SessionVerdict(runtime, c) # "none"
    BY <1>1 DEF Banned, Evaluate
<1>2. CASE SessionVerdict(runtime, c) = "none"
  <2>1. FirstMatch(GlobalRules(setup), c) = "deny" /\ Evaluate(c) = StaticVerdict(c)
      BY <1>2 DEF Banned, Evaluate
  <2>2. FirstAmong(GlobalRules(setup), {i \in DOMAIN GlobalRules(setup) :
                                          GlobalRules(setup)[i].action = "deny"}, c) = "deny"
      BY <2>1, GlobalRulesType, DeniesFirst
  <2> QED BY <2>1, <2>2 DEF StaticVerdict, Merge
<1> QED BY <1>1, <1>2

\* PermissionsHook inside ModeFilter: no mode rewrites a deny.
LEMMA InnerHonoursDeny ==
    ASSUME NEW c, NEW m, Inner(c, m), Evaluate(c) = "deny"
    PROVE  allowed' = allowed
    BY DEF Inner, Rewrite, Deny

SetupKnown == setup \in Setups

\* No server rule, no mode but bypass under its flag and auto with its classifier, no
\* drained queue and no stale request lifts a deny; otherwise a denied call passes only
\* because the operator answers the very modal that shows it.
THEOREM DeniesHold == Spec => DenyHolds
<1>0. Init => SetupKnown
    BY DEF Init, SetupKnown
<1>1. SetupKnown /\ [Next]_vars => SetupKnown'
  <2> SUFFICES ASSUME [Next]_vars PROVE setup' = setup
      BY DEF SetupKnown
  <2>1. CASE Operator
      BY <2>1 DEF Operator, AnswerOnce, OpenAlways, SubpromptEsc, SubpromptEnter, ShiftTab, DropBypass,
                  TogglePlan, Cancel, OpenPermissions, ClosePermissions, OverlayShiftTab, AddRule,
                  DeleteSessionRow, DeleteFileRow, Steady, policy
  <2>2. CASE Phase1
      BY <2>2 DEF Phase1, BeforeTool, AskTimesOut, Classified, policy
  <2> QED BY <2>1, <2>2 DEF Next, Submit, Response, RunEnds, Dispatch, PlanCall, HookDenies,
                            HookFails, ReceiveAsk, policy, vars
<1>2. ASSUME GateInv, setup \in Setups, [Next]_vars, NEW c \in allowed' \ allowed, Banned(c)'
      PROVE  \/ gate.at = "hooks" /\ mode = "bypass" /\ setup.latch
             \/ gate.at = "hooks" /\ mode = "auto" /\ ~setup.autoDisabled
             \/ gate.at = "classify"
             \/ gate.at = "ask" /\ modal # Nothing /\ modal.id = gate.id
  <2>0. RequestsOK /\ GateOK /\ RequestsFresh
      BY <1>2 DEF GateInv
  <2>1. CASE BeforeTool
    <3>1. gate.at = "hooks" /\ runtime' = runtime /\ setup' = setup
        BY <2>1 DEF BeforeTool, policy
    <3>2. Banned(c)
        BY <1>2, <3>1 DEF Banned
    <3>3. Evaluate(c) = "deny"
        BY <1>2, <3>2, BannedIsDenied
    <3>4. CASE \E m : Inner(gate.call, m)
      <4>1. PICK m : Inner(gate.call, m)
          BY <3>4
      <4>2. c = gate.call
          BY <1>2, <4>1 DEF Inner, Allow, Deny
      <4> QED BY <1>2, <3>3, <4>1, <4>2, InnerHonoursDeny
    <3>5. CASE Deny
        BY <1>2, <3>5 DEF Deny
    <3>6. CASE mode = "auto" /\ Classify(gate.call) /\ setup.autoDisabled
      <4>1. Inner(gate.call, "auto")
          BY <3>6 DEF Classify, Apply
      <4> QED BY <3>4, <4>1
    <3> QED BY <2>1, <3>1, <3>4, <3>5, <3>6 DEF BeforeTool
  <2>2. CASE \E v \in {"allow", "soft", "hard"} : Classified(v)
      BY <2>2 DEF Classified
  <2>3. CASE RunPart /\ ~Phase1
      BY <1>2, <2>3 DEF RunPart, Submit, Response, RunEnds, Dispatch, PlanCall, HookDenies, HookFails
  <2>4. CASE AskTimesOut \/ ReceiveAsk \/ Keys \/ UNCHANGED vars
    <3>1. allowed' = allowed
        BY <2>0, <2>4, KeysMove DEF AskTimesOut, ReceiveAsk, vars
    <3> QED BY <1>2, <3>1
  <2>5. CASE Answers
    <3>1. PICK ans, rest : Answer(ans, runtime', rest)
        BY <2>5 DEF Answers
    <3>2. /\ gate.at = "ask" /\ c = gate.call
          /\ \/ modal # Nothing /\ modal.id = gate.id
             \/ \E j \in 1 .. Len(queue) :
                   queue[j].id = gate.id /\ SessionVerdict(runtime', queue[j].call) = "allow"
        BY <1>2, <2>0, <3>1, AnswerMoves
    <3>3. \A j \in 1 .. Len(queue) : queue[j].id = gate.id => queue[j].call = gate.call
        BY <2>0, <3>2 DEF RequestsFresh, Fresh, FreshAt
    <3>4. SessionVerdict(runtime', c) # "allow"
        BY <1>2 DEF Banned
    <3> QED BY <3>2, <3>3, <3>4
  <2> QED BY <1>2, <2>0, <2>1, <2>2, <2>3, <2>4, <2>5, NextSplits DEF Phase1
<1>3. GateInv /\ SetupKnown /\ [Next]_vars
        => [\A c \in allowed' \ allowed :
              Banned(c)' => \/ gate.at = "hooks" /\ mode = "bypass" /\ setup.latch
                            \/ gate.at = "hooks" /\ mode = "auto" /\ ~setup.autoDisabled
                            \/ gate.at = "classify"
                            \/ gate.at = "ask" /\ modal # Nothing /\ modal.id = gate.id]_vars
    BY <1>2 DEF SetupKnown
<1> QED BY <1>0, <1>1, <1>3, InitGateInv, StepGateInv, PTL DEF Spec, DenyHolds

=============================================================================
