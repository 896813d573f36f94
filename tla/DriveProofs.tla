----------------------------- MODULE DriveProofs -----------------------------
(***************************************************************************)
(* A driven run for any number of events, questions, prompts and cancels:  *)
(* its types, that a gated tool never runs without the client's allow,     *)
(* that the client receives the events once and in order and misses only   *)
(* overwritten ones, and what a prompt has waited for when it returns.     *)
(***************************************************************************)
EXTENDS Drive, SequenceTheorems, TLAPS

RunPc   == {"none", "turn", "asking", "await", "ending", "ended"}
Status  == {"Starting", "Running", "AwaitingInput", "Done", "Failed"}
Run     == [pc : RunPc, status : Status, q : 0 .. MaxAsks, prompt : Nat]
Pumping == [pc : {"idle", "frame", "route", "poll", "status", "ask"}, cursor : Nat,
            empty : BOOLEAN, settle : Nat, behind : Nat, q : 0 .. MaxAsks,
            got : {"none", "allow", "deny"}]

\* The run, what feeds it and what it publishes.
RunOK ==
    /\ run \in Run /\ inputs \in Seq(Nat) /\ prompts \in Nat
    /\ published \in Nat /\ overwritten \subseteq Nat /\ rx \in Nat /\ buf \in Seq(Nat)

\* The questions, and the handler that forwards them.
AskOK ==
    /\ permq \in Seq(Questions) /\ pending \in 0 .. MaxAsks /\ asks \in 0 .. MaxAsks
    /\ answer \in [Questions -> {"none", "allow", "deny", "mode"}]
    /\ ran \subseteq Questions /\ allowed \subseteq Questions
    /\ pump \in Pumping /\ cursor \in Nat
    /\ pump.pc = "ask" => pump.q \in Questions
    /\ run.pc = "asking" => run.q \in 1 .. asks

\* What the connection and its flags are.
ClientOK ==
    /\ surface \in Surfaces /\ connected \in BOOLEAN /\ held \in BOOLEAN
    /\ cancelled \in BOOLEAN /\ flag \in BOOLEAN /\ draining \in BOOLEAN
    /\ cancels \in [sent : Nat, handled : Nat]
    /\ reply \in {"none", "error", "cancelled", "end_turn"}

TypeOK == RunOK /\ AskOK /\ ClientOK

LEMMA InitTypeOK == Init => TypeOK
<1> SUFFICES ASSUME Init PROVE TypeOK
    OBVIOUS
<1>1. RunOK
    BY DriveAssumption DEF Init, RunOK, Run, RunPc, Status
<1>2. AskOK
    BY DriveAssumption DEF Init, AskOK, Pumping, NoPump, Questions
<1>3. ClientOK
    BY DEF Init, ClientOK
<1> QED BY <1>1, <1>2, <1>3 DEF TypeOK

\* Every step keeps the run and its events well typed.
LEMMA StepRun == TypeOK /\ [Next]_vars => RunOK'
<1> SUFFICES ASSUME TypeOK, [Next]_vars PROVE RunOK'
    OBVIOUS
<1> USE DriveAssumption DEF TypeOK, RunOK
<1>0. Publish => published' \in Nat /\ overwritten' \subseteq Nat
    BY DEF Publish
<1>1. CASE Emit \/ Drainer
  <2>1. CASE Emit
      BY <1>0, <2>1 DEF Emit, drainer, client
  <2>2. CASE Drain
    <3>1. rx + 1 \in Nat /\ Append(buf, rx + 1) \in Seq(Nat)
        OBVIOUS
    <3> QED BY <2>2, <3>1 DEF Drain, client
  <2>3. CASE Lag \/ DrainEnds
    <3>1. rx' \in Nat
      <4>1. published \in Nat /\ rx \in Nat /\ HubCap \in Nat
          OBVIOUS
      <4> HIDE DEF TypeOK, RunOK
      <4> QED BY <2>3, <4>1 DEF Lag, DrainEnds
    <3> QED BY <2>3, <3>1 DEF Lag, DrainEnds, client
  <2> QED BY <1>1, <2>1, <2>2, <2>3 DEF Drainer
<1>2. CASE Ask
  <2>1. asks + 1 \in 0 .. MaxAsks
    <3>1. asks \in 0 .. MaxAsks
        BY DEF AskOK
    <3> HIDE DEF TypeOK, RunOK
    <3> QED BY <1>2, <3>1 DEF Ask
  <2>2. run' \in Run
      BY <1>2, <2>1 DEF Ask, Run, RunPc
  <2> QED BY <1>2, <2>2 DEF Ask, client, events, drainer
<1>3. CASE Answered \/ AskTimesOut \/ EndTurn
  <2>1. \/ run' = [run EXCEPT !.pc = "turn", !.q = 0]
        \/ run' = [run EXCEPT !.pc = "await", !.status = "AwaitingInput"]
      BY <1>3 DEF Answered, AskTimesOut, EndTurn
  <2>2. run' \in Run
    <3>1. 0 \in 0 .. MaxAsks /\ run \in Run
        OBVIOUS
    <3> HIDE DEF RunOK
    <3> QED BY <2>1, <3>1 DEF Run, RunPc, Status
  <2> QED BY <1>3, <2>2 DEF Answered, AskTimesOut, EndTurn, client, events, drainer
<1>4. CASE TakeInput
  <2>1. Head(inputs) \in Nat /\ Tail(inputs) \in Seq(Nat)
      BY <1>4 DEF TakeInput
  <2>2. run' \in Run
      BY <1>4, <2>1 DEF TakeInput, Run, RunPc, Status
  <2> QED BY <1>0, <1>4, <2>1, <2>2 DEF TakeInput, client, drainer
<1>5. CASE RunEnd \/ Done \/ RunFails
  <2>1. run' \in Run
      BY <1>5 DEF RunEnd, Done, RunFails, Run, RunPc, Status
  <2>2. CASE RunEnd
      BY <1>0, <2>1, <2>2 DEF RunEnd, client, drainer
  <2>3. CASE Done \/ RunFails
    <3>0. inputs' = <<>>
        BY <2>3 DEF Done, RunFails
    <3>1. inputs' \in Seq(Nat)
        BY <3>0
    <3> QED BY <2>1, <2>3, <3>1 DEF Done, RunFails, client, events, drainer
  <2> QED BY <1>5, <2>2, <2>3
<1>6. CASE CreateRun
  <2>1. run' \in Run
      BY <1>6 DEF CreateRun, Spawn, Run, RunPc, Status
  <2> QED BY <1>6, <2>1 DEF CreateRun, events, drainer
<1>11. CASE Route
  <2>1. run' \in Run
      BY <1>11 DEF Route, Spawn, Run, RunPc, Status
  <2>2. inputs' = inputs \/ inputs' = Append(inputs, prompts)
      BY <1>11 DEF Route
  <2>3. inputs' \in Seq(Nat)
    <3>1. inputs \in Seq(Nat) /\ prompts \in Nat
        OBVIOUS
    <3> HIDE DEF TypeOK, RunOK
    <3> QED BY <2>2, <3>1, AppendProperties
  <2> QED BY <1>11, <2>1, <2>3 DEF Route, client, events, drainer
<1>7. ASSUME NEW end \in BOOLEAN, PostInput(end) PROVE RunOK'
    BY <1>7 DEF PostInput, events, drainer
<1>8. CASE SendPrompt \/ SendCancel \/ Disconnect \/ HandleCancel \/ Release
    BY <1>8 DEF SendPrompt, SendCancel, Disconnect, HandleCancel, Release, client, events,
       drainer
<1>9. CASE \/ HandlePrompt \/ PumpCancelled \/ Poll \/ PollStatus \/ Forward \/ GetEvents
           \/ UNCHANGED vars
    BY <1>9 DEF HandlePrompt, PumpCancelled, Poll, PollStatus, Forward, GetEvents, client,
       events, drainer, vars
<1>10. ASSUME NEW v \in {"allow", "deny"},
              ClientAnswers(v) \/ \E q \in Questions : PostPermit(q, v)
       PROVE  RunOK'
    BY <1>10 DEF ClientAnswers, PostPermit, client, events, drainer
<1> QED BY <1>1, <1>2, <1>3, <1>4, <1>5, <1>6, <1>7, <1>8, <1>9, <1>10, <1>11
        DEF Next, RunStep, PumpStep, Drainer

\* Looking at the next question leaves the queue and the surfaced question typed.
LEMMA FrontTyping ==
    ASSUME AskOK
    PROVE  Front \in 0 .. MaxAsks /\ Pulled \in Seq(Questions)
<1>1. CASE permq = <<>>
    BY <1>1, DriveAssumption DEF AskOK, Front, Pulled, Questions
<1>2. CASE permq # <<>>
  <2>1. Head(permq) \in Questions /\ Tail(permq) \in Seq(Questions)
      BY <1>2 DEF AskOK
  <2>2. Front \in 0 .. MaxAsks
      BY <1>2, <2>1, DriveAssumption DEF AskOK, Front, Questions
  <2>3. Pulled \in Seq(Questions)
      BY <1>2, <2>1 DEF AskOK, Pulled
  <2> QED BY <2>2, <2>3
<1> QED BY <1>1, <1>2

\* An answer changes the oneshot it is meant for, and only an open one.
LEMMA PermitEffect ==
    ASSUME AskOK, NEW q, NEW v \in {"allow", "deny"}, Permit(q, v)
    PROVE  /\ permq' \in Seq(Questions) /\ pending' \in 0 .. MaxAsks
           /\ \/ answer' = answer
              \/ /\ q \in 1 .. asks /\ q \in Questions /\ answer[q] = "none"
                 /\ answer' = [answer EXCEPT ![q] = v]
<1>1. permq' \in Seq(Questions) /\ pending' \in 0 .. MaxAsks
    BY FrontTyping, DriveAssumption DEF Permit
<1>2. run.pc = "asking" /\ run.q = q => q \in 1 .. asks /\ q \in Questions
    BY DriveAssumption DEF AskOK, Questions
<1> QED BY <1>1, <1>2 DEF Permit

LEMMA NoPumpTyping == NoPump \in Pumping
BY DriveAssumption DEF NoPump, Pumping

\* Every step keeps the questions and their handler well typed.
LEMMA StepAsk == TypeOK /\ [Next]_vars => AskOK'
<1> SUFFICES ASSUME TypeOK, [Next]_vars PROVE AskOK'
    OBVIOUS
<1> USE DriveAssumption DEF TypeOK
<1>0. AskOK /\ RunOK
    OBVIOUS
<1>1. CASE Ask
  <2>1. asks + 1 \in Questions /\ asks' = asks + 1
      BY <1>1 DEF Ask, AskOK, Questions
  <2>2. permq' \in Seq(Questions)
    <3>1. permq' = permq \/ permq' = Append(permq, asks + 1)
        BY <1>1 DEF Ask
    <3>2. permq \in Seq(Questions)
        BY <1>0 DEF AskOK
    <3> QED BY <2>1, <3>1, <3>2
  <2>3. answer' \in [Questions -> {"none", "allow", "deny", "mode"}]
      BY <1>1, <2>1 DEF Ask, AskOK
  <2>4. run'.q \in 1 .. asks'
      BY <1>1, <2>1 DEF Ask, AskOK, RunOK, Run, Questions
  <2>5. asks' \in 0 .. MaxAsks
      BY <2>1 DEF Questions
  <2> QED BY <1>1, <2>1, <2>2, <2>3, <2>4, <2>5 DEF Ask, AskOK
<1>2. CASE Answered
  <2>1. run'.pc = "turn"
      BY <1>2 DEF Answered, RunOK, Run
  <2>2. ran' \subseteq Questions
      BY <1>2 DEF Answered, AskOK, Questions
  <2> QED BY <1>2, <2>1, <2>2 DEF Answered, AskOK
<1>3. CASE AskTimesOut \/ EndTurn \/ TakeInput \/ RunEnd \/ Done \/ RunFails
  <2>1. run'.pc # "asking"
      BY <1>3 DEF AskTimesOut, EndTurn, TakeInput, RunEnd, Done, RunFails, RunOK, Run
  <2> QED BY <1>3, <2>1 DEF AskTimesOut, EndTurn, TakeInput, RunEnd, Done, RunFails, AskOK,
             request
<1>4. CASE Emit \/ Drainer \/ HandleCancel \/ SendCancel \/ Disconnect \/ UNCHANGED vars
    BY <1>4 DEF Emit, Drainer, Drain, Lag, DrainEnds, HandleCancel, SendCancel, Disconnect,
       request, vars, AskOK
<1>5. ASSUME NEW end \in BOOLEAN, PostInput(end) PROVE AskOK'
    BY <1>5 DEF PostInput, request, AskOK
<1>6. CASE CreateRun
    BY <1>6 DEF CreateRun, Spawn, request, AskOK
<1>7. CASE SendPrompt
  <2>1. pump' \in Pumping /\ pump'.pc = "frame"
      BY <1>7, NoPumpTyping DEF SendPrompt, NoPump, Pumping
  <2> QED BY <1>7, <2>1 DEF SendPrompt, request, AskOK
<1>8. CASE HandlePrompt
  <2>1. pump' \in Pumping /\ pump'.pc = "route"
      BY <1>8 DEF HandlePrompt, AskOK, Pumping
  <2> QED BY <1>8, <2>1 DEF HandlePrompt, request, AskOK
<1>9. CASE Route
  <2>1. pump' \in Pumping /\ pump'.pc # "ask"
      BY <1>9, NoPumpTyping DEF Route, Returned, NoPump, AskOK, Pumping
  <2>2. run' = run \/ run'.pc = "turn"
      BY <1>9 DEF Route, Spawn
  <2> QED BY <1>9, <2>1, <2>2 DEF Route, request, AskOK
<1>10. CASE PumpCancelled
  <2>1. pump' \in Pumping /\ pump'.pc = "idle" /\ cursor' \in Nat
      BY <1>10, NoPumpTyping DEF PumpCancelled, Finish, Returned, NoPump, AskOK, Pumping
  <2> QED BY <1>10, <2>1 DEF PumpCancelled, request, AskOK
<1>11. CASE Poll
  <2>1. pump' \in Pumping /\ pump'.pc = "status"
    <3>1. pump \in Pumping /\ Len(buf) \in Nat
        BY <1>0 DEF AskOK, RunOK
    <3>2. (NewEvents(pump.cursor) = <<>>) \in BOOLEAN
        OBVIOUS
    <3> HIDE DEF TypeOK
    <3> QED BY <1>11, <3>1, <3>2 DEF Poll, Pumping
  <2> QED BY <1>11, <2>1 DEF Poll, AskOK, request
<1>17. CASE PollStatus
  <2>1. permq' \in Seq(Questions) /\ pending' \in 0 .. MaxAsks
      BY <1>17, <1>0, FrontTyping DEF PollStatus
  <2>2. cursor' \in Nat
      BY <1>17 DEF PollStatus, Finish, AskOK, Pumping
  <2>3. pump' \in Pumping /\ (pump'.pc = "ask" => pump'.q \in Questions)
    <3>1. CASE /\ Front # 0
               /\ pump' = [pump EXCEPT !.pc = "ask", !.q = Front, !.settle = 0, !.behind = 0]
      <4>1. Front \in Questions
          BY <1>0, <3>1, FrontTyping DEF Questions
      <4>2. pump \in Pumping /\ 0 \in Nat /\ Front \in 0 .. MaxAsks
          BY <1>0, FrontTyping DEF AskOK
      <4> HIDE DEF TypeOK
      <4> QED BY <3>1, <4>1, <4>2 DEF Pumping
    <3>2. ASSUME NEW n \in Nat, NEW m \in Nat,
                 pump' = [pump EXCEPT !.pc = "poll", !.settle = n, !.behind = m]
          PROVE  pump' \in Pumping /\ pump'.pc = "poll"
        BY <3>2 DEF AskOK, RunOK, Pumping
    <3>3. CASE pump' = NoPump
        BY <3>3, NoPumpTyping DEF NoPump
    <3>4. \/ Front # 0 /\ pump' = [pump EXCEPT !.pc = "ask", !.q = Front, !.settle = 0,
                                                !.behind = 0]
          \/ \E n, m \in Nat :
                pump' = [pump EXCEPT !.pc = "poll", !.settle = n, !.behind = m]
          \/ pump' = NoPump
      <4>1. pump.settle + 1 \in Nat /\ pump.behind + 1 \in Nat /\ 0 \in Nat
          BY DEF AskOK, Pumping
      <4>2. /\ \A b \in BOOLEAN : Settled(b) \in Nat
            /\ \A b \in BOOLEAN : (IF b THEN pump.behind + 1 ELSE 0) \in Nat
          BY <4>1 DEF Settled
      <4> QED BY <1>17, <4>2 DEF PollStatus, Finish, Returned
    <3> QED BY <3>1, <3>2, <3>3, <3>4
  <2> QED BY <1>17, <2>1, <2>2, <2>3 DEF PollStatus, AskOK
<1>12. ASSUME NEW v \in {"allow", "deny"}, ClientAnswers(v) PROVE AskOK'
  <2>1. pump' \in Pumping /\ pump'.pc = "ask" /\ pump'.q = pump.q
      BY <1>12 DEF ClientAnswers, AskOK, Pumping
  <2> QED BY <1>12, <2>1 DEF ClientAnswers, AskOK
<1>13. ASSUME NEW v \in {"allow", "deny"}, NEW q \in Questions, PostPermit(q, v)
       PROVE  AskOK'
  <2>1. Permit(q, v)
      BY <1>13 DEF PostPermit
  <2>2. /\ permq' \in Seq(Questions) /\ pending' \in 0 .. MaxAsks
        /\ answer' \in [Questions -> {"none", "allow", "deny", "mode"}]
      BY <1>0, <2>1, PermitEffect DEF AskOK
  <2> QED BY <1>13, <2>2 DEF PostPermit, AskOK
<1>14. CASE Forward
  <2>1. PICK v \in {"allow", "deny"} : Permit(pump.q, v)
      BY <1>14 DEF Forward, AskOK, Pumping
  <2>2. /\ permq' \in Seq(Questions) /\ pending' \in 0 .. MaxAsks
        /\ answer' \in [Questions -> {"none", "allow", "deny", "mode"}]
      BY <1>0, <2>1, PermitEffect DEF AskOK
  <2>3. pump' \in Pumping /\ pump'.pc = "poll"
    <3>1. pump' = [pump EXCEPT !.pc = "poll", !.q = 0, !.got = "none"] /\ pump \in Pumping
        BY <1>0, <1>14 DEF Forward, AskOK
    <3>2. 0 \in 0 .. MaxAsks
        OBVIOUS
    <3> QED BY <3>1, <3>2 DEF Pumping
  <2> QED BY <1>14, <2>2, <2>3 DEF Forward, AskOK
<1>15. CASE Release
    BY <1>15 DEF Release, AskOK, Questions
<1>16. CASE GetEvents
  <2>1. permq' \in Seq(Questions) /\ pending' \in 0 .. MaxAsks
      BY <1>16, <1>0, FrontTyping DEF GetEvents
  <2> QED BY <1>16, <2>1 DEF GetEvents, AskOK, RunOK
<1> QED BY <1>1, <1>2, <1>3, <1>4, <1>5, <1>6, <1>7, <1>8, <1>9, <1>10, <1>11, <1>12,
        <1>13, <1>14, <1>15, <1>16, <1>17 DEF Next, RunStep, PumpStep

\* Every step keeps the connection and its flags well typed.
LEMMA StepClient == TypeOK /\ [Next]_vars => ClientOK'
<1> SUFFICES ASSUME TypeOK, [Next]_vars PROVE ClientOK'
    OBVIOUS
<1> USE DEF TypeOK, ClientOK, client, events, drainer
<1>1. CASE RunStep \/ Drainer \/ UNCHANGED vars
  <2>1. CASE Emit \/ Ask \/ Answered \/ AskTimesOut \/ EndTurn
      BY <2>1 DEF Emit, Ask, Answered, AskTimesOut, EndTurn
  <2>2. CASE TakeInput \/ RunEnd \/ Done \/ RunFails
      BY <2>2 DEF TakeInput, RunEnd, Done, RunFails
  <2>3. CASE Drainer \/ UNCHANGED vars
      BY <2>3 DEF Drainer, Drain, Lag, DrainEnds, vars
  <2> QED BY <1>1, <2>1, <2>2, <2>3 DEF RunStep
<1>2. CASE PumpStep
    BY <1>2 DEF PumpStep, HandlePrompt, Route, PumpCancelled, Poll, PollStatus, Forward, Finish,
       Returned
<1>3. CASE SendCancel \/ HandleCancel
  <2>1. cancels' \in [sent : Nat, handled : Nat]
      BY <1>3 DEF SendCancel, HandleCancel
  <2> QED BY <1>3, <2>1 DEF SendCancel, HandleCancel
<1>4. CASE SendPrompt \/ Disconnect \/ CreateRun \/ GetEvents \/ Release
    BY <1>4 DEF SendPrompt, Disconnect, CreateRun, GetEvents, Release
<1>5. ASSUME NEW end \in BOOLEAN, PostInput(end) PROVE ClientOK'
    BY <1>5 DEF PostInput
<1>6. ASSUME NEW v \in {"allow", "deny"},
              ClientAnswers(v) \/ \E q \in Questions : PostPermit(q, v)
      PROVE  ClientOK'
    BY <1>6 DEF ClientAnswers, PostPermit
<1> QED BY <1>1, <1>2, <1>3, <1>4, <1>5, <1>6 DEF Next

\* A driven run stays in its types: the run and its published status, the
\* questions and their oneshots, the session/prompt handler and the connection.
THEOREM DriveTypeCorrect == Spec => []TypeOK
<1>1. TypeOK /\ [Next]_vars => TypeOK'
    BY StepRun, StepAsk, StepClient DEF TypeOK
<1> QED BY InitTypeOK, <1>1, PTL DEF Spec

----------------------------------------------------------------------------
(* No tool runs unless it was allowed.                                     *)

\* What the answers owe to the client: an allow that is in a oneshot, or on its
\* way there, is one the client gave to that question, and a tool that ran had an
\* answer that stays what it was.
AnswersHonest ==
    /\ \A q \in Questions : answer[q] = "allow" => q \in allowed
    /\ \A q \in Questions : q > asks => answer[q] = "none"
    /\ \A q \in ran : answer[q] \in {"allow", "mode"}
    /\ pump.got = "allow" => pump.q \in allowed
    /\ pump.got # "none" => pump.pc = "ask"

\* An answer given to question q with the client's word for it keeps the answers
\* honest.
LEMMA PermitHonest ==
    ASSUME AskOK, AnswersHonest, NEW q, NEW v \in {"allow", "deny"}, Permit(q, v),
           v = "allow" => q \in allowed', allowed \subseteq allowed',
           asks' = asks, ran' = ran, pump'.got = "none" \/ pump' = pump
    PROVE  AnswersHonest'
<1>1. \/ answer' = answer
      \/ /\ q \in 1 .. asks /\ q \in Questions /\ answer[q] = "none"
         /\ answer' = [answer EXCEPT ![q] = v]
    BY PermitEffect
<1>2. CASE answer' = answer
    BY <1>2 DEF AnswersHonest
<1>3. CASE /\ q \in 1 .. asks /\ q \in Questions /\ answer[q] = "none"
           /\ answer' = [answer EXCEPT ![q] = v]
  <2>1. \A p \in Questions : answer'[p] = IF p = q THEN v ELSE answer[p]
      BY <1>3 DEF AskOK
  <2>2. \A p \in Questions : answer'[p] = "allow" => p \in allowed'
      BY <2>1 DEF AnswersHonest
  <2>3. \A p \in Questions : p > asks => answer'[p] = "none"
    <3>1. \A p \in Questions : p > asks => p # q
        BY <1>3, DriveAssumption DEF AskOK, Questions
    <3> QED BY <2>1, <3>1 DEF AnswersHonest
  <2>4. \A p \in ran : answer'[p] \in {"allow", "mode"}
      BY <1>3, <2>1 DEF AnswersHonest, AskOK
  <2> QED BY <2>2, <2>3, <2>4 DEF AnswersHonest
<1> QED BY <1>1, <1>2, <1>3

LEMMA StepHonest == TypeOK /\ AnswersHonest /\ [Next]_vars => AnswersHonest'
<1> SUFFICES ASSUME TypeOK, AnswersHonest, [Next]_vars PROVE AnswersHonest'
    OBVIOUS
<1>0. AskOK /\ pump \in Pumping /\ (pump.pc = "ask" => pump.q \in Questions)
    BY DEF TypeOK, AskOK
<1>1. CASE Ask
  <2>1. asks + 1 \in Questions /\ asks' = asks + 1 /\ asks \in Nat
      BY <1>1, DriveAssumption DEF Ask, TypeOK, AskOK, Questions
  <2>2. answer[asks + 1] = "none" /\ asks + 1 \notin ran
      BY <2>1 DEF AnswersHonest, Questions
  <2>3. /\ answer'[asks + 1] # "allow"
        /\ \A q \in Questions : q # asks + 1 => answer'[q] = answer[q]
      BY <1>1, <2>1, <2>2 DEF Ask, TypeOK, AskOK
  <2>4. UNCHANGED <<ran, allowed, pump>>
      BY <1>1 DEF Ask
  <2>5. \A q \in Questions : q > asks' => q > asks /\ q # asks + 1
      BY <2>1 DEF Questions
  <2> QED BY <2>1, <2>2, <2>3, <2>4, <2>5 DEF AnswersHonest, TypeOK, AskOK
<1>2. CASE Answered
  <2>1. UNCHANGED <<answer, asks, allowed, pump>>
      BY <1>2 DEF Answered
  <2>2. \A q \in ran' : answer[q] \in {"allow", "mode"}
      BY <1>2 DEF Answered, AnswersHonest
  <2> QED BY <2>1, <2>2 DEF AnswersHonest
<1>3. CASE \/ AskTimesOut \/ EndTurn \/ TakeInput \/ RunEnd \/ Done \/ RunFails \/ Emit
           \/ Drainer \/ HandleCancel \/ SendCancel \/ Disconnect \/ CreateRun
           \/ GetEvents \/ UNCHANGED vars \/ \E end \in BOOLEAN : PostInput(end)
  <2>1. UNCHANGED <<answer, asks, ran, allowed, pump>>
      BY <1>3 DEF AskTimesOut, EndTurn, TakeInput, RunEnd, Done, RunFails, Emit, Drainer,
         Drain, Lag, DrainEnds, HandleCancel, SendCancel, Disconnect, CreateRun, GetEvents,
         PostInput, vars, request
  <2> QED BY <2>1 DEF AnswersHonest
<1>4. CASE SendPrompt \/ HandlePrompt \/ Route \/ PumpCancelled \/ Poll \/ PollStatus
  <2>1. UNCHANGED <<answer, asks, ran, allowed>>
      BY <1>4 DEF SendPrompt, HandlePrompt, Route, PumpCancelled, Poll, PollStatus, request
  <2>2. pump'.got = "none"
    <3>1. CASE pump' = NoPump
        BY <3>1 DEF NoPump
    <3>2. CASE SendPrompt
        BY <3>2 DEF SendPrompt, NoPump
    <3>3. CASE pump.pc # "ask" /\ pump'.got = pump.got
        BY <3>3, <1>0 DEF AnswersHonest, Pumping
    <3>4. CASE HandlePrompt \/ Route \/ PumpCancelled
        BY <3>1, <3>3, <3>4, <1>0 DEF HandlePrompt, Route, PumpCancelled, Finish, Returned,
           Pumping
    <3>5. CASE Poll \/ PollStatus
        BY <3>1, <3>3, <3>5, <1>0 DEF Poll, PollStatus, Finish, Returned, Pumping
    <3> QED BY <1>4, <3>2, <3>4, <3>5
  <2> QED BY <2>1, <2>2 DEF AnswersHonest
<1>5. ASSUME NEW v \in {"allow", "deny"}, ClientAnswers(v) PROVE AnswersHonest'
  <2>1. UNCHANGED <<answer, asks, ran>> /\ allowed \subseteq allowed'
      BY <1>5 DEF ClientAnswers
  <2>2. pump'.pc = "ask" /\ (pump'.got = "allow" => pump'.q \in allowed')
      BY <1>5, <1>0 DEF ClientAnswers, Pumping
  <2> QED BY <2>1, <2>2 DEF AnswersHonest
<1>6. ASSUME NEW v \in {"allow", "deny"}, NEW q \in Questions, PostPermit(q, v)
      PROVE  AnswersHonest'
  <2>1. /\ Permit(q, v) /\ (v = "allow" => q \in allowed') /\ allowed \subseteq allowed'
        /\ UNCHANGED <<asks, ran, pump>>
      BY <1>6 DEF PostPermit
  <2> QED BY <1>0, <2>1, PermitHonest
<1>7. CASE Forward
  <2>1. PICK v \in {"allow", "deny"} :
            Permit(pump.q, v) /\ (v = "allow" => pump.got = "allow")
    <3>1. pump.got \in {"none", "allow", "deny"}
        BY <1>0 DEF Pumping
    <3> QED BY <3>1, <1>7 DEF Forward
  <2>2. pump'.got = "none" /\ UNCHANGED <<asks, ran, allowed>>
      BY <1>0, <1>7 DEF Forward, Pumping
  <2> QED BY <1>0, <2>1, <2>2, PermitHonest DEF AnswersHonest
<1>8. CASE Release
  <2>1. UNCHANGED <<asks, ran, allowed, pump>>
      BY <1>8 DEF Release
  <2>2. answer' = [q \in Questions |->
            IF q <= asks /\ answer[q] = "none" THEN "deny" ELSE answer[q]]
      BY <1>8 DEF Release
  <2>3. \A q \in Questions :
            answer'[q] # answer[q] => /\ answer[q] = "none" /\ q <= asks
                                      /\ answer'[q] = "deny"
      BY <2>2
  <2> QED BY <2>1, <2>3, DriveAssumption DEF AnswersHonest, TypeOK, AskOK, Questions
<1> QED BY <1>1, <1>2, <1>3, <1>4, <1>5, <1>6, <1>7, <1>8 DEF Next, RunStep, PumpStep

\* A gated tool never runs without the client's allow for that very call: however
\* many questions are asked, whichever of them are answered late, twice or for
\* another, and whenever the client goes.
THEOREM ToolsNeverFailOpen == Spec => []NeverFailsOpen
<1>1. Init => AnswersHonest
    BY DEF Init, AnswersHonest, NoPump
<1>2. TypeOK /\ AnswersHonest => NeverFailsOpen
    BY DEF TypeOK, AskOK, AnswersHonest, NeverFailsOpen
<1> QED BY <1>1, <1>2, StepHonest, DriveTypeCorrect, PTL DEF Spec

----------------------------------------------------------------------------
(* The client sees the events once and in order.                           *)

\* What the buffer holds of the events that the drainer has come past, and which of
\* the others the channel has already dropped.
BufferHonest ==
    /\ InOrder(buf)
    /\ \A i \in 1 .. Len(buf) : buf[i] <= rx
    /\ rx <= published
    /\ \A e \in 1 .. rx : e \in overwritten \/ \E j \in 1 .. Len(buf) : buf[j] = e
    /\ \A e \in 1 .. published : e > rx /\ e + HubCap <= published => e \in overwritten

\* An event that is published may push out the oldest one.
LEMMA PublishHonest ==
    ASSUME TypeOK, BufferHonest, Publish, UNCHANGED <<rx, buf>>
    PROVE  BufferHonest'
<1>0. /\ published \in Nat /\ rx \in Nat /\ buf \in Seq(Nat) /\ HubCap \in Nat \ {0}
      /\ published' = published + 1 /\ overwritten \subseteq overwritten'
    BY DriveAssumption DEF TypeOK, RunOK, Publish
<1>1. InOrder(buf)'
    BY <1>0 DEF BufferHonest, InOrder
<1>2. rx' <= published'
    BY <1>0 DEF BufferHonest
<1>3. ASSUME NEW e \in 1 .. published', e > rx, e + HubCap <= published'
      PROVE  e \in overwritten'
  <2>1. CASE e + HubCap <= published
    <3>1. e \in 1 .. published
        BY <1>0, <1>3, <2>1
    <3> QED BY <1>0, <1>3, <2>1, <3>1 DEF BufferHonest
  <2>2. CASE e + HubCap = published + 1
    <3>1. e = published + 1 - HubCap /\ published + 1 > rx + HubCap
        BY <1>0, <1>3, <2>2
    <3> QED BY <3>1 DEF Publish
  <2> QED BY <1>0, <1>3, <2>1, <2>2
<1> QED BY <1>0, <1>1, <1>2, <1>3 DEF BufferHonest

\* The drainer adds the next event, or skips to the oldest that is left.
LEMMA DrainHonest == ASSUME TypeOK, BufferHonest, Drainer PROVE BufferHonest'
<1>0. /\ published \in Nat /\ rx \in Nat /\ buf \in Seq(Nat) /\ HubCap \in Nat \ {0}
      /\ UNCHANGED <<published, overwritten>> /\ Len(buf) \in Nat
    BY DriveAssumption DEF TypeOK, RunOK, Drainer, Drain, Lag, DrainEnds
<1>1. CASE Drain
  <2>1. /\ rx' = rx + 1 /\ rx < published /\ buf' = Append(buf, rx + 1)
        /\ Len(buf') = Len(buf) + 1 /\ buf'[Len(buf) + 1] = rx + 1
        /\ \A i \in 1 .. Len(buf) : buf'[i] = buf[i] /\ buf[i] \in Nat
      BY <1>0, <1>1 DEF Drain
  <2>2. ASSUME NEW i \in 1 .. Len(buf'), NEW j \in 1 .. Len(buf'), i < j
        PROVE  buf'[i] < buf'[j]
    <3>1. i \in 1 .. Len(buf)
        BY <1>0, <2>1, <2>2
    <3>2. CASE j = Len(buf) + 1
        BY <1>0, <2>1, <3>1, <3>2 DEF BufferHonest
    <3>3. CASE j # Len(buf) + 1
      <4>1. j \in 1 .. Len(buf)
          BY <1>0, <2>1, <3>3
      <4> QED BY <2>1, <2>2, <3>1, <4>1 DEF BufferHonest, InOrder
    <3> QED BY <3>2, <3>3
  <2>3. ASSUME NEW i \in 1 .. Len(buf'), NEW e \in 1 .. buf'[i] - 1
        PROVE  e \in overwritten \/ \E j \in 1 .. i - 1 : buf'[j] = e
    <3>1. CASE i = Len(buf) + 1
      <4>1. e \in 1 .. rx
          BY <1>0, <2>1, <2>3, <3>1
      <4>2. e \in overwritten \/ \E j \in 1 .. Len(buf) : buf[j] = e
          BY <4>1 DEF BufferHonest
      <4>3. \A j \in 1 .. Len(buf) : j \in 1 .. i - 1 /\ buf'[j] = buf[j]
          BY <1>0, <2>1, <3>1
      <4> QED BY <4>2, <4>3
    <3>2. CASE i # Len(buf) + 1
      <4>1. i \in 1 .. Len(buf)
          BY <1>0, <2>1, <3>2
      <4>2. e \in overwritten \/ \E j \in 1 .. i - 1 : buf[j] = e
          BY <2>1, <2>3, <4>1 DEF BufferHonest, InOrder
      <4>3. \A j \in 1 .. i - 1 : buf'[j] = buf[j]
          BY <1>0, <2>1, <4>1
      <4> QED BY <4>2, <4>3
    <3> QED BY <3>1, <3>2
  <2>4. \A i \in 1 .. Len(buf') : buf'[i] <= rx'
    <3> SUFFICES ASSUME NEW i \in 1 .. Len(buf') PROVE buf'[i] <= rx'
        OBVIOUS
    <3>1. CASE i = Len(buf) + 1
        BY <1>0, <2>1, <3>1
    <3>2. CASE i # Len(buf) + 1
      <4>1. i \in 1 .. Len(buf)
          BY <1>0, <2>1, <3>2
      <4> QED BY <1>0, <2>1, <4>1 DEF BufferHonest
    <3> QED BY <3>1, <3>2
  <2>5. ASSUME NEW e \in 1 .. rx'
        PROVE  e \in overwritten \/ \E j \in 1 .. Len(buf') : buf'[j] = e
    <3>1. CASE e = rx + 1
      <4>1. Len(buf) + 1 \in 1 .. Len(buf')
          BY <1>0, <2>1
      <4> QED BY <2>1, <3>1, <4>1
    <3>2. CASE e # rx + 1
      <4>1. e \in 1 .. rx
          BY <1>0, <2>1, <3>2
      <4>2. \A j \in 1 .. Len(buf) : j \in 1 .. Len(buf')
          BY <1>0, <2>1
      <4> QED BY <2>1, <4>1, <4>2 DEF BufferHonest
    <3> QED BY <3>1, <3>2
  <2>6. \A e \in 1 .. published : e > rx' => e > rx
      BY <1>0, <2>1
  <2>7. rx' <= published
      BY <1>0, <2>1
  <2>8. InOrder(buf)'
      BY <1>0, <2>2, <2>3 DEF InOrder
  <2> QED BY <1>0, <2>4, <2>5, <2>6, <2>7, <2>8 DEF BufferHonest
<1>2. CASE Lag
  <2>1. rx' = published - HubCap /\ rx < rx' /\ rx' \in Nat /\ rx' <= published /\ buf' = buf
      BY <1>0, <1>2 DEF Lag
  <2>2. \A i \in 1 .. Len(buf) : buf[i] <= rx'
    <3>1. \A i \in 1 .. Len(buf) : buf[i] \in Nat /\ buf[i] <= rx
        BY <1>0 DEF BufferHonest
    <3> QED BY <1>0, <2>1, <3>1
  <2>3. ASSUME NEW e \in 1 .. rx'
        PROVE  e \in overwritten \/ \E j \in 1 .. Len(buf) : buf[j] = e
    <3>1. CASE e <= rx
      <4>1. e \in 1 .. rx
          BY <1>0, <2>1, <3>1
      <4> QED BY <4>1 DEF BufferHonest
    <3>2. CASE e > rx
      <4>1. e \in 1 .. published /\ e + HubCap <= published
          BY <1>0, <2>1, <3>2
      <4> QED BY <3>2, <4>1 DEF BufferHonest
    <3> QED BY <1>0, <2>1, <3>1, <3>2
  <2>4. \A e \in 1 .. published : e > rx' => e > rx
      BY <1>0, <2>1
  <2>5. InOrder(buf)'
      BY <1>0, <2>1 DEF BufferHonest, InOrder
  <2> QED BY <1>0, <2>1, <2>2, <2>3, <2>4, <2>5 DEF BufferHonest
<1>3. CASE DrainEnds
    BY <1>0, <1>3 DEF DrainEnds, BufferHonest, InOrder
<1> QED BY <1>1, <1>2, <1>3 DEF Drainer

LEMMA StepBuffer == TypeOK /\ BufferHonest /\ [Next]_vars => BufferHonest'
<1> SUFFICES ASSUME TypeOK, BufferHonest, [Next]_vars PROVE BufferHonest'
    OBVIOUS
<1>1. CASE UNCHANGED events
    BY <1>1 DEF events, drainer, BufferHonest, InOrder
<1>2. CASE Publish /\ UNCHANGED drainer
    BY <1>2, PublishHonest DEF drainer
<1>3. CASE RunStep
  <2>1. CASE Ask \/ Answered \/ AskTimesOut \/ EndTurn \/ Done \/ RunFails
      BY <1>1, <2>1 DEF Ask, Answered, AskTimesOut, EndTurn, Done, RunFails
  <2>2. CASE Emit \/ RunEnd \/ TakeInput
      BY <1>1, <1>2, <2>2 DEF Emit, RunEnd, TakeInput, events
  <2> QED BY <1>3, <2>1, <2>2 DEF RunStep
<1>4. CASE Drainer
    BY <1>4, DrainHonest
<1>5. CASE PumpStep
    BY <1>1, <1>5 DEF PumpStep, HandlePrompt, Route, PumpCancelled, Poll, PollStatus, Forward
<1>6. CASE \/ HandleCancel \/ Release \/ SendPrompt \/ SendCancel \/ Disconnect \/ CreateRun
           \/ GetEvents \/ UNCHANGED vars
    BY <1>1, <1>6 DEF HandleCancel, Release, SendPrompt, SendCancel, Disconnect, CreateRun,
       GetEvents, vars
<1> QED BY <1>1, <1>3, <1>4, <1>5, <1>6 DEF Next, PostInput, ClientAnswers, PostPermit

\* How far the client has been served: by the handler of its prompt, or else as
\* far as the session's cursor says.
Served == IF pump.pc \in {"route", "poll", "status", "ask"} THEN pump.cursor ELSE cursor

\* The client holds the beginning of the buffer, as far as the cursors say.
CursorsAgree ==
    /\ delivered \in Seq(Nat) /\ Len(delivered) <= Len(buf)
    /\ \A i \in 1 .. Len(delivered) : delivered[i] = buf[i]
    /\ Served <= Len(buf)
    /\ connected => Len(delivered) = Served
    /\ pump.pc = "route" => pump.cursor = cursor
    /\ surface = "poll" => pump.pc = "idle" /\ connected

\* The events a poll returns continue the ones before them.
LEMMA NewEventsContinue ==
    ASSUME buf \in Seq(Nat), delivered \in Seq(Nat), Len(delivered) <= Len(buf),
           \A i \in 1 .. Len(delivered) : delivered[i] = buf[i],
           NEW d, d = delivered \o NewEvents(Len(delivered))
    PROVE  /\ d \in Seq(Nat) /\ Len(d) = Len(buf)
           /\ \A i \in 1 .. Len(d) : d[i] = buf[i]
<1> DEFINE n == Len(delivered)
           k == Len(buf)
           e == NewEvents(n)
<1>1. n \in Nat /\ k \in Nat /\ n <= k
    BY LenProperties
<1>2. /\ e \in Seq(Nat) /\ Len(e) = k - n
      /\ \A i \in 1 .. k - n : e[i] = buf[n + i]
  <2>1. e = SubSeq(buf, n + 1, k)
      BY DEF NewEvents
  <2>2. n + 1 \in Int /\ k \in Int /\ \A i \in n + 1 .. k : buf[i] \in Nat
    <3>1. \A i \in 1 .. k : buf[i] \in Nat
        BY ElementOfSeq
    <3> HIDE DEF n, k
    <3> QED BY <1>1, <3>1
  <2>3. /\ SubSeq(buf, n + 1, k) \in Seq(Nat)
        /\ Len(SubSeq(buf, n + 1, k)) = IF n + 1 <= k THEN k - (n + 1) + 1 ELSE 0
        /\ \A i \in 1 .. k - (n + 1) + 1 : SubSeq(buf, n + 1, k)[i] = buf[(n + 1) + i - 1]
      BY <2>2, SubSeqProperties
  <2> HIDE DEF e, n, k
  <2>4. k - (n + 1) + 1 = k - n
      BY <1>1
  <2>5. (IF n + 1 <= k THEN k - n ELSE 0) = k - n
      BY <1>1
  <2>6. \A i \in 1 .. k - n : (n + 1) + i - 1 = n + i
      BY <1>1
  <2>7. Len(e) = k - n /\ e \in Seq(Nat)
      BY <2>1, <2>3, <2>4, <2>5
  <2> QED BY <2>1, <2>3, <2>4, <2>6, <2>7
<1>3. delivered \in Seq(Nat) /\ n = Len(delivered) /\ d = delivered \o e
    OBVIOUS
<1> HIDE DEF e, n, k
<1>4. /\ d \in Seq(Nat) /\ Len(d) = n + Len(e)
      /\ \A i \in 1 .. n + Len(e) : d[i] = IF i <= n THEN delivered[i] ELSE e[i - n]
  <2>1. e \in Seq(Nat)
      BY <1>2
  <2>2. /\ delivered \o e \in Seq(Nat) /\ Len(delivered \o e) = Len(delivered) + Len(e)
        /\ \A i \in 1 .. Len(delivered) + Len(e) : (delivered \o e)[i] =
              IF i <= Len(delivered) THEN delivered[i] ELSE e[i - Len(delivered)]
      BY <1>3, <2>1, ConcatProperties
  <2> QED BY <1>3, <2>2
<1>5. Len(d) = k
    BY <1>1, <1>2, <1>4
<1>6. ASSUME NEW i \in 1 .. k PROVE d[i] = buf[i]
  <2>1. CASE i <= n
    <3>1. d[i] = delivered[i] /\ i \in 1 .. Len(delivered)
        BY <1>1, <1>2, <1>3, <1>4, <2>1
    <3> QED BY <3>1
  <2>2. CASE i > n
    <3>1. i - n \in 1 .. k - n /\ n + (i - n) = i
        BY <1>1, <2>2
    <3>2. i \in 1 .. n + Len(e) /\ ~(i <= n)
        BY <1>1, <1>2, <2>2
    <3>3. d[i] = e[i - n]
        BY <1>4, <3>2
    <3>4. e[i - n] = buf[n + (i - n)]
        BY <1>2, <3>1
    <3> QED BY <3>1, <3>3, <3>4
  <2>3. i <= n \/ i > n
      BY <1>1
  <2> QED BY <2>1, <2>2, <2>3
<1> QED BY <1>4, <1>5, <1>6 DEF k

\* Steps that leave the cursors and the deliveries alone keep them in agreement,
\* whatever they add to the buffer.
LEMMA CursorsKept ==
    ASSUME TypeOK, CursorsAgree, UNCHANGED <<cursor, delivered, surface>>,
           pump'.pc = pump.pc, pump'.cursor = pump.cursor, connected' => connected,
           surface = "poll" => connected', buf' = buf \/ buf' = Append(buf, rx + 1)
    PROVE  CursorsAgree'
<1>1. Served' = Served /\ Served \in Nat
    BY DEF Served, TypeOK, AskOK, Pumping
<1>2. /\ buf \in Seq(Nat) /\ rx + 1 \in Nat /\ Len(buf) \in Nat /\ Len(delivered) \in Nat
      /\ Len(delivered) <= Len(buf)
    BY DEF CursorsAgree, TypeOK, RunOK
<1>3. Len(buf) <= Len(buf') /\ Len(buf') \in Nat /\ \A i \in 1 .. Len(buf) : buf'[i] = buf[i]
    BY <1>2
<1>4. Served' <= Len(buf') /\ Len(delivered') <= Len(buf')
    BY <1>1, <1>2, <1>3 DEF CursorsAgree
<1>5. \A i \in 1 .. Len(delivered) : i \in 1 .. Len(buf)
    BY <1>2
<1> QED BY <1>1, <1>3, <1>4, <1>5 DEF CursorsAgree

LEMMA StepCursors == TypeOK /\ CursorsAgree /\ [Next]_vars => CursorsAgree'
<1> SUFFICES ASSUME TypeOK, CursorsAgree, [Next]_vars PROVE CursorsAgree'
    OBVIOUS
<1>0. /\ buf \in Seq(Nat) /\ Len(buf) \in Nat /\ cursor \in Nat /\ pump \in Pumping
      /\ pump.cursor \in Nat
    BY DEF TypeOK, RunOK, AskOK, Pumping
<1>1. CASE RunStep \/ Drainer
  <2>1. UNCHANGED <<cursor, delivered, surface, pump, connected>>
      BY <1>1 DEF RunStep, Drainer, Drain, Lag, DrainEnds, Emit, Ask, Answered, AskTimesOut,
         EndTurn, TakeInput, RunEnd, Done, RunFails, client
  <2>2. buf' = buf \/ buf' = Append(buf, rx + 1)
    <3>1. CASE RunStep
        BY <3>1 DEF RunStep, Emit, Ask, Answered, AskTimesOut, EndTurn, TakeInput, RunEnd,
           Done, RunFails, events, drainer
    <3>2. CASE Drainer
        BY <3>2 DEF Drainer, Drain, Lag, DrainEnds
    <3> QED BY <1>1, <3>1, <3>2
  <2> QED BY <2>1, <2>2, CursorsKept DEF CursorsAgree
<1>2. CASE \/ HandleCancel \/ SendCancel \/ Disconnect \/ CreateRun \/ Release \/ Forward
           \/ UNCHANGED vars \/ \E end \in BOOLEAN : PostInput(end)
           \/ \E v \in {"allow", "deny"} :
                 ClientAnswers(v) \/ \E q \in Questions : PostPermit(q, v)
  <2>1. UNCHANGED <<cursor, delivered, surface, buf>>
      BY <1>2 DEF HandleCancel, SendCancel, Disconnect, CreateRun, Release, Forward, vars,
         PostInput, ClientAnswers, PostPermit, client, events, drainer
  <2>2. (connected' => connected) /\ (surface = "poll" => connected')
      BY <1>2 DEF HandleCancel, SendCancel, Disconnect, CreateRun, Release, Forward, vars,
         PostInput, ClientAnswers, PostPermit, client, CursorsAgree
  <2>3. CASE pump' = pump
      BY <2>1, <2>2, <2>3, CursorsKept
  <2>4. CASE \E v \in {"allow", "deny"} : ClientAnswers(v)
    <3>1. pump'.pc = pump.pc /\ pump'.cursor = pump.cursor
        BY <1>0, <2>4 DEF ClientAnswers, Pumping
    <3> QED BY <2>1, <2>2, <3>1, CursorsKept
  <2>5. CASE Forward
    <3>1. /\ pump.pc = "ask" /\ pump'.pc = "poll" /\ pump'.cursor = pump.cursor
          /\ UNCHANGED connected
        BY <1>0, <2>5 DEF Forward, Pumping, client
    <3>2. Served' = Served
        BY <2>1, <3>1 DEF Served
    <3> QED BY <2>1, <3>1, <3>2 DEF CursorsAgree
  <2> QED BY <1>2, <2>3, <2>4, <2>5 DEF HandleCancel, SendCancel, Disconnect, CreateRun,
          Release, vars, PostInput, PostPermit
<1>3. CASE SendPrompt \/ HandlePrompt \/ Route \/ PumpCancelled \/ PollStatus
  <2>1. UNCHANGED <<delivered, surface, buf, connected>>
      BY <1>3 DEF SendPrompt, HandlePrompt, Route, PumpCancelled, PollStatus, client, events,
         drainer
  <2>2. /\ Served' = Served
        /\ pump'.pc = "route" => pump'.cursor = cursor'
    <3>1. CASE SendPrompt
        BY <3>1 DEF SendPrompt, NoPump, Served
    <3>2. CASE HandlePrompt
        BY <1>0, <3>2 DEF HandlePrompt, Served, Pumping
    <3>3. CASE Route
        BY <1>0, <3>3 DEF Route, Returned, NoPump, Served, Pumping, CursorsAgree
    <3>4. CASE PumpCancelled
        BY <3>4 DEF PumpCancelled, Finish, Returned, NoPump, Served
    <3>5. CASE PollStatus
      <4>1. CASE pump' = NoPump /\ cursor' = pump.cursor
          BY <3>5, <4>1 DEF PollStatus, NoPump, Served
      <4>2. CASE pump'.pc \in {"poll", "ask"} /\ pump'.cursor = pump.cursor
          BY <3>5, <4>2 DEF PollStatus, Served
      <4> QED BY <1>0, <3>5, <4>1, <4>2 DEF PollStatus, Finish, Returned, Pumping
    <3> QED BY <1>3, <3>1, <3>2, <3>3, <3>4, <3>5
  <2>3. surface = "poll" => pump'.pc = "idle"
      BY <1>3 DEF SendPrompt, HandlePrompt, Route, PumpCancelled, PollStatus, Finish, Returned,
         NoPump, CursorsAgree
  <2> QED BY <2>1, <2>2, <2>3 DEF CursorsAgree
<1>4. CASE GetEvents
  <2>1. pump.pc = "idle" /\ Served = cursor
      BY <1>4 DEF GetEvents, CursorsAgree, Served
  <2>2. cursor' = Len(buf) /\ UNCHANGED <<surface, buf, connected, pump>>
      BY <1>4 DEF GetEvents, client, events, drainer
  <2>3. CASE connected
    <3>1. delivered' = delivered \o NewEvents(Len(delivered))
        BY <1>4, <2>1, <2>3 DEF GetEvents, CursorsAgree
    <3>2. /\ delivered' \in Seq(Nat) /\ Len(delivered') = Len(buf)
          /\ \A i \in 1 .. Len(delivered') : delivered'[i] = buf[i]
        BY <1>0, <3>1, NewEventsContinue DEF CursorsAgree
    <3> QED BY <1>0, <2>1, <2>2, <3>2 DEF CursorsAgree, Served
  <2>4. connected
      BY <1>4 DEF GetEvents, CursorsAgree
  <2> QED BY <2>3, <2>4
<1>5. CASE Poll
  <2>1. /\ pump.pc = "poll" /\ Served = pump.cursor
        /\ pump'.pc = "status" /\ pump'.cursor = Len(buf)
        /\ UNCHANGED <<surface, buf, connected, cursor>>
      BY <1>0, <1>5 DEF Poll, Served, client, events, drainer, Pumping
  <2>2. Served' = Len(buf) /\ surface # "poll"
      BY <2>1 DEF Served, CursorsAgree
  <2>3. CASE connected
    <3>1. delivered' = delivered \o NewEvents(Len(delivered))
        BY <1>5, <2>1, <2>3 DEF Poll, CursorsAgree
    <3>2. /\ delivered' \in Seq(Nat) /\ Len(delivered') = Len(buf)
          /\ \A i \in 1 .. Len(delivered') : delivered'[i] = buf[i]
        BY <1>0, <3>1, NewEventsContinue DEF CursorsAgree
    <3>3. Len(delivered') <= Len(buf') /\ Served' <= Len(buf')
        BY <1>0, <2>1, <2>2, <3>2
    <3>4. connected' => Len(delivered') = Served'
        BY <2>2, <3>2
    <3> QED BY <2>1, <2>2, <3>2, <3>3, <3>4 DEF CursorsAgree
  <2>4. CASE ~connected
    <3>1. delivered' = delivered
        BY <1>5, <2>4 DEF Poll
    <3> QED BY <1>0, <2>1, <2>2, <2>4, <3>1 DEF CursorsAgree
  <2> QED BY <2>3, <2>4
<1> QED BY <1>1, <1>2, <1>3, <1>4, <1>5 DEF Next, PumpStep

LEMMA InitCursors == Init => CursorsAgree /\ BufferHonest
BY DriveAssumption DEF Init, CursorsAgree, BufferHonest, InOrder, Served, NoPump

\* The client receives the events in order and each once, and misses one only when
\* the channel had overwritten it, across polls, prompts, cancelled and refused ones.
THEOREM EventsDeliveredOnce == Spec => []UpdatesOnce
<1>1. TypeOK /\ CursorsAgree /\ BufferHonest => UpdatesOnce
  <2> SUFFICES ASSUME TypeOK, CursorsAgree, BufferHonest PROVE InOrder(delivered)
      BY DEF UpdatesOnce
  <2>1. /\ Len(delivered) \in Nat /\ Len(buf) \in Nat /\ Len(delivered) <= Len(buf)
        /\ \A i \in 1 .. Len(delivered) : delivered[i] = buf[i]
      BY DEF TypeOK, RunOK, CursorsAgree
  <2>2. \A i \in 1 .. Len(delivered) : i \in 1 .. Len(buf)
      BY <2>1
  <2>3. \A i \in 1 .. Len(delivered) : \A j \in 1 .. i - 1 : j \in 1 .. Len(delivered)
      BY <2>1
  <2> QED BY <2>1, <2>2, <2>3 DEF BufferHonest, InOrder
<1> QED BY <1>1, InitCursors, StepCursors, StepBuffer, DriveTypeCorrect, PTL DEF Spec

----------------------------------------------------------------------------
(* A prompt returns when its turn is over.                                 *)

\* Where the prompt is that the handler waits for, and how the run's status and
\* the end of its events follow its control.
PromptOnItsWay ==
    /\ run.pc = "none" => inputs = <<>>
    /\ run.status = "AwaitingInput" => run.pc \in {"await", "ending"}
    /\ run.status \in Terminal => run.pc = "ended"
    /\ ~draining => rx = published /\ run.pc = "ended"
    /\ surface = "poll" => pump.pc = "idle"
    /\ pump.pc # "idle" => prompts # 0
    /\ pump.pc \in {"poll", "status", "ask"} /\ run.pc # "ended" =>
          /\ run.pc # "none"
          /\ IF inputs = <<>> THEN run.prompt = prompts ELSE inputs[Len(inputs)] = prompts

LEMMA InitOnItsWay == Init => PromptOnItsWay
BY DEF Init, PromptOnItsWay, NoPump, Terminal

\* Steps of the run that neither take an input nor end the run.
LEMMA StepOnItsWayRun ==
    ASSUME TypeOK, PromptOnItsWay, RunStep PROVE PromptOnItsWay'
<1>0. /\ run \in Run /\ inputs \in Seq(Nat) /\ prompts \in Nat
    BY DEF TypeOK, RunOK
<1>1. UNCHANGED <<prompts, surface, pump, rx, draining>>
    BY DEF RunStep, Emit, Ask, Answered, AskTimesOut, EndTurn, TakeInput, RunEnd, Done,
       RunFails, client, events, drainer
<1>2. CASE Emit \/ Ask \/ Answered \/ AskTimesOut \/ EndTurn \/ RunEnd
  <2>1. /\ run.pc \in {"turn", "asking", "await"} /\ UNCHANGED inputs
        /\ run'.prompt = run.prompt
        /\ run'.pc \in {"turn", "asking", "await", "ending"}
      BY <1>0, <1>2 DEF Emit, Ask, Answered, AskTimesOut, EndTurn, RunEnd, Run
  <2>2. /\ run'.status = "AwaitingInput" => run'.pc \in {"await", "ending"}
        /\ run'.status \notin Terminal
      BY <1>0, <1>2 DEF Emit, Ask, Answered, AskTimesOut, EndTurn, RunEnd, Run, Terminal,
         PromptOnItsWay
  <2> QED BY <1>1, <2>1, <2>2 DEF PromptOnItsWay
<1>3. CASE TakeInput
  <2>1. /\ run.pc = "await" /\ inputs # <<>> /\ inputs' = Tail(inputs)
        /\ draining
        /\ \/ /\ run'.pc = "turn" /\ run'.status = "Running"
              /\ run'.prompt = Head(inputs)
           \/ /\ Head(inputs) = 0 /\ run'.pc = "ending" /\ run'.status = run.status
              /\ run'.prompt = run.prompt
      BY <1>0, <1>3 DEF TakeInput, Run, PromptOnItsWay
  <2>2. /\ Tail(inputs) = <<>> => inputs[Len(inputs)] = Head(inputs)
        /\ Tail(inputs) # <<>> => Tail(inputs)[Len(Tail(inputs))] = inputs[Len(inputs)]
    <3>1. /\ Len(inputs) \in Nat \ {0} /\ Head(inputs) = inputs[1]
          /\ Tail(inputs) \in Seq(Nat) /\ Len(Tail(inputs)) = Len(inputs) - 1
          /\ \A i \in 1 .. Len(inputs) - 1 : Tail(inputs)[i] = inputs[i + 1]
        BY <1>0, <2>1, HeadTailProperties, LenProperties, EmptySeq
    <3>2. CASE Len(inputs) = 1
      <4>1. Len(Tail(inputs)) = 0
          BY <3>1, <3>2
      <4>2. Tail(inputs) = <<>>
          BY <3>1, <4>1, EmptySeq
      <4> QED BY <3>1, <3>2, <4>2
    <3>3. CASE Len(inputs) # 1
      <4>1. Len(inputs) - 1 \in 1 .. Len(inputs) - 1 /\ (Len(inputs) - 1) + 1 = Len(inputs)
          BY <3>1, <3>3
      <4>2. Tail(inputs)[Len(Tail(inputs))] = inputs[Len(inputs)] /\ Tail(inputs) # <<>>
        <5>1. Len(Tail(inputs)) # 0 /\ Len(<<>>) = 0
            BY <3>1, <4>1
        <5>2. Tail(inputs) # <<>>
            BY <5>1
        <5> QED BY <3>1, <4>1, <5>2
      <4> QED BY <4>2
    <3> QED BY <3>2, <3>3
  <2>3. pump.pc \in {"poll", "status", "ask"} =>
            IF inputs' = <<>> THEN run'.prompt = prompts
                              ELSE inputs'[Len(inputs')] = prompts
      BY <2>1, <2>2 DEF PromptOnItsWay
  <2>4. run.status \notin Terminal
      BY <2>1 DEF PromptOnItsWay
  <2> QED BY <1>1, <2>1, <2>3, <2>4 DEF PromptOnItsWay, Terminal
<1>4. CASE Done \/ RunFails
  <2>1. run'.pc = "ended" /\ run'.status \in Terminal /\ published' = published
      BY <1>0, <1>4 DEF Done, RunFails, Run, Terminal, events, drainer
  <2> QED BY <1>1, <2>1 DEF PromptOnItsWay, Terminal
<1> QED BY <1>2, <1>3, <1>4 DEF RunStep

LEMMA StepOnItsWay == TypeOK /\ PromptOnItsWay /\ [Next]_vars => PromptOnItsWay'
<1> SUFFICES ASSUME TypeOK, PromptOnItsWay, [Next]_vars PROVE PromptOnItsWay'
    OBVIOUS
<1>0. /\ run \in Run /\ inputs \in Seq(Nat) /\ prompts \in Nat /\ pump \in Pumping
    BY DEF TypeOK, RunOK, AskOK
<1>1. CASE RunStep
    BY <1>1, StepOnItsWayRun
<1>2. CASE Drainer
  <2>1. /\ UNCHANGED <<run, inputs, surface, pump, prompts, published>> /\ draining
        /\ ~draining' => rx' = published /\ run.status \in Terminal
      BY <1>2 DEF Drainer, Drain, Lag, DrainEnds, client
  <2> QED BY <2>1 DEF PromptOnItsWay
<1>3. CASE \/ HandleCancel \/ SendCancel \/ Disconnect \/ Release \/ GetEvents
           \/ UNCHANGED vars
           \/ \E v \in {"allow", "deny"}, q \in Questions : PostPermit(q, v)
  <2>1. UNCHANGED <<run, inputs, surface, pump, prompts, published, rx, draining>>
      BY <1>3 DEF HandleCancel, SendCancel, Disconnect, Release, GetEvents, vars, PostPermit,
         client, events, drainer
  <2> QED BY <2>1 DEF PromptOnItsWay
<1>4. ASSUME CreateRun \/ \E end \in BOOLEAN : PostInput(end) PROVE PromptOnItsWay'
  <2>1. /\ surface = "poll" /\ pump.pc = "idle"
        /\ UNCHANGED <<surface, pump, published, rx, draining>>
      BY <1>4 DEF CreateRun, PostInput, PromptOnItsWay, events, drainer
  <2>2. CASE CreateRun
    <3>1. run.pc = "none" /\ run'.pc = "turn" /\ run'.status = "Running"
        BY <2>2 DEF CreateRun, Spawn
    <3> QED BY <2>1, <3>1 DEF PromptOnItsWay, Terminal
  <2>3. CASE \E end \in BOOLEAN : PostInput(end)
    <3>1. run.pc # "none" /\ UNCHANGED run
        BY <2>3 DEF PostInput
    <3> QED BY <2>1, <3>1 DEF PromptOnItsWay
  <2> QED BY <1>4, <2>2, <2>3
<1>5. CASE SendPrompt
  <2>1. /\ UNCHANGED <<run, inputs, surface, published, rx, draining>>
        /\ surface = "acp" /\ prompts' = prompts + 1 /\ pump'.pc = "frame"
      BY <1>5 DEF SendPrompt, NoPump, events, drainer
  <2>2. prompts' # 0
      BY <1>0, <2>1
  <2> QED BY <2>1, <2>2 DEF PromptOnItsWay
<1>6. CASE HandlePrompt \/ PumpCancelled
  <2>1. /\ UNCHANGED <<run, inputs, surface, prompts, published, rx, draining>>
        /\ pump.pc # "idle" /\ pump'.pc \in {"route", "idle"}
    <3>1. CASE HandlePrompt
        BY <1>0, <3>1 DEF HandlePrompt, Pumping, client, events, drainer
    <3>2. CASE PumpCancelled
        BY <3>2 DEF PumpCancelled, Finish, Returned, NoPump, client, events, drainer
    <3> QED BY <1>6, <3>1, <3>2
  <2> QED BY <2>1 DEF PromptOnItsWay
<1>7. CASE Route
  <2>1. /\ UNCHANGED <<surface, prompts, published, rx, draining>>
        /\ pump.pc = "route"
      BY <1>7 DEF Route, client, events, drainer
  <2>2. CASE pump' = NoPump /\ UNCHANGED <<run, inputs>>
      BY <2>1, <2>2 DEF PromptOnItsWay, NoPump
  <2>3. CASE run.pc = "none" /\ Spawn(prompts) /\ inputs' = inputs /\ pump'.pc = "poll"
      BY <2>1, <2>3 DEF PromptOnItsWay, Spawn, Terminal
  <2>4. CASE /\ run.pc \notin {"none", "ended"} /\ inputs' = Append(inputs, prompts)
             /\ run' = run /\ pump'.pc = "poll"
    <3>1. inputs' # <<>> /\ inputs'[Len(inputs')] = prompts
        BY <1>0, <2>4
    <3> QED BY <2>1, <2>4, <3>1 DEF PromptOnItsWay
  <2> QED BY <1>0, <1>7, <2>2, <2>3, <2>4 DEF Route, Returned, Pumping
<1>8. CASE Poll \/ PollStatus \/ Forward \/ \E v \in {"allow", "deny"} : ClientAnswers(v)
  <2>1. /\ UNCHANGED <<run, inputs, surface, prompts, published, rx, draining>>
        /\ pump.pc \in {"poll", "status", "ask"}
      BY <1>8 DEF Poll, PollStatus, Forward, ClientAnswers, client, events, drainer
  <2>2. pump'.pc \in {"poll", "status", "ask", "idle"}
    <3>1. CASE Poll \/ PollStatus
      <4>1. CASE pump' = NoPump
          BY <4>1 DEF NoPump
      <4>2. CASE pump'.pc \in {"poll", "status", "ask"}
          BY <4>2
      <4> QED BY <1>0, <3>1, <4>1, <4>2 DEF Poll, PollStatus, Finish, Returned, Pumping
    <3>2. CASE Forward \/ \E v \in {"allow", "deny"} : ClientAnswers(v)
        BY <1>0, <3>2 DEF Forward, ClientAnswers, Pumping
    <3> QED BY <1>8, <3>1, <3>2
  <2> QED BY <2>1, <2>2 DEF PromptOnItsWay
<1> QED BY <1>1, <1>2, <1>3, <1>4, <1>5, <1>6, <1>7, <1>8 DEF Next, PumpStep

\* The run is parked with nothing to take up, or ended, and its events are with the
\* pump: nothing can move before the next prompt.
AtRest ==
    /\ run.pc = "ended" \/ (run.pc = "await" /\ inputs = <<>> /\ ~cancelled)
    /\ draining => rx = published
    /\ pump.cursor = Len(buf)

\* Of the polls the pump has counted, either every one found a task behind, or one
\* found the run at rest, and then it still is.
SettlesHonestly ==
    pump.behind # pump.settle => pump.pc \in {"poll", "status"} /\ AtRest

LEMMA StepSettles ==
    TypeOK /\ PromptOnItsWay /\ SettlesHonestly /\ [Next]_vars => SettlesHonestly'
<1> SUFFICES ASSUME TypeOK, PromptOnItsWay, SettlesHonestly, [Next]_vars
             PROVE  SettlesHonestly'
    OBVIOUS
<1>0. /\ run \in Run /\ pump \in Pumping /\ rx \in Nat /\ published \in Nat
      /\ HubCap \in Nat \ {0} /\ draining \in BOOLEAN /\ buf \in Seq(Nat)
    BY DriveAssumption DEF TypeOK, RunOK, AskOK, ClientOK
<1>1. CASE RunStep \/ Drainer
  <2>1. pump' = pump
      BY <1>1 DEF RunStep, Drainer, Drain, Lag, DrainEnds, Emit, Ask, Answered, AskTimesOut,
         EndTurn, TakeInput, RunEnd, Done, RunFails
  <2>2. ASSUME AtRest PROVE AtRest'
    <3>1. ~RunStep
        BY <2>2 DEF AtRest, RunStep, Emit, Ask, Answered, AskTimesOut, EndTurn, TakeInput,
           RunEnd, Done, RunFails
    <3>2. ~Drain /\ ~Lag
        BY <1>0, <2>2 DEF AtRest, Drain, Lag
    <3>3. DrainEnds
        BY <1>1, <3>1, <3>2 DEF Drainer
    <3> QED BY <2>1, <2>2, <3>3 DEF AtRest, DrainEnds
  <2> QED BY <2>1, <2>2 DEF SettlesHonestly
<1>2. CASE HandleCancel \/ SendCancel \/ Disconnect \/ UNCHANGED vars
  <2>1. UNCHANGED <<run, inputs, cancelled, events, pump>>
      BY <1>2 DEF HandleCancel, SendCancel, Disconnect, vars
  <2> QED BY <2>1 DEF SettlesHonestly, AtRest, events, drainer
<1>3. CASE \/ Release \/ CreateRun \/ GetEvents \/ (\E end \in BOOLEAN : PostInput(end))
           \/ \E v \in {"allow", "deny"}, q \in Questions : PostPermit(q, v)
  <2>1. pump' = pump /\ pump.pc = "idle"
      BY <1>3 DEF Release, CreateRun, GetEvents, PostInput, PostPermit, PromptOnItsWay
  <2> QED BY <2>1 DEF SettlesHonestly
<1>4. CASE \/ SendPrompt \/ HandlePrompt \/ Route \/ PumpCancelled \/ Forward
           \/ \E v \in {"allow", "deny"} : ClientAnswers(v)
  <2>1. CASE pump' = NoPump \/ SendPrompt
      BY <2>1 DEF SendPrompt, NoPump, SettlesHonestly
  <2>2. CASE /\ pump.pc \notin {"poll", "status"}
             /\ pump'.behind = pump.behind /\ pump'.settle = pump.settle
      BY <2>2 DEF SettlesHonestly
  <2>3. CASE HandlePrompt \/ Route \/ Forward \/ \E v \in {"allow", "deny"} : ClientAnswers(v)
    <3>1. pump' = NoPump \/ /\ pump.pc \notin {"poll", "status"}
                            /\ pump'.behind = pump.behind /\ pump'.settle = pump.settle
        BY <1>0, <2>3 DEF HandlePrompt, Route, Returned, Forward, ClientAnswers, Pumping
    <3> QED BY <2>1, <2>2, <3>1
  <2>4. CASE PumpCancelled
      BY <2>1, <2>4 DEF PumpCancelled, Finish, Returned
  <2> QED BY <1>4, <2>1, <2>3, <2>4
<1>5. CASE Poll
  <2>1. /\ pump.pc = "poll" /\ pump'.pc = "status" /\ pump'.cursor = Len(buf)
        /\ pump'.behind = pump.behind /\ pump'.settle = pump.settle
        /\ UNCHANGED <<run, inputs, cancelled, events>>
      BY <1>0, <1>5 DEF Poll, Pumping
  <2> QED BY <2>1 DEF SettlesHonestly, AtRest, events, drainer
<1>6. CASE PollStatus
  <2>1. pump.pc = "status" /\ UNCHANGED <<run, inputs, cancelled, events>>
      BY <1>6 DEF PollStatus
  <2>2. CASE pump' = NoPump
      BY <2>2 DEF NoPump, SettlesHonestly
  <2>3. CASE pump' = [pump EXCEPT !.pc = "ask", !.q = Front, !.settle = 0, !.behind = 0]
    <3>1. pump'.behind = 0 /\ pump'.settle = 0
        BY <1>0, <2>3 DEF Pumping
    <3> QED BY <3>1 DEF SettlesHonestly
  <2>4. ASSUME NEW still \in BOOLEAN,
               still => run.status \in {"AwaitingInput"} \cup Terminal,
               pump' = [pump EXCEPT !.pc = "poll", !.settle = Settled(still),
                           !.behind = IF still /\ ~Quiet THEN pump.behind + 1 ELSE 0]
        PROVE  SettlesHonestly'
    <3>1. /\ pump'.pc = "poll" /\ pump'.settle = Settled(still) /\ pump'.cursor = pump.cursor
          /\ pump'.behind = IF still /\ ~Quiet THEN pump.behind + 1 ELSE 0
        BY <1>0, <2>4 DEF Pumping
    <3>2. CASE ~still
        BY <3>1, <3>2 DEF Settled, SettlesHonestly
    <3>3. CASE still /\ ~Quiet
      <4>1. ~AtRest
          BY <3>3 DEF AtRest, Quiet
      <4>2. pump.behind = pump.settle
          BY <4>1 DEF SettlesHonestly
      <4> QED BY <3>1, <3>3, <4>2 DEF Settled, SettlesHonestly
    <3>4. CASE still /\ Quiet
      <4>1. run.pc \in {"await", "ending", "ended"}
          BY <2>4, <3>4 DEF PromptOnItsWay
      <4>2. AtRest
          BY <3>4, <4>1 DEF AtRest, Quiet
      <4>3. AtRest'
          BY <2>1, <3>1, <4>2 DEF AtRest, events, drainer
      <4> QED BY <3>1, <4>3 DEF SettlesHonestly
    <3> QED BY <3>2, <3>3, <3>4
  <2>5. \/ pump' = NoPump
        \/ pump' = [pump EXCEPT !.pc = "ask", !.q = Front, !.settle = 0, !.behind = 0]
        \/ \E still \in BOOLEAN :
              /\ still => run.status \in {"AwaitingInput"} \cup Terminal
              /\ pump' = [pump EXCEPT !.pc = "poll", !.settle = Settled(still),
                             !.behind = IF still /\ ~Quiet THEN pump.behind + 1 ELSE 0]
    <3> DEFINE still == pump.empty /\ run.status \in {"AwaitingInput"} \cup Terminal
    <3>1. still \in BOOLEAN /\ (still => run.status \in {"AwaitingInput"} \cup Terminal)
        OBVIOUS
    <3>2. \/ pump' = NoPump
          \/ pump' = [pump EXCEPT !.pc = "ask", !.q = Front, !.settle = 0, !.behind = 0]
          \/ pump' = [pump EXCEPT !.pc = "poll", !.settle = Settled(still),
                         !.behind = IF still /\ ~Quiet THEN pump.behind + 1 ELSE 0]
        BY <1>6 DEF PollStatus, Finish, Returned
    <3> HIDE DEF still
    <3> QED BY <3>1, <3>2
  <2> QED BY <2>2, <2>3, <2>4, <2>5
<1> QED BY <1>1, <1>2, <1>3, <1>4, <1>5, <1>6 DEF Next, PumpStep

\* A reply of end_turn comes from the poll that completes the count.
LEMMA EndTurnStep ==
    ASSUME TypeOK, [Next]_vars, reply' = "end_turn", reply # "end_turn"
    PROVE  /\ PollStatus /\ pump.settle + 1 >= Settle
           /\ run.status \in {"AwaitingInput", "Done"}
<1>1. PollStatus /\ pump' = NoPump
  <2>1. CASE PumpStep
      BY <2>1 DEF PumpStep, HandlePrompt, Route, PumpCancelled, Poll, PollStatus, Forward,
         Finish, Returned
  <2>2. CASE \/ RunStep \/ Drainer \/ HandleCancel \/ Release \/ SendPrompt \/ SendCancel
             \/ Disconnect \/ CreateRun \/ GetEvents \/ UNCHANGED vars
      BY <2>2 DEF RunStep, Drainer, Drain, Lag, DrainEnds, vars, Emit, Ask, Answered,
         AskTimesOut, EndTurn, TakeInput, RunEnd, Done, RunFails, HandleCancel, Release,
         SendPrompt, SendCancel, Disconnect, CreateRun, GetEvents
  <2> QED BY <2>1, <2>2 DEF Next, PostInput, ClientAnswers, PostPermit
<1>2. pump.settle + 1 >= Settle /\ run.status \in {"AwaitingInput", "Done"}
    BY <1>1 DEF PollStatus, Settled, Finish, Returned, Terminal
<1> QED BY <1>1, <1>2

\* However the tasks are scheduled, a prompt that returns end_turn has been taken up
\* and run to a boundary, or the run is done, and a connected client holds every
\* event that was not overwritten; or else each of SETTLE polls in a row found a task
\* that was ready and had not run.
THEOREM RepliesAfterTurn == Spec => ReplyAfterTurn
<1>1. /\ TypeOK /\ CursorsAgree /\ BufferHonest /\ PromptOnItsWay /\ SettlesHonestly
      /\ [Next]_vars
      => (reply' = "end_turn" /\ reply # "end_turn" =>
             \/ ~Quiet /\ pump.behind + 1 >= Settle
             \/ /\ \/ run.status = "Done"
                   \/ run.status = "AwaitingInput" /\ run.prompt = prompts
                /\ connected => HasAll(delivered'))
  <2> SUFFICES ASSUME TypeOK, CursorsAgree, BufferHonest, PromptOnItsWay, SettlesHonestly,
                      [Next]_vars, reply' = "end_turn", reply # "end_turn",
                      ~(~Quiet /\ pump.behind + 1 >= Settle)
               PROVE  /\ run.status # "Done" =>
                            run.status = "AwaitingInput" /\ run.prompt = prompts
                      /\ connected => HasAll(delivered')
      OBVIOUS
  <2>1. /\ PollStatus /\ pump.settle + 1 >= Settle
        /\ run.status \in {"AwaitingInput", "Done"}
      BY EndTurnStep
  <2>2. Quiet
    <3> SUFFICES ASSUME ~Quiet PROVE FALSE
        OBVIOUS
    <3>1. ~AtRest
        BY DEF AtRest, Quiet
    <3>2. pump.behind = pump.settle
        BY <3>1 DEF SettlesHonestly
    <3> QED BY <2>1, <3>2
  <2>3. run.status # "Done" => run.status = "AwaitingInput" /\ run.prompt = prompts
      BY <2>1, <2>2 DEF PollStatus, Quiet, PromptOnItsWay
  <2>4. ASSUME connected PROVE HasAll(delivered')
    <3>1. /\ delivered' = delivered /\ Len(delivered) = Len(buf) /\ rx = published
          /\ \A i \in 1 .. Len(buf) : delivered[i] = buf[i]
      <4>1. delivered' = delivered /\ Served = pump.cursor
          BY <2>1 DEF PollStatus, Served
      <4>2. Len(delivered) = Len(buf)
          BY <2>2, <2>4, <4>1 DEF CursorsAgree, Quiet
      <4>3. rx = published
        <5>1. draining \in BOOLEAN
            BY DEF TypeOK, ClientOK
        <5> QED BY <2>2, <5>1 DEF Quiet, PromptOnItsWay
      <4> QED BY <4>1, <4>2, <4>3 DEF CursorsAgree
    <3> QED BY <3>1 DEF HasAll, BufferHonest
  <2> QED BY <2>3, <2>4
<1>2. Init => SettlesHonestly
    BY DEF Init, SettlesHonestly, NoPump
<1>3. Spec => [](/\ TypeOK /\ CursorsAgree /\ BufferHonest /\ PromptOnItsWay
                 /\ SettlesHonestly)
    BY <1>2, InitCursors, StepCursors, StepBuffer, InitOnItsWay, StepOnItsWay, StepSettles,
       DriveTypeCorrect, PTL DEF Spec
<1> QED BY <1>1, <1>3, PTL DEF Spec, ReplyAfterTurn
=============================================================================
