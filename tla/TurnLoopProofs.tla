--------------------------- MODULE TurnLoopProofs ---------------------------
(***************************************************************************)
(* The turn loop for any limits, configurations and responses: its types,  *)
(* that a turn counts once and is redone a bounded number of times, what   *)
(* of it a consumer is shown, that a Stop decision ends the run, and that  *)
(* the history a request is built from is one a provider accepts.          *)
(***************************************************************************)
EXTENDS TurnLoop, SequenceTheorems, FiniteSetTheorems, WellFoundedInduction, TLAPS

Pcs == {"start", "top", "request", "drain", "plan", "dispatch", "invoke", "hook", "settle",
        "decide", "end", "done"}

Recoveries == [stageA : BOOLEAN, escalated : BOOLEAN, meta : 0 .. MaxMeta, reactive : BOOLEAN,
               forced : 0 .. MaxForced, compactFails : 0 .. MaxCompactFails]

Nudges == [sinceEdit : Nat, armed : BOOLEAN, empty : 0 .. EmptyNudgeMax]

Verdicts == {"Edit", "Other", "Denied"}
Outcomes == {"none", "ok", "err"}

Passes ==
    [attempt : 0 .. MaxAttempts, emitted : BOOLEAN, response : Response, plans : Seq(Verdicts),
     next : 1 .. MaxCalls + 1, pending : SUBSET (1 .. MaxCalls), results : Seq(Outcomes),
     fatal : BOOLEAN, edited : BOOLEAN, decision : {"Continue", "ContinueWith", "Stop"}]

\* The calls planned are the calls of the response, so far or all of them, and
\* every call has a place for its result.
Fits(label, p) ==
    /\ label = "plan" => Len(p.plans) = p.next - 1 /\ p.next <= p.response.calls + 1
    /\ label = "dispatch" => Len(p.plans) = p.response.calls
    /\ label \in {"plan", "dispatch", "invoke"} => Len(p.results) = p.response.calls
    /\ label = "plan" => p.pending = {}
    /\ label \in {"dispatch", "invoke"} => p.pending \subseteq 1 .. p.response.calls

\* Where the loop is, what it counts of the turn, and the locals of the pass.
PlaceOK ==
    /\ pc \in Pcs /\ turn \in Nat /\ stopped \in StopConditions
    /\ drainRetries \in 0 .. MaxAttempts - 1 /\ rounds \in Nat /\ emissions \in Nat
LocalsOK == pass \in Passes /\ Fits(pc, pass)
FlagsOK  == config \in Configs /\ cancelled \in BOOLEAN

TypeInv ==
    /\ PlaceOK /\ LocalsOK /\ FlagsOK
    /\ completed \in Nat /\ recovery \in Recoveries /\ nudges \in Nudges

----------------------------------------------------------------------------
(* Types.                                                                  *)

LEMMA NoResponse == NoPass.response \in Response
<1>1. 0 \in 0 .. MaxCalls
    BY LimitsAssumption
<1> QED BY <1>1 DEF NoPass, Response

LEMMA NoPassType == NoPass \in Passes
<1>1. /\ 0 \in 0 .. MaxAttempts /\ 1 \in 1 .. MaxCalls + 1 /\ {} \in SUBSET (1 .. MaxCalls)
      /\ <<>> \in Seq(Verdicts) /\ <<>> \in Seq(Outcomes)
    BY LimitsAssumption, EmptySeq
<1>2. NoPass.response \in Response
    BY NoResponse
<1> QED BY <1>1, <1>2 DEF NoPass, Passes

LEMMA InitTypeInv == Init => TypeInv
<1> SUFFICES ASSUME Init PROVE TypeInv
    OBVIOUS
<1> USE LimitsAssumption
<1>1. PlaceOK /\ completed \in Nat
    BY DEF Init, PlaceOK, Pcs, StopConditions
<1>2. FlagsOK
    BY DEF Init, FlagsOK
<1>3. recovery \in Recoveries
  <2>1. 0 \in 0 .. MaxMeta /\ 0 \in 0 .. MaxForced /\ 0 \in 0 .. MaxCompactFails
      OBVIOUS
  <2> QED BY <2>1 DEF Init, NoRecovery, Recoveries
<1>4. nudges \in Nudges
  <2>1. 0 \in 0 .. EmptyNudgeMax
      OBVIOUS
  <2> QED BY <2>1 DEF Init, NoNudges, Nudges
<1>5. LocalsOK
    BY NoPassType DEF Init, LocalsOK, Fits
<1> QED BY <1>1, <1>2, <1>3, <1>4, <1>5 DEF TypeInv

\* The configuration of a run is fixed, and a cancelled token stays cancelled.
LEMMA StepFlags == TypeInv /\ [Next]_vars => FlagsOK'
<1> SUFFICES ASSUME TypeInv, [Next]_vars PROVE FlagsOK'
    OBVIOUS
<1>1. config' = config
    BY DEF Next, Loop, BeforeRequest, Request, Drain, Tools, Settle, Decide, BeforeRun, TopStops,
           TopProceeds, RequestCancelled, RequestOpens, ContextTooLong, DrainContent,
           DrainInterrupted, DrainStops, DrainCompletes, PlanCancelled, PlanCall, PlanDone,
           EnqueueCall, EnqueueDone, InvokeReturns, Finalize, AfterTurn, SettleNudges, SettleStops,
           SettleForces, SettleProceeds, DecideToolUse, DecideMeta, DecideSurrenders,
           OperatorAnswers, InputCancelled, AfterRun, Cancel, InjectAndAdvance, runVars, vars
<1>2. cancelled' = cancelled \/ cancelled' = TRUE
    BY DEF Next, Loop, BeforeRequest, Request, Drain, Tools, Settle, Decide, BeforeRun, TopStops,
           TopProceeds, RequestCancelled, RequestOpens, ContextTooLong, DrainContent,
           DrainInterrupted, DrainStops, DrainCompletes, PlanCancelled, PlanCall, PlanDone,
           EnqueueCall, EnqueueDone, InvokeReturns, Finalize, AfterTurn, SettleNudges, SettleStops,
           SettleForces, SettleProceeds, DecideToolUse, DecideMeta, DecideSurrenders,
           OperatorAnswers, InputCancelled, AfterRun, Cancel, InjectAndAdvance, runVars, vars
<1> QED BY <1>1, <1>2 DEF TypeInv, FlagsOK

\* The four control transfers lead to a known place with typed locals.
LEMMA BreakTyped ==
    ASSUME TypeInv, NEW stop \in StopConditions, BreakOuter(stop)
    PROVE  PlaceOK' /\ LocalsOK'
<1>1. PlaceOK'
    BY DEF TypeInv, PlaceOK, BreakOuter, Pcs
<1>2. LocalsOK'
    BY NoPassType DEF BreakOuter, LocalsOK, Fits
<1> QED BY <1>1, <1>2

LEMMA NextTurnTyped == ASSUME TypeInv, NextTurn PROVE PlaceOK' /\ LocalsOK'
<1>1. PlaceOK'
  <2>1. 0 \in 0 .. MaxAttempts - 1 /\ pc' \in Pcs
      BY LimitsAssumption DEF NextTurn, Pcs
  <2> QED BY <2>1 DEF TypeInv, PlaceOK, NextTurn
<1>2. LocalsOK'
    BY NoPassType DEF NextTurn, LocalsOK, Fits
<1> QED BY <1>1, <1>2

LEMMA RedoTyped ==
    ASSUME TypeInv, RedoTurn, drainRetries' \in 0 .. MaxAttempts - 1
    PROVE  PlaceOK' /\ LocalsOK'
<1>1. PlaceOK'
    BY DEF TypeInv, PlaceOK, RedoTurn, Pcs
<1>2. LocalsOK'
    BY NoPassType DEF RedoTurn, LocalsOK, Fits
<1> QED BY <1>1, <1>2

LEMMA ProceedTyped ==
    ASSUME TypeInv, NEW label \in Pcs, NEW p \in Passes, Fits(label, p), Proceed(label, p)
    PROVE  PlaceOK' /\ LocalsOK'
<1>1. PlaceOK'
    BY DEF TypeInv, PlaceOK, Proceed
<1>2. LocalsOK'
    BY DEF Proceed, LocalsOK
<1> QED BY <1>1, <1>2

\* The locals while tools are planned, queued and run.
LEMMA ToolsTyped == TypeInv /\ Tools => PlaceOK' /\ LocalsOK'
<1> SUFFICES ASSUME TypeInv, Tools PROVE PlaceOK' /\ LocalsOK'
    OBVIOUS
<1> USE LimitsAssumption
<1> DEFINE p == pass
<1>p. /\ p \in Passes /\ Fits(pc, p)
    BY DEF TypeInv, LocalsOK
<1>q. /\ p.plans \in Seq(Verdicts) /\ p.next \in 1 .. MaxCalls + 1 /\ p.response.calls \in 0 .. MaxCalls
      /\ p.pending \in SUBSET (1 .. MaxCalls) /\ p.results \in Seq(Outcomes)
      /\ p.response \in Response
  <2>1. p.response \in Response
      BY <1>p DEF Passes
  <2> QED BY <1>p, <2>1 DEF Passes, Response
<1>l. /\ {"plan", "dispatch", "invoke", "hook", "request", "drain", "settle", "decide"} \subseteq Pcs
      /\ {"Cancelled", "HookDenied"} \subseteq StopConditions
    BY DEF Pcs, StopConditions
<1> HIDE DEF p
<1>1. CASE PlanCancelled
    BY <1>1, <1>l, BreakTyped DEF PlanCancelled
<1>2. CASE PlanCall
  <2>1. CASE BreakOuter("HookDenied")
      BY <2>1, <1>l, BreakTyped
  <2>2. ASSUME NEW v \in Verdicts,
               Proceed("plan", [pass EXCEPT !.plans = Append(@, v), !.next = @ + 1])
        PROVE  PlaceOK' /\ LocalsOK'
    <3> DEFINE q == [p EXCEPT !.plans = Append(p.plans, v), !.next = p.next + 1]
    <3>0. pc = "plan" /\ p.next <= p.response.calls
        BY <1>2 DEF PlanCall, p, response
    <3>1. /\ Append(p.plans, v) \in Seq(Verdicts)
          /\ Len(Append(p.plans, v)) = Len(p.plans) + 1
        BY <1>q, AppendProperties
    <3>2. p.next + 1 \in 1 .. MaxCalls + 1
        BY <1>q, <3>0
    <3>3. q \in Passes
        BY <1>p, <3>1, <3>2 DEF Passes
    <3>4. /\ q.plans = Append(p.plans, v) /\ q.next = p.next + 1 /\ q.response = p.response
          /\ q.results = p.results /\ q.pending = p.pending
        BY <1>p DEF Passes
    <3>5. Fits("plan", q)
      <4>1. /\ Len(p.plans) = p.next - 1
            /\ Len(p.results) = p.response.calls /\ p.pending = {}
          BY <1>p, <3>0 DEF Fits
      <4> HIDE DEF q
      <4>2. Len(q.plans) = q.next - 1
          BY <1>q, <3>1, <3>4, <4>1
      <4>3. q.next <= q.response.calls + 1
          BY <1>q, <3>0, <3>4
      <4> QED BY <3>4, <4>1, <4>2, <4>3 DEF Fits
    <3>6. Proceed("plan", q)
        BY <2>2 DEF p
    <3> QED BY <3>3, <3>5, <3>6, <1>l, ProceedTyped
  <2> QED BY <1>2, <2>1, <2>2 DEF PlanCall, Verdicts
<1>3. CASE PlanDone
  <2> DEFINE q == [p EXCEPT !.next = 1]
  <2>1. pc = "plan" /\ p.next > p.response.calls
      BY <1>3 DEF PlanDone, p, response
  <2>2. 1 \in 1 .. MaxCalls + 1
      OBVIOUS
  <2>3. q \in Passes
      BY <1>p, <2>2 DEF Passes
  <2>4. /\ q.plans = p.plans /\ q.response = p.response /\ q.results = p.results
        /\ q.pending = p.pending /\ q.next = 1
      BY <1>p DEF Passes
  <2>5. Fits("dispatch", q)
    <3> HIDE DEF q
    <3> QED BY <1>p, <1>q, <2>1, <2>4 DEF Fits
  <2>6. Proceed("dispatch", q)
      BY <1>3 DEF PlanDone, p
  <2> QED BY <2>3, <2>5, <2>6, <1>l, ProceedTyped
<1>4. CASE EnqueueCall
  <2>0. pc = "dispatch" /\ p.next \in 1 .. p.response.calls /\ p.next + 1 \in 1 .. MaxCalls + 1
    <3>1. pc = "dispatch" /\ p.next <= Len(p.plans)
        BY <1>4 DEF EnqueueCall, p
    <3>2. Len(p.plans) = p.response.calls
        BY <1>p, <3>1 DEF Fits
    <3> HIDE DEF p
    <3> QED BY <1>q, <3>1, <3>2, LimitsAssumption
  <2>1. CASE Proceed("dispatch", [pass EXCEPT !.results[pass.next] = "err", !.next = @ + 1])
    <3> DEFINE q == [p EXCEPT !.results = [p.results EXCEPT ![p.next] = "err"],
                              !.next = p.next + 1]
    <3>1. /\ [p.results EXCEPT ![p.next] = "err"] \in Seq(Outcomes)
          /\ Len([p.results EXCEPT ![p.next] = "err"]) = Len(p.results)
        BY <1>p, <1>q, <2>0, ExceptSeq DEF Outcomes, Fits
    <3>2. q \in Passes
        BY <1>p, <3>1, <2>0 DEF Passes
    <3>3. /\ q.plans = p.plans /\ q.response = p.response /\ q.pending = p.pending
          /\ q.results = [p.results EXCEPT ![p.next] = "err"]
        BY <1>p DEF Passes
    <3>4. Fits("dispatch", q)
      <4> HIDE DEF q
      <4> QED BY <1>p, <2>0, <3>1, <3>3 DEF Fits
    <3>5. Proceed("dispatch", q)
        BY <2>1 DEF p
    <3> QED BY <3>2, <3>4, <3>5, <1>l, ProceedTyped
  <2>2. CASE Proceed("dispatch", [pass EXCEPT !.pending = @ \cup {pass.next}, !.next = @ + 1])
    <3> DEFINE q == [p EXCEPT !.pending = p.pending \cup {p.next}, !.next = p.next + 1]
    <3>1. p.pending \cup {p.next} \in SUBSET (1 .. MaxCalls)
        BY <1>q, <2>0
    <3>2. q \in Passes
        BY <1>p, <3>1, <2>0 DEF Passes
    <3>3. /\ q.plans = p.plans /\ q.response = p.response /\ q.results = p.results
          /\ q.pending = p.pending \cup {p.next}
        BY <1>p DEF Passes
    <3>4. Fits("dispatch", q)
      <4> HIDE DEF q
      <4> QED BY <1>p, <2>0, <3>3 DEF Fits
    <3>5. Proceed("dispatch", q)
        BY <2>2 DEF p
    <3> QED BY <3>2, <3>4, <3>5, <1>l, ProceedTyped
  <2>3. CASE /\ pc' = "invoke" /\ stopped' = "Cancelled"
             /\ UNCHANGED <<turn, drainRetries, pass, rounds, emissions>>
    <3>1. PlaceOK'
        BY <2>3, <1>l DEF TypeInv, PlaceOK
    <3>2. LocalsOK'
        BY <2>3, <2>0, <1>p DEF LocalsOK, Fits, p
    <3> QED BY <3>1, <3>2
  <2> QED BY <1>4, <2>1, <2>2, <2>3 DEF EnqueueCall
<1>5. CASE EnqueueDone
  <2>1. Fits("invoke", p) /\ Proceed("invoke", p)
      BY <1>5, <1>p DEF EnqueueDone, Fits, p
  <2> QED BY <2>1, <1>p, <1>l, ProceedTyped
<1>6. ASSUME NEW k \in 1 .. MaxCalls, InvokeReturns(k)
      PROVE  PlaceOK' /\ LocalsOK'
  <2>0. pc = "invoke" /\ k \in 1 .. p.response.calls
      BY <1>6, <1>p DEF InvokeReturns, p, Fits
  <2>1. ASSUME NEW outcome \in {"ok", "err"},
               Proceed("invoke", [pass EXCEPT !.pending = @ \ {k}, !.results[k] = outcome])
        PROVE  PlaceOK' /\ LocalsOK'
    <3> DEFINE q == [p EXCEPT !.pending = p.pending \ {k},
                              !.results = [p.results EXCEPT ![k] = outcome]]
    <3>1. /\ [p.results EXCEPT ![k] = outcome] \in Seq(Outcomes)
          /\ Len([p.results EXCEPT ![k] = outcome]) = Len(p.results)
        BY <1>p, <1>q, <2>0, ExceptSeq DEF Outcomes, Fits
    <3>2. q \in Passes
        BY <1>p, <1>q, <3>1, <2>0 DEF Passes
    <3>3. /\ q.plans = p.plans /\ q.response = p.response /\ q.pending = p.pending \ {k}
          /\ q.results = [p.results EXCEPT ![k] = outcome]
        BY <1>p DEF Passes
    <3>4. Fits("invoke", q)
      <4> HIDE DEF q
      <4> QED BY <1>p, <2>0, <3>1, <3>3 DEF Fits
    <3>5. Proceed("invoke", q)
        BY <2>1 DEF p
    <3> QED BY <3>2, <3>4, <3>5, <1>l, ProceedTyped
  <2>2. CASE Proceed("invoke", [pass EXCEPT !.pending = @ \ {k}, !.fatal = TRUE])
    <3> DEFINE q == [p EXCEPT !.pending = p.pending \ {k}, !.fatal = TRUE]
    <3>2. q \in Passes
        BY <1>p, <1>q DEF Passes
    <3>3. /\ q.plans = p.plans /\ q.response = p.response /\ q.pending = p.pending \ {k}
          /\ q.results = p.results
        BY <1>p DEF Passes
    <3>4. Fits("invoke", q)
      <4> HIDE DEF q
      <4> QED BY <1>p, <2>0, <3>3 DEF Fits
    <3>5. Proceed("invoke", q)
        BY <2>2 DEF p
    <3> QED BY <3>2, <3>4, <3>5, <1>l, ProceedTyped
  <2> QED BY <1>6, <2>1, <2>2 DEF InvokeReturns
<1>7. CASE Finalize
  <2>1. CASE pass.fatal
      BY <2>1, <1>7, <1>l, BreakTyped DEF Finalize
  <2>2. CASE ~pass.fatal
    <3> DEFINE edit == HadSuccessfulEdit
               q    == [NoPass EXCEPT !.response = p.response, !.edited = edit]
    <3>1. edit \in BOOLEAN
        BY DEF HadSuccessfulEdit
    <3>2. Proceed("hook", q)
        BY <2>2, <1>7 DEF Finalize, p, response
    <3> HIDE DEF edit
    <3>3. q \in Passes
        BY <1>q, <3>1, NoPassType DEF Passes
    <3>4. Fits("hook", q)
        BY DEF Fits
    <3> QED BY <3>2, <3>3, <3>4, <1>l, ProceedTyped
  <2> QED BY <2>1, <2>2
<1> QED BY <1>1, <1>2, <1>3, <1>4, <1>5, <1>6, <1>7 DEF Tools

\* Every other step that moves the loop.
LEMMA StepPlace == TypeInv /\ [Next]_vars => PlaceOK' /\ LocalsOK'
<1> SUFFICES ASSUME TypeInv, [Next]_vars PROVE PlaceOK' /\ LocalsOK'
    OBVIOUS
<1> USE LimitsAssumption
<1>p. pass \in Passes /\ Fits(pc, pass)
    BY DEF TypeInv, LocalsOK
<1>r. drainRetries \in 0 .. MaxAttempts - 1
    BY DEF TypeInv, PlaceOK
<1>s. ASSUME UNCHANGED <<turn, stopped, drainRetries, pass, rounds, emissions>>,
             pc' \in Pcs, Fits(pc', pass)
      PROVE  PlaceOK' /\ LocalsOK'
    BY <1>s, <1>p DEF TypeInv, PlaceOK, LocalsOK
<1>1. CASE BeforeRequest
  <2>1. CASE BeforeRun
    <3>1. Fits(pc', pass) /\ pc' \in {"top", "end", "done"}
        BY <2>1 DEF BeforeRun, Fits
    <3>2. PlaceOK'
        BY <2>1 DEF BeforeRun, TypeInv, PlaceOK, Pcs, StopConditions
    <3> QED BY <2>1, <3>1, <3>2, <1>p DEF BeforeRun, LocalsOK
  <2>2. CASE TopStops
      BY <2>2, BreakTyped DEF TopStops, StopConditions
  <2>3. CASE TopProceeds
    <3>1. 1 \in 0 .. MaxAttempts
        OBVIOUS
    <3>2. [NoPass EXCEPT !.attempt = 1] \in Passes
        BY <3>1, NoPassType DEF Passes
    <3>3. LocalsOK'
        BY <2>3, <3>2 DEF TopProceeds, LocalsOK, Fits
    <3>4. PlaceOK'
        BY <2>3 DEF TopProceeds, TypeInv, PlaceOK, Pcs
    <3> QED BY <3>3, <3>4
  <2> QED BY <1>1, <2>1, <2>2, <2>3 DEF BeforeRequest
<1>2. CASE Request
  <2>1. CASE RequestCancelled
      BY <2>1, BreakTyped DEF RequestCancelled, StopConditions
  <2>2. CASE RequestOpens
    <3>1. CASE Proceed("drain", NoPass)
        BY <3>1, NoPassType, ProceedTyped DEF Pcs, Fits
    <3>2. CASE pass.attempt < MaxAttempts /\ Proceed("request", [pass EXCEPT !.attempt = @ + 1])
      <4>1. pass.attempt + 1 \in 0 .. MaxAttempts
          BY <1>p, <3>2 DEF Passes
      <4>2. [pass EXCEPT !.attempt = pass.attempt + 1] \in Passes
          BY <1>p, <4>1 DEF Passes
      <4> QED BY <3>2, <4>2, ProceedTyped DEF Pcs, Fits
    <3>3. CASE BreakOuter("StreamIdle") \/ BreakOuter("ProviderError")
        BY <3>3, BreakTyped DEF StopConditions
    <3> QED BY <2>2, <3>1, <3>2, <3>3 DEF RequestOpens
  <2>3. CASE ContextTooLong
    <3>1. CASE RedoTurn /\ UNCHANGED drainRetries
        BY <3>1, <1>r, RedoTyped
    <3>2. CASE BreakOuter("ProviderError")
        BY <3>2, BreakTyped DEF StopConditions
    <3> QED BY <2>3, <3>1, <3>2 DEF ContextTooLong
  <2> QED BY <1>2, <2>1, <2>2, <2>3 DEF Request
<1>3. CASE Drain
  <2>1. CASE DrainContent
    <3>1. [pass EXCEPT !.emitted = TRUE] \in Passes
        BY <1>p DEF Passes
    <3>2. LocalsOK'
        BY <2>1, <3>1 DEF DrainContent, LocalsOK, Fits
    <3>3. PlaceOK'
        BY <2>1 DEF DrainContent, TypeInv, PlaceOK
    <3> QED BY <3>2, <3>3
  <2>2. CASE DrainInterrupted
    <3>1. drainRetries' \in 0 .. MaxAttempts - 1 /\ RedoTurn
        BY <2>2, <1>r DEF DrainInterrupted
    <3> QED BY <3>1, RedoTyped
  <2>3. CASE DrainStops
      BY <2>3, BreakTyped DEF DrainStops, StopConditions
  <2>4. CASE DrainCompletes
    <3>1. CASE RedoTurn /\ UNCHANGED drainRetries
        BY <3>1, <1>r, RedoTyped
    <3>2. ASSUME NEW r \in Responses,
                 Proceed("plan", [NoPass EXCEPT !.response = r,
                                     !.results = [k \in 1 .. r.calls |-> "none"]])
          PROVE  PlaceOK' /\ LocalsOK'
      <4> DEFINE none == [k \in 1 .. r.calls |-> "none"]
                 q    == [NoPass EXCEPT !.response = r, !.results = none]
      <4>1. r \in Response
          OBVIOUS
      <4>2. r.calls \in Nat
          BY <4>1 DEF Response
      <4>3. none \in Seq(Outcomes) /\ Len(none) = r.calls
        <5>1. none \in [1 .. r.calls -> Outcomes]
            BY DEF Outcomes
        <5>2. none \in Seq(Outcomes)
            BY <4>2, <5>1, SeqDef
        <5> QED BY <4>2, <5>2, LenProperties
      <4>4. Proceed("plan", q)
          BY <3>2
      <4>5. q \in Passes
        <5> HIDE DEF none
        <5> QED BY <4>1, <4>3, NoPassType DEF Passes
      <4>6. /\ q.plans = <<>> /\ q.next = 1 /\ q.response = r /\ q.results = none
            /\ q.pending = {}
        <5> HIDE DEF none
        <5> QED BY DEF NoPass
      <4>7. Fits("plan", q)
        <5> HIDE DEF q, none
        <5> QED BY <4>2, <4>3, <4>6 DEF Fits
      <4> HIDE DEF q
      <4> QED BY <4>4, <4>5, <4>7, ProceedTyped DEF Pcs
    <3> QED BY <2>4, <3>1, <3>2 DEF DrainCompletes
  <2> QED BY <1>3, <2>1, <2>2, <2>3, <2>4 DEF Drain
<1>4. CASE Tools
    BY <1>4, ToolsTyped
<1>5. CASE AfterTurn
  <2>1. CASE BreakOuter("HookDenied")
      BY <2>1, BreakTyped DEF StopConditions
  <2>2. ASSUME NEW d \in {"Continue", "ContinueWith", "Stop"},
               Proceed("settle", [pass EXCEPT !.decision = d])
        PROVE  PlaceOK' /\ LocalsOK'
    <3>1. [pass EXCEPT !.decision = d] \in Passes
        BY <1>p DEF Passes
    <3>2. "settle" \in Pcs /\ Fits("settle", [pass EXCEPT !.decision = d])
        BY DEF Pcs, Fits
    <3> QED BY <2>2, <3>1, <3>2, ProceedTyped
  <2> QED BY <1>5, <2>1, <2>2 DEF AfterTurn
<1>6. CASE Settle
  <2>1. CASE SettleNudges \/ SettleForces
      BY <2>1, NextTurnTyped DEF SettleNudges, SettleForces, InjectAndAdvance
  <2>2. CASE SettleStops
      BY <2>2, BreakTyped DEF SettleStops, StopConditions
  <2>3. CASE SettleProceeds
    <3>1. CASE Proceed("decide", pass)
        BY <3>1, <1>p, ProceedTyped DEF Pcs, Fits
    <3>2. CASE NextTurn
        BY <3>2, NextTurnTyped
    <3> QED BY <2>3, <3>1, <3>2 DEF SettleProceeds, InjectAndAdvance
  <2> QED BY <1>6, <2>1, <2>2, <2>3 DEF Settle
<1>7. CASE Decide \/ OperatorAnswers
  <2>1. CASE DecideToolUse \/ DecideMeta
      BY <2>1, NextTurnTyped DEF DecideToolUse, DecideMeta, InjectAndAdvance
  <2>2. CASE DecideSurrenders \/ InputCancelled
      BY <2>2, BreakTyped DEF DecideSurrenders, InputCancelled, StopConditions
  <2>3. CASE OperatorAnswers
      BY <2>3, BreakTyped, NextTurnTyped DEF OperatorAnswers, InjectAndAdvance, StopConditions
  <2> QED BY <1>7, <2>1, <2>2, <2>3 DEF Decide
<1>8. CASE AfterRun
  <2>1. pc' \in Pcs /\ Fits(pc', pass)
      BY <1>8 DEF AfterRun, Pcs, Fits
  <2> QED BY <1>8, <2>1, <1>s DEF AfterRun
<1>9. CASE Cancel \/ UNCHANGED vars
  <2>1. pc' \in Pcs /\ Fits(pc', pass)
      BY <1>9, <1>p DEF Cancel, vars, TypeInv, PlaceOK
  <2> QED BY <1>9, <2>1, <1>s DEF Cancel, vars
<1> QED BY <1>1, <1>2, <1>3, <1>4, <1>5, <1>6, <1>7, <1>8, <1>9 DEF Next, Loop

LEMMA StepCompleted == TypeInv /\ [Next]_vars => completed' \in Nat
<1> SUFFICES ASSUME TypeInv, [Next]_vars PROVE completed' \in Nat
    OBVIOUS
<1>1. completed' = completed \/ completed' = completed + 1
    BY DEF Next, Loop, BeforeRequest, Request, Drain, Tools, Settle, Decide, BeforeRun, TopStops,
           TopProceeds, RequestCancelled, RequestOpens, ContextTooLong, DrainContent,
           DrainInterrupted, DrainStops, DrainCompletes, PlanCancelled, PlanCall, PlanDone,
           EnqueueCall, EnqueueDone, InvokeReturns, Finalize, AfterTurn, SettleNudges, SettleStops,
           SettleForces, SettleProceeds, DecideToolUse, DecideMeta, DecideSurrenders,
           OperatorAnswers, InputCancelled, AfterRun, Cancel, InjectAndAdvance, runVars, vars
<1> QED BY <1>1 DEF TypeInv

\* reset_for_new_turn clears the two fields of the turn.
LEMMA ResetTyped ==
    ASSUME NEW r \in Recoveries
    PROVE  /\ ResetForNewTurn(r) \in Recoveries
           /\ ~ResetForNewTurn(r).stageA /\ ~ResetForNewTurn(r).escalated
BY DEF ResetForNewTurn, Recoveries

\* The recovery state stays within its limits.
LEMMA StepRecovery == TypeInv /\ [Next]_vars => recovery' \in Recoveries
<1> SUFFICES ASSUME TypeInv, [Next]_vars PROVE recovery' \in Recoveries
    OBVIOUS
<1> USE LimitsAssumption
<1>r. recovery \in Recoveries
    BY DEF TypeInv
<1>1. CASE MaybeCompact
  <2>1. CASE recovery' = [recovery EXCEPT !.compactFails = 0]
    <3>1. 0 \in 0 .. MaxCompactFails
        OBVIOUS
    <3> QED BY <2>1, <3>1, <1>r DEF Recoveries
  <2>2. CASE /\ recovery.compactFails < MaxCompactFails
             /\ recovery' = [recovery EXCEPT !.compactFails = @ + 1]
    <3>1. recovery.compactFails + 1 \in 0 .. MaxCompactFails
        BY <2>2, <1>r DEF Recoveries
    <3> QED BY <2>2, <3>1, <1>r DEF Recoveries
  <2> QED BY <1>1, <2>1, <2>2, <1>r DEF MaybeCompact
<1>2. CASE ContextTooLong \/ DrainCompletes
    BY <1>2, <1>r DEF ContextTooLong, DrainCompletes, Recoveries
<1>3. CASE SettleForces
  <2>1. recovery.forced + 1 \in 0 .. MaxForced
      BY <1>3, <1>r DEF SettleForces, Recoveries
  <2>2. [recovery EXCEPT !.forced = @ + 1] \in Recoveries
      BY <2>1, <1>r DEF Recoveries
  <2> QED BY <1>3, <2>2, ResetTyped DEF SettleForces, InjectAndAdvance
<1>4. CASE DecideMeta
  <2>1. recovery.meta + 1 \in 0 .. MaxMeta
      BY <1>4, <1>r DEF DecideMeta, Recoveries
  <2>2. [recovery EXCEPT !.meta = @ + 1] \in Recoveries
      BY <2>1, <1>r DEF Recoveries
  <2> QED BY <1>4, <2>2, ResetTyped DEF DecideMeta, InjectAndAdvance
<1>5. CASE SettleNudges \/ SettleProceeds \/ DecideToolUse \/ OperatorAnswers
    BY <1>5, <1>r, ResetTyped
       DEF SettleNudges, SettleProceeds, DecideToolUse, OperatorAnswers, InjectAndAdvance
<1>6. CASE UNCHANGED recovery
    BY <1>6, <1>r
<1> QED BY <1>1, <1>2, <1>3, <1>4, <1>5, <1>6
    DEF Next, Loop, BeforeRequest, Request, Drain, Tools, Settle, Decide, BeforeRun, TopStops,
        TopProceeds, RequestCancelled, RequestOpens, DrainContent, DrainInterrupted, DrainStops,
        PlanCancelled, PlanCall, PlanDone, EnqueueCall, EnqueueDone, InvokeReturns, Finalize,
        AfterTurn, SettleStops, DecideSurrenders, InputCancelled, AfterRun, Cancel, runVars, vars

LEMMA TrackEditsTyped == nudges \in Nudges => TrackEdits \in Nudges
<1> SUFFICES ASSUME nudges \in Nudges PROVE TrackEdits \in Nudges
    OBVIOUS
<1>1. nudges.sinceEdit + 1 \in Nat
    BY DEF Nudges
<1> QED BY <1>1 DEF TrackEdits, Nudges

\* The nudges stay within their limits.
LEMMA StepNudges == TypeInv /\ [Next]_vars => nudges' \in Nudges
<1> SUFFICES ASSUME TypeInv, [Next]_vars PROVE nudges' \in Nudges
    OBVIOUS
<1> USE LimitsAssumption
<1> DEFINE t == TrackEdits
<1>r. nudges \in Nudges /\ t \in Nudges
    BY TrackEditsTyped DEF TypeInv
<1>1. CASE SettleNudges
  <2>1. nudges' = [t EXCEPT !.armed = FALSE]
      BY <1>1 DEF SettleNudges
  <2> HIDE DEF t
  <2> QED BY <2>1, <1>r DEF Nudges
<1>2. CASE SettleStops \/ SettleForces
    BY <1>2, <1>r DEF SettleStops, SettleForces
<1>3. CASE SettleProceeds
  <2>1. t.empty = nudges.empty
      BY <1>r DEF TrackEdits, Nudges
  <2>2. \/ nudges' = t
        \/ nudges' = [t EXCEPT !.empty = 0]
        \/ nudges.empty < EmptyNudgeMax /\ nudges' = [t EXCEPT !.empty = @ + 1]
      BY <1>3 DEF SettleProceeds
  <2> HIDE DEF t
  <2>3. CASE nudges.empty < EmptyNudgeMax /\ nudges' = [t EXCEPT !.empty = @ + 1]
    <3>1. t.empty + 1 \in 0 .. EmptyNudgeMax
        BY <2>3, <2>1, <1>r DEF Nudges
    <3> QED BY <2>3, <3>1, <1>r DEF Nudges
  <2>4. CASE nudges' = [t EXCEPT !.empty = 0]
    <3>1. 0 \in 0 .. EmptyNudgeMax
        OBVIOUS
    <3> QED BY <2>4, <3>1, <1>r DEF Nudges
  <2> QED BY <2>2, <2>3, <2>4, <1>r
<1>4. CASE UNCHANGED nudges
    BY <1>4, <1>r
<1> QED BY <1>1, <1>2, <1>3, <1>4
    DEF Next, Loop, BeforeRequest, Request, Drain, Tools, Settle, Decide, BeforeRun, TopStops,
        TopProceeds, RequestCancelled, RequestOpens, ContextTooLong, DrainContent,
        DrainInterrupted, DrainStops, DrainCompletes, PlanCancelled, PlanCall, PlanDone,
        EnqueueCall, EnqueueDone, InvokeReturns, Finalize, AfterTurn, DecideToolUse, DecideMeta,
        DecideSurrenders, OperatorAnswers, InputCancelled, AfterRun, Cancel, runVars, vars

LEMMA StepTypeInv == TypeInv /\ [Next]_vars => TypeInv'
<1> SUFFICES ASSUME TypeInv, [Next]_vars PROVE TypeInv'
    OBVIOUS
<1> QED BY StepPlace, StepFlags, StepCompleted, StepRecovery, StepNudges DEF TypeInv

LEMMA TypeInvImpliesTypeOK == TypeInv => TypeOK
<1> SUFFICES ASSUME TypeInv PROVE TypeOK
    OBVIOUS
<1>1. pass \in Passes
    BY DEF TypeInv, LocalsOK
<1>2. /\ pass.attempt \in 0 .. MaxAttempts /\ pass.emitted \in BOOLEAN
      /\ pass.response \in Response
      /\ pass.next \in 1 .. MaxCalls + 1 /\ pass.pending \subseteq 1 .. MaxCalls
      /\ pass.decision \in {"Continue", "ContinueWith", "Stop"}
    BY <1>1 DEF Passes
<1> QED BY <1>2 DEF TypeInv, PlaceOK, FlagsOK, TypeOK, Pcs, Recoveries, Nudges

\* Whatever is retried, escalated, compacted, nudged, denied or cancelled, the
\* run's variables keep their types: attempts, retries, forced and meta
\* continuations, compaction failures and nudges never pass their limits, and a
\* planned or queued call is always one of the response's.
THEOREM TurnLoopTypeCorrect == Spec => []TypeOK
<1>1. Init => TypeInv
    BY InitTypeInv
<1>2. TypeInv /\ [Next]_vars => TypeInv'
    BY StepTypeInv
<1>3. TypeInv => TypeOK
    BY TypeInvImpliesTypeOK
<1> QED BY <1>1, <1>2, <1>3, PTL DEF Spec

----------------------------------------------------------------------------
(* Redone turns.                                                           *)

B(flag) == IF flag THEN 1 ELSE 0

\* A turn index in use is below the limit, and the turns of a run that ended
\* count no more than the limit.
CountInv ==
    /\ pc = "start" => turn = 0 /\ completed = 0
    /\ pc \notin {"start", "end", "done"} => turn < MaxTurns
    /\ TurnsCountOnce

\* Each pass of a turn but the first is paid for: by a re-issue, by the run's one
\* reactive compaction or by the turn's one escalation.
Paid == drainRetries + B(recovery.reactive) + B(recovery.stageA)
RoundInv ==
    /\ rounds <= Paid + (IF pc \in {"start", "top"} THEN 0 ELSE 1)
    /\ pc \notin {"start", "top", "end", "done"} => rounds > 0
    /\ recovery.stageA = recovery.escalated
    /\ pc = "start" \/ (pc = "top" /\ rounds = 0) => ~recovery.stageA

\* Before a pass has shown anything, at most the truncated pass has.
ShownInv ==
    emissions <= B(recovery.stageA)
        + (IF pc \in {"start", "top", "request"} \/ (pc = "drain" /\ ~pass.emitted)
           THEN 0 ELSE 1)

LEMMA StepCountInv == TypeInv /\ CountInv /\ [Next]_vars => CountInv'
<1> SUFFICES ASSUME TypeInv, CountInv, [Next]_vars PROVE CountInv'
    OBVIOUS
<1> USE LimitsAssumption
<1>t. turn \in Nat /\ completed \in Nat
    BY DEF TypeInv, PlaceOK
<1> USE DEF CountInv, TurnsCountOnce
<1>1. CASE BeforeRequest
    BY <1>1, <1>t DEF BeforeRequest, BeforeRun, TopStops, TopProceeds, BreakOuter, runVars
<1>2. CASE Request
    BY <1>2, <1>t DEF Request, RequestCancelled, RequestOpens, ContextTooLong, BreakOuter,
                      RedoTurn, Proceed, runVars
<1>3. CASE Drain
    BY <1>3, <1>t DEF Drain, DrainContent, DrainInterrupted, DrainStops, DrainCompletes,
                      BreakOuter, RedoTurn, Proceed, runVars
<1>4. CASE Tools
    BY <1>4, <1>t DEF Tools, PlanCancelled, PlanCall, PlanDone, EnqueueCall, EnqueueDone,
                      InvokeReturns, Finalize, BreakOuter, Proceed, runVars
<1>5. CASE AfterTurn
    BY <1>5, <1>t DEF AfterTurn, BreakOuter, Proceed
<1>6. CASE Settle
    BY <1>6, <1>t DEF Settle, SettleNudges, SettleStops, SettleForces, SettleProceeds,
                      InjectAndAdvance, NextTurn, BreakOuter, Proceed
<1>7. CASE Decide \/ OperatorAnswers
    BY <1>7, <1>t DEF Decide, DecideToolUse, DecideMeta, DecideSurrenders, InputCancelled,
                      OperatorAnswers, AwaitsOperator, InjectAndAdvance, NextTurn, BreakOuter,
                      runVars
<1>8. CASE AfterRun \/ Cancel \/ UNCHANGED vars
    BY <1>8, <1>t DEF AfterRun, Cancel, vars, runVars
<1> QED BY <1>1, <1>2, <1>3, <1>4, <1>5, <1>6, <1>7, <1>8 DEF Next, Loop

\* What the recovery state says of a turn and its passes, as a step leaves it.
FlagsKept ==
    /\ recovery'.stageA = recovery.stageA /\ recovery'.escalated = recovery.escalated
    /\ recovery'.reactive = recovery.reactive

LEMMA MaybeCompactFlags == recovery \in Recoveries /\ MaybeCompact => FlagsKept
BY DEF MaybeCompact, Recoveries, FlagsKept

LEMMA StepRoundInv == TypeInv /\ RoundInv /\ [Next]_vars => RoundInv'
<1> SUFFICES ASSUME TypeInv, RoundInv, [Next]_vars PROVE RoundInv'
    OBVIOUS
<1> USE LimitsAssumption
<1>t. /\ turn \in Nat /\ rounds \in Nat /\ drainRetries \in Nat /\ recovery \in Recoveries
      /\ recovery' \in Recoveries /\ B(recovery.stageA) \in 0 .. 1
      /\ B(recovery.reactive) \in 0 .. 1 /\ B(recovery'.reactive) \in 0 .. 1
    BY StepRecovery DEF TypeInv, PlaceOK, B
\* The loop goes on or ends, and the recovery state stays.
<1>k. ASSUME pc \notin {"start", "top", "end", "done"} \/ pc' \in {"end", "done"},
             pc' \notin {"start", "top"}, FlagsKept, UNCHANGED <<rounds, drainRetries>>
      PROVE  RoundInv'
    BY <1>k, <1>t DEF RoundInv, Paid, FlagsKept
\* The loop advances.
<1>n. ASSUME NextTurn, ~recovery'.stageA, ~recovery'.escalated
      PROVE  RoundInv'
  <2>1. (recovery'.stageA = FALSE) /\ (recovery'.escalated = FALSE)
      BY <1>n, <1>t DEF Recoveries
  <2>2. B(recovery'.stageA) \in Nat /\ B(recovery'.reactive) \in Nat
      BY DEF B
  <2>3. Paid' \in Nat
      BY <1>n, <2>2 DEF NextTurn, Paid
  <2>4. pc' \in {"top", "end"} /\ rounds' = 0
      BY <1>n DEF NextTurn
  <2>5. rounds' <= Paid' + (IF pc' \in {"start", "top"} THEN 0 ELSE 1)
    <3>1. PICK n \in Nat : n = Paid'
        BY <2>3
    <3>2. 0 <= n + (IF pc' \in {"start", "top"} THEN 0 ELSE 1)
        OBVIOUS
    <3> QED BY <2>4, <3>1, <3>2
  <2>6. pc' \notin {"start", "top", "end", "done"} => rounds' > 0
      BY <2>4
  <2>7. /\ recovery'.stageA = recovery'.escalated
        /\ pc' = "start" \/ (pc' = "top" /\ rounds' = 0) => ~recovery'.stageA
      BY <2>1, Zenon
  <2> QED BY <2>5, <2>6, <2>7, Zenon DEF RoundInv
<1>1. CASE BeforeRequest
    BY <1>1, <1>t, MaybeCompactFlags
       DEF BeforeRequest, BeforeRun, TopStops, TopProceeds, BreakOuter, runVars, RoundInv, Paid,
           FlagsKept
<1>2. CASE Request
  <2>1. CASE RequestCancelled \/ RequestOpens
      BY <2>1, <1>k DEF RequestCancelled, RequestOpens, BreakOuter, Proceed, runVars, FlagsKept
  <2>2. CASE ContextTooLong
    <3>1. /\ recovery'.stageA = recovery.stageA /\ recovery'.escalated = recovery.escalated
          /\ ~recovery.reactive /\ recovery'.reactive
        BY <2>2, <1>t DEF ContextTooLong, Recoveries
    <3> QED BY <2>2, <3>1, <1>t DEF ContextTooLong, RedoTurn, BreakOuter, RoundInv, Paid, B
  <2> QED BY <1>2, <2>1, <2>2 DEF Request
<1>3. CASE Drain
  <2>1. CASE DrainContent \/ DrainStops
      BY <2>1, <1>k DEF DrainContent, DrainStops, BreakOuter, runVars, FlagsKept
  <2>2. CASE DrainInterrupted
      BY <2>2, <1>t DEF DrainInterrupted, RedoTurn, runVars, RoundInv, Paid
  <2>3. CASE DrainCompletes
    <3>1. CASE /\ recovery' = [recovery EXCEPT !.stageA = TRUE, !.escalated = TRUE]
               /\ ~recovery.stageA /\ RedoTurn /\ UNCHANGED drainRetries
      <4>1. /\ recovery'.stageA /\ recovery'.escalated
            /\ recovery'.reactive = recovery.reactive
          BY <3>1, <1>t DEF Recoveries
      <4> QED BY <2>3, <3>1, <4>1, <1>t DEF DrainCompletes, RedoTurn, RoundInv, Paid, B
    <3>2. CASE pc' = "plan" /\ UNCHANGED <<recovery, rounds, drainRetries>>
        BY <2>3, <3>2, <1>k DEF DrainCompletes, FlagsKept
    <3> QED BY <2>3, <3>1, <3>2 DEF DrainCompletes, Proceed
  <2> QED BY <1>3, <2>1, <2>2, <2>3 DEF Drain
<1>4. CASE Tools
    BY <1>4, <1>k DEF Tools, PlanCancelled, PlanCall, PlanDone, EnqueueCall, EnqueueDone,
                      InvokeReturns, Finalize, BreakOuter, Proceed, runVars, FlagsKept
<1>5. CASE AfterTurn
    BY <1>5, <1>k DEF AfterTurn, BreakOuter, Proceed, FlagsKept
<1>6. CASE Settle \/ Decide \/ OperatorAnswers
  <2>1. CASE SettleForces
    <3>1. [recovery EXCEPT !.forced = @ + 1].stageA = recovery.stageA
        BY <1>t DEF Recoveries
    <3>2. ~recovery'.stageA /\ ~recovery'.escalated /\ NextTurn
        BY <2>1, <1>t DEF SettleForces, InjectAndAdvance, ResetForNewTurn, Recoveries
    <3> QED BY <3>2, <1>n
  <2>2. CASE DecideMeta
    <3>1. ~recovery'.stageA /\ ~recovery'.escalated /\ NextTurn
        BY <2>2, <1>t DEF DecideMeta, InjectAndAdvance, ResetForNewTurn, Recoveries
    <3> QED BY <3>1, <1>n
  <2>3. CASE recovery' = ResetForNewTurn(recovery) /\ NextTurn
      BY <2>3, <1>t, <1>n, ResetTyped
  <2>4. CASE SettleStops \/ DecideSurrenders \/ InputCancelled
      BY <2>4, <1>k DEF SettleStops, DecideSurrenders, InputCancelled, BreakOuter, runVars,
                        FlagsKept
  <2>5. CASE SettleNudges \/ DecideToolUse
      BY <2>5, <2>3 DEF SettleNudges, DecideToolUse, InjectAndAdvance
  <2>6. CASE SettleProceeds \/ OperatorAnswers
      BY <2>6, <2>3, <1>k DEF SettleProceeds, OperatorAnswers, AwaitsOperator, InjectAndAdvance,
                              BreakOuter, Proceed, FlagsKept
  <2> QED BY <1>6, <2>1, <2>2, <2>4, <2>5, <2>6 DEF Settle, Decide
<1>7. CASE AfterRun
    BY <1>7, <1>k DEF AfterRun, runVars, FlagsKept
<1>8. CASE Cancel \/ UNCHANGED vars
    BY <1>8, <1>t DEF Cancel, vars, RoundInv, Paid
<1> QED BY <1>1, <1>2, <1>3, <1>4, <1>5, <1>6, <1>7, <1>8 DEF Next, Loop

LEMMA StepShownInv == TypeInv /\ ShownInv /\ [Next]_vars => ShownInv'
<1> SUFFICES ASSUME TypeInv, ShownInv, [Next]_vars PROVE ShownInv'
    OBVIOUS
<1>t. /\ emissions \in Nat /\ recovery \in Recoveries /\ B(recovery.stageA) \in Nat
      /\ B(recovery'.stageA) \in Nat
    BY DEF TypeInv, PlaceOK, B
<1> USE DEF ShownInv
\* The pass goes on past its stream or ends.
<1>k. ASSUME recovery'.stageA = recovery.stageA, UNCHANGED emissions,
             pc' \notin {"start", "top", "request", "drain"}
      PROVE  ShownInv'
    BY <1>k, <1>t
<1>n. ASSUME NextTurn PROVE ShownInv'
    BY <1>n, <1>t DEF NextTurn
<1>1. CASE BeforeRequest
    BY <1>1, <1>t, MaybeCompactFlags
       DEF BeforeRequest, BeforeRun, TopStops, TopProceeds, BreakOuter, runVars, FlagsKept
<1>2. CASE Request
  <2>1. CASE RequestCancelled
      BY <2>1, <1>k DEF RequestCancelled, BreakOuter, runVars
  <2>2. CASE RequestOpens
      BY <2>2, <1>t DEF RequestOpens, BreakOuter, Proceed, runVars, NoPass
  <2>3. CASE ContextTooLong
    <3>1. recovery'.stageA = recovery.stageA
        BY <2>3, <1>t DEF ContextTooLong, Recoveries
    <3> QED BY <2>3, <3>1, <1>t DEF ContextTooLong, RedoTurn, BreakOuter
  <2> QED BY <1>2, <2>1, <2>2, <2>3 DEF Request
<1>3. CASE Drain
  <2>1. CASE DrainContent
    <3>1. pass'.emitted
        BY <2>1 DEF DrainContent, TypeInv, LocalsOK, Passes
    <3> QED BY <2>1, <3>1, <1>t DEF DrainContent, runVars
  <2>2. CASE DrainInterrupted
      BY <2>2, <1>t DEF DrainInterrupted, RedoTurn, runVars
  <2>3. CASE DrainStops
      BY <2>3, <1>k DEF DrainStops, BreakOuter, runVars
  <2>4. CASE DrainCompletes
    <3>1. CASE /\ recovery' = [recovery EXCEPT !.stageA = TRUE, !.escalated = TRUE]
               /\ ~recovery.stageA /\ RedoTurn
      <4>1. recovery'.stageA
          BY <3>1, <1>t DEF Recoveries
      <4> QED BY <2>4, <3>1, <4>1, <1>t DEF DrainCompletes, RedoTurn, B
    <3>2. CASE pc' = "plan" /\ UNCHANGED <<recovery, emissions>>
        BY <3>2, <1>k
    <3> QED BY <2>4, <3>1, <3>2 DEF DrainCompletes, Proceed
  <2> QED BY <1>3, <2>1, <2>2, <2>3, <2>4 DEF Drain
<1>4. CASE Tools
    BY <1>4, <1>k DEF Tools, PlanCancelled, PlanCall, PlanDone, EnqueueCall, EnqueueDone,
                      InvokeReturns, Finalize, BreakOuter, Proceed, runVars
<1>5. CASE AfterTurn
    BY <1>5, <1>k DEF AfterTurn, BreakOuter, Proceed
<1>6. CASE Settle \/ Decide \/ OperatorAnswers
    BY <1>6, <1>k, <1>n
       DEF Settle, SettleNudges, SettleStops, SettleForces, SettleProceeds, Decide, DecideToolUse,
           DecideMeta, DecideSurrenders, InputCancelled, OperatorAnswers, InjectAndAdvance,
           BreakOuter, Proceed, runVars
<1>7. CASE AfterRun
    BY <1>7, <1>k DEF AfterRun, runVars
<1>8. CASE Cancel \/ UNCHANGED vars
    BY <1>8 DEF Cancel, vars
<1> QED BY <1>1, <1>2, <1>3, <1>4, <1>5, <1>6, <1>7, <1>8 DEF Next, Loop

RedoInv == TypeInv /\ CountInv /\ RoundInv /\ ShownInv

LEMMA RedoInvHolds == Spec => []RedoInv
<1>1. Init => RedoInv
  <2> SUFFICES ASSUME Init PROVE RedoInv
      OBVIOUS
  <2>1. TypeInv
      BY InitTypeInv
  <2>2. CountInv
      BY LimitsAssumption DEF Init, CountInv, TurnsCountOnce
  <2>3. RoundInv /\ ShownInv
      BY LimitsAssumption DEF Init, RoundInv, ShownInv, Paid, B, NoRecovery
  <2> QED BY <2>1, <2>2, <2>3 DEF RedoInv
<1>2. RedoInv /\ [Next]_vars => RedoInv'
    BY StepTypeInv, StepCountInv, StepRoundInv, StepShownInv DEF RedoInv
<1> QED BY <1>1, <1>2, PTL DEF Spec

\* For any limits: however often a turn is re-issued, compacted away or
\* escalated, it counts as completed exactly once, when its TurnEnd is out, and a
\* run never completes more turns than max_turns.
THEOREM TurnsCountedOnce == Spec => []TurnsCountOnce
<1>1. RedoInv => TurnsCountOnce
    BY DEF RedoInv, CountInv
<1> QED BY <1>1, RedoInvHolds, PTL

\* For any limits: the re-issues of an interrupted stream, the reactive
\* compaction and the escalated retry together make at most max_attempts + 2
\* passes of a turn, and no turn inherits the escalated budget of an earlier one.
THEOREM RedosBounded == Spec => []RoundsBounded
<1>1. RedoInv => RoundsBounded
  <2> SUFFICES ASSUME RedoInv PROVE RoundsBounded
      OBVIOUS
  <2>1. /\ rounds \in Nat /\ drainRetries \in 0 .. MaxAttempts - 1
        /\ B(recovery.stageA) \in 0 .. 1 /\ B(recovery.reactive) \in 0 .. 1
      BY DEF RedoInv, TypeInv, PlaceOK, B
  <2>2. rounds <= MaxAttempts + 2
      BY <2>1, LimitsAssumption DEF RedoInv, RoundInv, Paid
  <2> QED BY <2>2 DEF RedoInv, RoundInv, RoundsBounded
<1> QED BY <1>1, RedoInvHolds, PTL

\* For any limits: a consumer sees content of at most one pass per turn, or of two
\* when the second is the escalated retry of a truncated first.
THEOREM ContentShownOnce == Spec => []ShownOnce
<1>1. RedoInv => ShownOnce
  <2> SUFFICES ASSUME RedoInv PROVE ShownOnce
      OBVIOUS
  <2>1. emissions \in Nat
      BY DEF RedoInv, TypeInv, PlaceOK
  <2> QED BY <2>1 DEF RedoInv, ShownInv, ShownOnce, B
<1> QED BY <1>1, RedoInvHolds, PTL

\* For any limits and responses: a Stop decision of the after_turn hook ends the
\* run with HookDenied, unless the armed no-edit nudge was due, which then is
\* spent and adds its message.
THEOREM StopEndsRun == Spec => StopHalts
<1> DEFINE A == pc = "settle" /\ pass.decision = "Stop" /\ pc' # pc
                  => \/ pc' = "end" /\ stopped' = "HookDenied"
                     \/ /\ nudges.armed /\ ~nudges'.armed
                        /\ history' = Append(history, UserText)
<1>1. TypeInv /\ [Next]_vars => [A]_vars
  <2> SUFFICES ASSUME TypeInv, Next, pc = "settle", pass.decision = "Stop", pc' # pc
               PROVE  A
      BY DEF vars
  <2>1. CASE SettleNudges
    <3>1. TrackEdits \in Nudges
        BY TrackEditsTyped DEF TypeInv
    <3>2. ~nudges'.armed
      <4>1. nudges' = [TrackEdits EXCEPT !.armed = FALSE]
          BY <2>1 DEF SettleNudges
      <4> QED BY <3>1, <4>1 DEF Nudges
    <3> QED BY <2>1, <3>2 DEF SettleNudges, NudgeDue, InjectAndAdvance
  <2>2. CASE SettleStops
      BY <2>2 DEF SettleStops, BreakOuter
  <2> QED BY <2>1, <2>2
      DEF Next, Loop, BeforeRequest, Request, Drain, Tools, Settle, Decide, BeforeRun, TopStops,
          TopProceeds, RequestCancelled, RequestOpens, ContextTooLong, DrainContent,
          DrainInterrupted, DrainStops, DrainCompletes, PlanCancelled, PlanCall, PlanDone,
          EnqueueCall, EnqueueDone, InvokeReturns, Finalize, AfterTurn, SettleForces,
          SettleProceeds, DecideToolUse, DecideMeta, DecideSurrenders, OperatorAnswers,
          AwaitsOperator, InputCancelled, AfterRun, Cancel
<1>2. Spec => []TypeInv
  <2>1. RedoInv => TypeInv
      BY DEF RedoInv
  <2> QED BY <2>1, RedoInvHolds, PTL
<1> QED BY <1>1, <1>2, PTL DEF Spec, StopHalts

----------------------------------------------------------------------------
(* What iter().filter().collect() returns.                                 *)

\* The elements of keep up to i.
UpTo(keep, i) == {j \in keep : j <= i}

LEMMA RankGrows ==
    ASSUME NEW n \in Nat, NEW keep \in SUBSET (1 .. n)
    PROVE  /\ IsFiniteSet(keep) /\ Cardinality(keep) \in Nat
           /\ \A i \in keep : Cardinality(UpTo(keep, i)) \in 1 .. Cardinality(keep)
           /\ \A i, j \in keep : i < j => Cardinality(UpTo(keep, i)) < Cardinality(UpTo(keep, j))
<1>1. IsFiniteSet(1 .. n)
    BY FS_Interval
<1>2. IsFiniteSet(keep) /\ Cardinality(keep) \in Nat
    BY <1>1, FS_Subset, FS_CardinalityType
<1>3. ASSUME NEW i \in keep
      PROVE  /\ IsFiniteSet(UpTo(keep, i)) /\ Cardinality(UpTo(keep, i)) \in Nat
             /\ Cardinality(UpTo(keep, i)) <= Cardinality(keep)
             /\ Cardinality(UpTo(keep, i)) # 0
  <2>1. UpTo(keep, i) \in SUBSET keep /\ i \in UpTo(keep, i)
      BY DEF UpTo
  <2>2. /\ IsFiniteSet(UpTo(keep, i)) /\ Cardinality(UpTo(keep, i)) <= Cardinality(keep)
      BY <1>2, <2>1, FS_Subset
  <2> QED BY <2>1, <2>2, FS_CardinalityType, FS_EmptySet
<1>4. ASSUME NEW i \in keep, NEW j \in keep, i < j
      PROVE  Cardinality(UpTo(keep, i)) < Cardinality(UpTo(keep, j))
  <2>1. UpTo(keep, i) \in SUBSET UpTo(keep, j) /\ j \in UpTo(keep, j) /\ j \notin UpTo(keep, i)
    <3>1. \A x \in keep : x \in Int
        OBVIOUS
    <3>2. i <= j /\ j <= j /\ ~(j <= i) /\ \A x \in keep : x <= i => x <= j
        BY <1>4, <3>1
    <3> QED BY <3>2 DEF UpTo
  <2>2. /\ Cardinality(UpTo(keep, i)) <= Cardinality(UpTo(keep, j))
        /\ Cardinality(UpTo(keep, j)) = Cardinality(UpTo(keep, i)) => UpTo(keep, j) = UpTo(keep, i)
    <3>1. IsFiniteSet(UpTo(keep, j))
        BY <1>3
    <3> QED BY <2>1, <3>1, FS_Subset
  <2>3. Cardinality(UpTo(keep, i)) \in Nat /\ Cardinality(UpTo(keep, j)) \in Nat
      BY <1>3
  <2> QED BY <2>1, <2>2, <2>3
<1> QED BY <1>2, <1>3, <1>4

\* Filter lists the positions it keeps: each once and in order.
Nth(keep, k) == CHOOSE i \in keep : Cardinality(UpTo(keep, i)) = k

LEMMA NthOrder ==
    ASSUME NEW n \in Nat, NEW keep \in SUBSET (1 .. n)
    PROVE  /\ Cardinality(keep) \in Nat
           /\ \A k \in 1 .. Cardinality(keep) : Nth(keep, k) \in keep
           /\ \A i \in keep : \E k \in 1 .. Cardinality(keep) : i = Nth(keep, k)
           /\ \A k, l \in 1 .. Cardinality(keep) : k < l => Nth(keep, k) < Nth(keep, l)
<1> DEFINE m == Cardinality(keep)
           rank == [i \in keep |-> Cardinality(UpTo(keep, i))]
<1>1. /\ IsFiniteSet(keep) /\ m \in Nat
      /\ \A i \in keep : rank[i] \in 1 .. m
      /\ \A i, j \in keep : i < j => rank[i] < rank[j]
    BY RankGrows
<1>2. \A i, j \in keep : i # j => rank[i] # rank[j]
  <2>1. ASSUME NEW i \in keep, NEW j \in keep, i # j PROVE rank[i] # rank[j]
    <3>0. i \in Nat /\ j \in Nat /\ rank[i] \in Nat /\ rank[j] \in Nat
        BY <1>1
    <3>1. i < j \/ j < i
        BY <2>1, <3>0
    <3>2. rank[i] < rank[j] \/ rank[j] < rank[i]
        BY <3>1, <1>1
    <3> HIDE DEF rank
    <3> QED BY <3>0, <3>2
  <2> QED BY <2>1
<1>3. IsFiniteSet(1 .. m) /\ Cardinality(1 .. m) = m
    BY <1>1, FS_Interval
<1>4. rank \in Injection(keep, 1 .. m)
    BY <1>1, <1>2 DEF Injection, IsInjective
<1>5. rank \in Surjection(keep, 1 .. m)
    BY <1>1, <1>3, <1>4, FS_Injection
<1>6. \A k \in 1 .. m : \E i \in keep : rank[i] = k
    BY <1>5 DEF Surjection
<1>7. \A k \in 1 .. m : Nth(keep, k) \in keep /\ rank[Nth(keep, k)] = k
    BY <1>6 DEF Nth
<1>8. \A i \in keep : i = Nth(keep, rank[i])
    BY <1>1, <1>2, <1>7
<1>9. ASSUME NEW k \in 1 .. m, NEW l \in 1 .. m, k < l
      PROVE  Nth(keep, k) < Nth(keep, l)
  <2> DEFINE a == Nth(keep, k)
             b == Nth(keep, l)
  <2>0. \A x \in keep : x \in Nat
      OBVIOUS
  <2>1. a \in keep /\ b \in keep /\ rank[a] = k /\ rank[b] = l /\ a \in Nat /\ b \in Nat
    <3> HIDE DEF rank
    <3> QED BY <1>7, <2>0
  <2> HIDE DEF a, b, rank, m
  <2>2. ~(b < a) /\ a # b
      BY <1>1, <1>9, <2>1
  <2>3. a < b
      BY <2>1, <2>2
  <2> QED BY <2>3 DEF a, b
<1> HIDE DEF rank
<1> QED BY <1>1, <1>7, <1>8, <1>9

\* Filter as a sequence.
LEMMA FilterIs ==
    ASSUME NEW S, NEW s \in Seq(S), NEW keep \in SUBSET (1 .. Len(s))
    PROVE  /\ Filter(s, keep) \in Seq(S) /\ Len(Filter(s, keep)) = Cardinality(keep)
           /\ Cardinality(keep) \in Nat
           /\ \A k \in 1 .. Cardinality(keep) : Filter(s, keep)[k] = s[Nth(keep, k)]
<1>1. Len(s) \in Nat /\ \A i \in 1 .. Len(s) : s[i] \in S
    BY LenProperties, ElementOfSeq
<1>2. Cardinality(keep) \in Nat /\ \A k \in 1 .. Cardinality(keep) : Nth(keep, k) \in keep
    BY <1>1, NthOrder
<1> DEFINE t == [k \in 1 .. Cardinality(keep) |-> s[Nth(keep, k)]]
<1>3. Filter(s, keep) = t
    BY DEF Filter, Nth, UpTo
<1>4. t \in [1 .. Cardinality(keep) -> S]
    BY <1>1, <1>2
<1>5. t \in Seq(S) /\ Len(t) = Cardinality(keep)
    BY <1>2, <1>4, SeqDef, LenProperties
<1> QED BY <1>2, <1>3, <1>5

\* What Filter returns has the elements at the positions kept.
LEMMA FilterRange ==
    ASSUME NEW S, NEW s \in Seq(S), NEW keep \in SUBSET (1 .. Len(s))
    PROVE  Range(Filter(s, keep)) = {s[i] : i \in keep}
<1> DEFINE t == Filter(s, keep)
           m == Cardinality(keep)
<1>1. t \in Seq(S) /\ Len(t) = m /\ m \in Nat /\ \A k \in 1 .. m : t[k] = s[Nth(keep, k)]
    BY FilterIs
<1>2. /\ \A k \in 1 .. m : Nth(keep, k) \in keep
      /\ \A i \in keep : \E k \in 1 .. m : i = Nth(keep, k)
    BY NthOrder, LenProperties
<1>3. DOMAIN t = 1 .. m
    BY <1>1, LenProperties
<1> HIDE DEF t, m
<1>4. Range(t) = {s[i] : i \in keep}
  <2>1. ASSUME NEW k \in 1 .. m PROVE t[k] \in {s[i] : i \in keep}
      BY <1>1, <1>2
  <2>2. ASSUME NEW i \in keep PROVE \E k \in 1 .. m : t[k] = s[i]
      BY <1>1, <1>2
  <2> QED BY <1>3, <2>1, <2>2 DEF Range
<1> QED BY <1>4 DEF t

LEMMA FilterEmpty ==
    ASSUME NEW S, NEW s \in Seq(S), NEW keep \in SUBSET (1 .. Len(s))
    PROVE  Filter(s, keep) = <<>> <=> keep = {}
<1>1. /\ Filter(s, keep) \in Seq(S) /\ Len(Filter(s, keep)) = Cardinality(keep)
    BY FilterIs
<1>2. IsFiniteSet(keep)
    BY RankGrows, LenProperties
<1>3. Cardinality(keep) = 0 <=> keep = {}
    BY <1>2, FS_EmptySet
<1>4. Filter(s, keep) = <<>> <=> Len(Filter(s, keep)) = 0
    BY <1>1, EmptySeq
<1> QED BY <1>1, <1>3, <1>4

\* Filter that keeps everything changes nothing.
LEMMA FilterAll ==
    ASSUME NEW S, NEW s \in Seq(S)
    PROVE  Filter(s, 1 .. Len(s)) = s
<1> DEFINE n == Len(s)
           t == Filter(s, 1 .. n)
<1>1. n \in Nat /\ s \in [1 .. n -> S]
    BY LenProperties
<1>2. Cardinality(1 .. n) = n
    BY <1>1, FS_Interval
<1>3. t \in Seq(S) /\ Len(t) = n /\ \A k \in 1 .. n : t[k] = s[Nth(1 .. n, k)]
    BY <1>1, <1>2, FilterIs
<1>4. ASSUME NEW k \in 1 .. n PROVE Nth(1 .. n, k) = k
  <2>1. \A i \in 1 .. n : UpTo(1 .. n, i) = 1 .. i
      BY <1>1 DEF UpTo
  <2>2. \A i \in 1 .. n : Cardinality(UpTo(1 .. n, i)) = i
      BY <1>1, <2>1, FS_Interval
  <2> QED BY <2>2 DEF Nth
<1>5. t \in [1 .. n -> S]
    BY <1>1, <1>3, LenProperties
<1>6. \A k \in 1 .. n : t[k] = s[k]
    BY <1>3, <1>4
<1> HIDE DEF t, n
<1>7. t = s
    BY <1>1, <1>5, <1>6
<1> QED BY <1>7 DEF t, n

----------------------------------------------------------------------------
(* What sanitize_tool_pairs returns.                                       *)

Ids == Nat \X Nat
Message == [role : {"system", "user", "assistant"}, text : BOOLEAN, uses : Seq(Ids),
            results : Seq(Ids)]

Paired(h)    == UseIds(h) \cap ResultIds(h)
Only(s, ids) == Filter(s, {i \in DOMAIN s : s[i] \in ids})
Kept(h)      == [i \in DOMAIN h |-> [h[i] EXCEPT !.uses = Only(h[i].uses, Paired(h)),
                                                 !.results = Only(h[i].results, Paired(h))]]
Filled(h)    == {i \in DOMAIN h : HasContent(h[i])}

LEMMA SanitizeIs ==
    ASSUME NEW h PROVE SanitizeToolPairs(h) = Filter(Kept(h), Filled(Kept(h)))
BY DEF SanitizeToolPairs, Kept, Only, Paired, Filled

LEMMA OnlyIs ==
    ASSUME NEW s \in Seq(Ids), NEW ids
    PROVE  /\ Only(s, ids) \in Seq(Ids) /\ Range(Only(s, ids)) = Range(s) \cap ids
           /\ Range(s) \subseteq ids => Only(s, ids) = s
<1> DEFINE keep == {i \in DOMAIN s : s[i] \in ids}
<1>1. DOMAIN s = 1 .. Len(s) /\ keep \in SUBSET (1 .. Len(s))
    BY LenProperties
<1>2. Only(s, ids) = Filter(s, keep)
    BY DEF Only
<1>3. Range(s) \subseteq ids => keep = 1 .. Len(s)
    BY <1>1 DEF Range
<1>4. {s[i] : i \in keep} = Range(s) \cap ids
    BY DEF Range
<1> HIDE DEF keep
<1> QED BY <1>1, <1>2, <1>3, <1>4, FilterIs, FilterRange, FilterAll

LEMMA KeptIs ==
    ASSUME NEW h \in Seq(Message)
    PROVE  /\ Kept(h) \in Seq(Message) /\ Len(Kept(h)) = Len(h) /\ Len(h) \in Nat
           /\ \A i \in 1 .. Len(h) :
                 /\ h[i] \in Message /\ Kept(h)[i] \in Message
                 /\ Kept(h)[i].role = h[i].role /\ Kept(h)[i].text = h[i].text
                 /\ Kept(h)[i].uses = Only(h[i].uses, Paired(h))
                 /\ Kept(h)[i].results = Only(h[i].results, Paired(h))
<1>1. Len(h) \in Nat /\ DOMAIN h = 1 .. Len(h) /\ \A i \in 1 .. Len(h) : h[i] \in Message
    BY LenProperties, ElementOfSeq
<1>2. ASSUME NEW i \in 1 .. Len(h)
      PROVE  /\ Kept(h)[i] \in Message
             /\ Kept(h)[i].role = h[i].role /\ Kept(h)[i].text = h[i].text
             /\ Kept(h)[i].uses = Only(h[i].uses, Paired(h))
             /\ Kept(h)[i].results = Only(h[i].results, Paired(h))
  <2>1. h[i].uses \in Seq(Ids) /\ h[i].results \in Seq(Ids) /\ h[i] \in Message
      BY <1>1 DEF Message
  <2> DEFINE u == Only(h[i].uses, Paired(h))
             r == Only(h[i].results, Paired(h))
  <2>2. u \in Seq(Ids) /\ r \in Seq(Ids)
      BY <2>1, OnlyIs
  <2>3. Kept(h)[i] = [h[i] EXCEPT !.uses = u, !.results = r]
      BY <1>1 DEF Kept
  <2> HIDE DEF u, r
  <2>4. /\ Kept(h)[i] \in Message
        /\ Kept(h)[i].role = h[i].role /\ Kept(h)[i].text = h[i].text
        /\ Kept(h)[i].uses = u /\ Kept(h)[i].results = r
      BY <2>1, <2>2, <2>3 DEF Message
  <2> QED BY <2>4 DEF u, r
<1>3. DOMAIN Kept(h) = 1 .. Len(h)
    BY <1>1 DEF Kept
<1>4. Kept(h) \in [1 .. Len(h) -> Message]
  <2>1. Kept(h) = [i \in 1 .. Len(h) |-> Kept(h)[i]]
      BY <1>1 DEF Kept
  <2> QED BY <1>2, <2>1
<1>5. Kept(h) \in Seq(Message) /\ Len(Kept(h)) = Len(h)
    BY <1>1, <1>4, SeqDef, LenProperties
<1> QED BY <1>1, <1>2, <1>5

\* sanitize_tool_pairs, for any history: what is left has a call for every result and
\* a result for every call, and loses none that had both.
THEOREM SanitizedArePaired ==
    ASSUME NEW h \in Seq(Message)
    PROVE  /\ UseIds(SanitizeToolPairs(h)) = UseIds(h) \cap ResultIds(h)
           /\ ResultIds(SanitizeToolPairs(h)) = UseIds(h) \cap ResultIds(h)
<1> DEFINE g == Kept(h)
           t == SanitizeToolPairs(h)
           keep == Filled(g)
<1>1. /\ g \in Seq(Message) /\ Len(g) = Len(h) /\ Len(h) \in Nat /\ DOMAIN h = 1 .. Len(h)
      /\ DOMAIN g = 1 .. Len(h)
    BY KeptIs, LenProperties
<1>2. \A i \in 1 .. Len(h) :
          /\ Range(g[i].uses) = Range(h[i].uses) \cap Paired(h)
          /\ Range(g[i].results) = Range(h[i].results) \cap Paired(h)
  <2> TAKE i \in 1 .. Len(h)
  <2>1. h[i].uses \in Seq(Ids) /\ h[i].results \in Seq(Ids)
      BY KeptIs DEF Message
  <2>2. g[i].uses = Only(h[i].uses, Paired(h)) /\ g[i].results = Only(h[i].results, Paired(h))
      BY KeptIs
  <2> QED BY <2>1, <2>2, OnlyIs
<1>3. keep \in SUBSET (1 .. Len(g))
    BY <1>1 DEF Filled
<1>4. t \in Seq(Message) /\ Range(t) = {g[i] : i \in keep}
    BY <1>1, <1>3, SanitizeIs, FilterIs, FilterRange
<1>5. \A i \in 1 .. Len(h) : Range(g[i].uses) # {} \/ Range(g[i].results) # {} => i \in keep
  <2> SUFFICES ASSUME NEW i \in 1 .. Len(h), g[i].uses = <<>>, g[i].results = <<>>
               PROVE  Range(g[i].uses) = {} /\ Range(g[i].results) = {}
      BY <1>1 DEF Filled, HasContent
  <2> QED BY DEF Range
<1> HIDE DEF g, t, keep
<1>6. UseIds(t) = UNION {Range(m.uses) : m \in Range(t)}
      /\ ResultIds(t) = UNION {Range(m.results) : m \in Range(t)}
    BY DEF UseIds, ResultIds, Range
<1>7. UseIds(h) = UNION {Range(h[i].uses) : i \in 1 .. Len(h)}
      /\ ResultIds(h) = UNION {Range(h[i].results) : i \in 1 .. Len(h)}
    BY <1>1 DEF UseIds, ResultIds
<1>8. UseIds(t) = UNION {Range(g[i].uses) : i \in keep}
      /\ ResultIds(t) = UNION {Range(g[i].results) : i \in keep}
    BY <1>4, <1>6
<1>9. ASSUME NEW x
      PROVE  /\ x \in UseIds(t) <=> \E i \in 1 .. Len(h) : x \in Range(g[i].uses)
             /\ x \in ResultIds(t) <=> \E i \in 1 .. Len(h) : x \in Range(g[i].results)
  <2>1. \A i \in keep : i \in 1 .. Len(h)
      BY <1>1, <1>3
  <2>2. ASSUME NEW i \in 1 .. Len(h), x \in Range(g[i].uses) \cup Range(g[i].results)
        PROVE  i \in keep
      BY <1>5, <2>2
  <2>3. /\ x \in UseIds(t) <=> \E i \in keep : x \in Range(g[i].uses)
        /\ x \in ResultIds(t) <=> \E i \in keep : x \in Range(g[i].results)
      BY <1>8
  <2> QED BY <2>1, <2>2, <2>3
<1>10. UseIds(t) = Paired(h) /\ ResultIds(t) = Paired(h)
  <2>1. \A x : x \in UseIds(t) <=>
            \E i \in 1 .. Len(h) : x \in Range(h[i].uses) /\ x \in Paired(h)
      BY <1>2, <1>9
  <2>2. \A x : x \in ResultIds(t) <=>
            \E i \in 1 .. Len(h) : x \in Range(h[i].results) /\ x \in Paired(h)
      BY <1>2, <1>9
  <2>3. \A x \in Paired(h) : /\ \E i \in 1 .. Len(h) : x \in Range(h[i].uses)
                             /\ \E i \in 1 .. Len(h) : x \in Range(h[i].results)
      BY <1>7 DEF Paired
  <2> QED BY <2>1, <2>2, <2>3
<1> QED BY <1>10 DEF t, Paired

----------------------------------------------------------------------------
(* Conversations, and what compacting them leaves.                         *)

\* The conversation in h after n system messages is one that a provider accepts, and
\* only an assistant's message may be without content.
ConvAt(h, n, i) ==
    /\ h[i].results # <<>> =>
          i > n + 1 /\ Range(h[i].results) \subseteq Range(h[i - 1].uses)
    /\ h[i].uses # <<>> =>
          i < Len(h) /\ Range(h[i].uses) \subseteq Range(h[i + 1].results)
    /\ i > n + 1 /\ h[i].role = "assistant" => h[i - 1].role # "assistant"
    /\ ~HasContent(h[i]) => h[i].role = "assistant"
Conv(h, n) ==
    /\ h \in Seq(Message) /\ n \in 0 .. Len(h) - 1
    /\ \A i \in 1 .. n : h[i].role = "system"
    /\ IsClean(h[n + 1])
    /\ \A i \in n + 1 .. Len(h) : ConvAt(h, n, i)

\* It is the operator's or the tools' turn that was last.
Asks(h) == h[Len(h)].role # "assistant"

LEMMA ConvLeads ==
    ASSUME NEW h, NEW n, Conv(h, n)
    PROVE  /\ LeadingSystems(h) = SubSeq(h, 1, n) /\ Len(SubSeq(h, 1, n)) = n
           /\ Body(h) = SubSeq(h, n + 1, Len(h))
           /\ Body(h) \in Seq(Message) /\ Len(Body(h)) = Len(h) - n
           /\ \A i \in 1 .. Len(h) - n : Body(h)[i] = h[n + i]
<1>0. h \in Seq(Message) /\ Len(h) \in Nat /\ n \in Nat /\ n < Len(h)
      /\ \A i \in 1 .. Len(h) : h[i] \in Message
    BY LenProperties, ElementOfSeq DEF Conv
<1> DEFINE S == {i \in 0 .. Len(h) : i = Len(h) \/ h[i + 1].role # "system"}
<1>1. n \in S
    BY <1>0 DEF Conv, IsClean
<1>2. \A i \in S : n <= i
  <2> SUFFICES ASSUME NEW i \in 0 .. Len(h), i < n PROVE i # Len(h) /\ h[i + 1].role = "system"
      BY <1>0
  <2>1. i + 1 \in 1 .. n
      BY <1>0
  <2> QED BY <1>0, <2>1 DEF Conv
<1>3. Min(S) = n
  <2>1. \A i \in S : i \in Int
      OBVIOUS
  <2> HIDE DEF S
  <2>2. \A x \in S : (\A y \in S : x <= y) => x = n
      BY <1>0, <1>1, <1>2, <2>1
  <2> QED BY <1>1, <1>2, <2>2 DEF Min
<1>4. LeadingSystems(h) = SubSeq(h, 1, n)
    BY <1>3 DEF LeadingSystems
<1>5. /\ SubSeq(h, 1, n) \in Seq(Message) /\ Len(SubSeq(h, 1, n)) = n
  <2>1. 1 \in Int /\ n \in Int /\ \A i \in 1 .. n : h[i] \in Message
      BY <1>0
  <2>2. /\ SubSeq(h, 1, n) \in Seq(Message)
        /\ Len(SubSeq(h, 1, n)) = IF 1 <= n THEN n - 1 + 1 ELSE 0
      BY <2>1, SubSeqProperties
  <2> QED BY <1>0, <2>2
<1>6. Body(h) = SubSeq(h, n + 1, Len(h))
    BY <1>4, <1>5 DEF Body
<1>7. /\ SubSeq(h, n + 1, Len(h)) \in Seq(Message)
      /\ Len(SubSeq(h, n + 1, Len(h))) = Len(h) - n
      /\ \A i \in 1 .. Len(h) - n : SubSeq(h, n + 1, Len(h))[i] = h[n + i]
  <2>1. n + 1 \in Int /\ Len(h) \in Int /\ \A i \in n + 1 .. Len(h) : h[i] \in Message
      BY <1>0
  <2>2. /\ SubSeq(h, n + 1, Len(h)) \in Seq(Message)
        /\ Len(SubSeq(h, n + 1, Len(h))) = IF n + 1 <= Len(h) THEN Len(h) - (n + 1) + 1 ELSE 0
        /\ \A i \in 1 .. Len(h) - (n + 1) + 1 : SubSeq(h, n + 1, Len(h))[i] = h[(n + 1) + i - 1]
      BY <2>1, SubSeqProperties
  <2>3. n + 1 <= Len(h) /\ Len(h) - (n + 1) + 1 = Len(h) - n
        /\ \A i \in 1 .. Len(h) - n : (n + 1) + i - 1 = n + i
      BY <1>0
  <2> QED BY <2>2, <2>3
<1> QED BY <1>4, <1>5, <1>6, <1>7

LEMMA ConvWellFormed ==
    ASSUME NEW h, NEW n, Conv(h, n)
    PROVE  WellFormed(h)
<1> DEFINE b == Body(h)
<1>0. h \in Seq(Message) /\ Len(h) \in Nat /\ n \in Nat /\ n < Len(h)
    BY LenProperties DEF Conv
<1>1. /\ b \in Seq(Message) /\ Len(b) = Len(h) - n /\ Len(b) \in Nat \ {0} /\ DOMAIN b = 1 .. Len(b)
      /\ \A i \in 1 .. Len(b) : b[i] = h[n + i]
    BY <1>0, ConvLeads, LenProperties
<1>2. b # <<>> /\ IsClean(b[1])
  <2>1. b[1] = h[n + 1]
      BY <1>1
  <2>2. b # <<>>
      BY <1>1
  <2> QED BY <2>1, <2>2 DEF Conv
<1> HIDE DEF b
<1>3. ASSUME NEW i \in DOMAIN b
      PROVE  /\ b[i].results # <<>> =>
                   i > 1 /\ Range(b[i].results) \subseteq Range(b[i - 1].uses)
             /\ b[i].uses # <<>> =>
                   /\ i < Len(b)
                   /\ Range(b[i].uses) \subseteq Range(b[i + 1].results)
             /\ i > 1 /\ b[i].role = "assistant" => b[i - 1].role # "assistant"
  <2>0. i \in 1 .. Len(b) /\ Len(b) \in Nat /\ n \in Nat
      BY <1>0, <1>1
  <2>1. /\ i \in Int /\ n + i \in n + 1 .. Len(h) /\ b[i] = h[n + i]
        /\ n + i > n + 1 <=> i > 1
        /\ n + i < Len(h) <=> i < Len(b)
      BY <1>0, <1>1
  <2>2. i > 1 => b[i - 1] = h[(n + i) - 1]
    <3> SUFFICES ASSUME i > 1 PROVE b[i - 1] = h[(n + i) - 1]
        OBVIOUS
    <3>1. i - 1 \in 1 .. Len(b) /\ n + (i - 1) = (n + i) - 1
        BY <2>0
    <3> QED BY <1>1, <3>1
  <2>3. i < Len(b) => b[i + 1] = h[(n + i) + 1]
    <3> SUFFICES ASSUME i < Len(b) PROVE b[i + 1] = h[(n + i) + 1]
        OBVIOUS
    <3>1. i + 1 \in 1 .. Len(b) /\ n + (i + 1) = (n + i) + 1
        BY <2>0
    <3> QED BY <1>1, <3>1
  <2>4. ConvAt(h, n, n + i)
      BY <2>1 DEF Conv
  <2> QED BY <2>1, <2>2, <2>3, <2>4 DEF ConvAt
<1>4. WellFormed(h)
    BY <1>2, <1>3 DEF WellFormed, b
<1> QED BY <1>4

\* Positions next to each other that are both kept stay next to each other.
LEMMA Neighbours ==
    ASSUME NEW n \in Nat, NEW keep \in SUBSET (1 .. n), NEW k \in 1 .. Cardinality(keep)
    PROVE  /\ Nth(keep, k) \in 1 .. n
           /\ Nth(keep, k) + 1 \in keep =>
                 k + 1 \in 1 .. Cardinality(keep) /\ Nth(keep, k + 1) = Nth(keep, k) + 1
           /\ Nth(keep, k) - 1 \in keep =>
                 k - 1 \in 1 .. Cardinality(keep) /\ Nth(keep, k - 1) = Nth(keep, k) - 1
<1> DEFINE m == Cardinality(keep)
           p == [l \in 1 .. m |-> Nth(keep, l)]
<1>1. /\ m \in Nat
      /\ \A l \in 1 .. m : p[l] \in keep
      /\ \A i \in keep : \E l \in 1 .. m : i = p[l]
      /\ \A j, l \in 1 .. m : j < l => p[j] < p[l]
    BY NthOrder
<1>2. \A l \in 1 .. m : p[l] \in 1 .. n /\ p[l] \in Int
  <2>1. \A i \in keep : i \in 1 .. n /\ i \in Int
      OBVIOUS
  <2> HIDE DEF p, m
  <2> QED BY <1>1, <2>1
<1>3. p[k] + 1 \in keep => k + 1 \in 1 .. m /\ p[k + 1] = p[k] + 1
  <2> SUFFICES ASSUME p[k] + 1 \in keep PROVE k + 1 \in 1 .. m /\ p[k + 1] = p[k] + 1
      OBVIOUS
  <2> HIDE DEF p, m
  <2>1. PICK l \in 1 .. m : p[l] = p[k] + 1
      BY <1>1
  <2>2. k \in 1 .. m /\ k \in Int /\ l \in Int
      BY <1>1 DEF m
  <2>3. l > k
      BY <1>1, <1>2, <2>1, <2>2
  <2>4. k + 1 \in 1 .. m
      BY <1>1, <2>2, <2>3
  <2>5. ~(k + 1 < l)
      BY <1>1, <1>2, <2>1, <2>2, <2>4
  <2>6. l = k + 1
      BY <2>2, <2>3, <2>5
  <2> QED BY <2>1, <2>4, <2>6
<1>4. p[k] - 1 \in keep => k - 1 \in 1 .. m /\ p[k - 1] = p[k] - 1
  <2> SUFFICES ASSUME p[k] - 1 \in keep PROVE k - 1 \in 1 .. m /\ p[k - 1] = p[k] - 1
      OBVIOUS
  <2> HIDE DEF p, m
  <2>1. PICK l \in 1 .. m : p[l] = p[k] - 1
      BY <1>1
  <2>2. k \in 1 .. m /\ k \in Int /\ l \in Int
      BY <1>1 DEF m
  <2>3. l < k
      BY <1>1, <1>2, <2>1, <2>2
  <2>4. k - 1 \in 1 .. m
      BY <1>1, <2>2, <2>3
  <2>5. ~(l < k - 1)
      BY <1>1, <1>2, <2>1, <2>2, <2>4
  <2>6. l = k - 1
      BY <2>2, <2>3, <2>5
  <2> QED BY <2>1, <2>4, <2>6
<1> QED BY <1>2, <1>3, <1>4

\* A sequence of ids covered by an empty one is empty.
LEMMA Uncovered ==
    ASSUME NEW s \in Seq(Ids), NEW t \in Seq(Ids), s # <<>>, Range(s) \subseteq Range(t)
    PROVE  t # <<>>
<1>1. Len(s) \in Nat \ {0} /\ DOMAIN s = 1 .. Len(s)
    BY LenProperties, EmptySeq
<1>2. s[1] \in Range(s)
    BY <1>1 DEF Range
<1> QED BY <1>2 DEF Range

\* In such a conversation every call has its result: nothing is taken out of a message.
LEMMA ConvIsPaired ==
    ASSUME NEW h, Conv(h, 0)
    PROVE  Kept(h) = h
<1>0. /\ h \in Seq(Message) /\ Len(h) \in Nat /\ DOMAIN h = 1 .. Len(h)
      /\ \A i \in 1 .. Len(h) : ConvAt(h, 0, i)
    BY LenProperties DEF Conv
<1>1. ASSUME NEW i \in 1 .. Len(h)
      PROVE  Range(h[i].uses) \subseteq Paired(h) /\ Range(h[i].results) \subseteq Paired(h)
  <2>1. i \in Int /\ ConvAt(h, 0, i)
      BY <1>0
  <2>2. Range(h[i].uses) \subseteq UseIds(h) /\ Range(h[i].results) \subseteq ResultIds(h)
      BY <1>0 DEF UseIds, ResultIds
  <2>3. Range(h[i].uses) \subseteq ResultIds(h)
    <3>1. CASE h[i].uses = <<>>
        BY <3>1 DEF Range
    <3>2. CASE h[i].uses # <<>>
      <4>1. i + 1 \in DOMAIN h /\ Range(h[i].uses) \subseteq Range(h[i + 1].results)
          BY <1>0, <2>1, <3>2 DEF ConvAt
      <4> QED BY <4>1 DEF ResultIds
    <3> QED BY <3>1, <3>2
  <2>4. Range(h[i].results) \subseteq UseIds(h)
    <3>1. CASE h[i].results = <<>>
        BY <3>1 DEF Range
    <3>2. CASE h[i].results # <<>>
      <4>1. i - 1 \in DOMAIN h /\ Range(h[i].results) \subseteq Range(h[i - 1].uses)
          BY <1>0, <2>1, <3>2 DEF ConvAt
      <4> QED BY <4>1 DEF UseIds
    <3> QED BY <3>1, <3>2
  <2> QED BY <2>2, <2>3, <2>4 DEF Paired
<1>2. ASSUME NEW i \in 1 .. Len(h) PROVE Kept(h)[i] = h[i]
  <2>1. h[i] \in Message /\ h[i].uses \in Seq(Ids) /\ h[i].results \in Seq(Ids)
      BY <1>0, KeptIs DEF Message
  <2>2. Only(h[i].uses, Paired(h)) = h[i].uses /\ Only(h[i].results, Paired(h)) = h[i].results
      BY <1>1, <2>1, OnlyIs
  <2>3. Kept(h)[i] = [h[i] EXCEPT !.uses = h[i].uses, !.results = h[i].results]
      BY <1>0, <2>2 DEF Kept
  <2> QED BY <2>1, <2>3 DEF Message
<1>3. Kept(h) \in Seq(Message) /\ Len(Kept(h)) = Len(h)
    BY <1>0, KeptIs
<1> QED BY <1>0, <1>2, <1>3, SeqEqual

\* Sanitizing such a conversation drops empty answers and nothing else.
LEMMA SanitizeConv ==
    ASSUME NEW h, Conv(h, 0)
    PROVE  /\ Conv(SanitizeToolPairs(h), 0)
           /\ Asks(h) => Asks(SanitizeToolPairs(h))
<1> DEFINE keep == Filled(h)
           t == SanitizeToolPairs(h)
           m == Cardinality(keep)
           p == [k \in 1 .. m |-> Nth(keep, k)]
<1>0. /\ h \in Seq(Message) /\ Len(h) \in Nat \ {0} /\ DOMAIN h = 1 .. Len(h)
      /\ \A i \in 1 .. Len(h) : ConvAt(h, 0, i) /\ h[i] \in Message
      /\ IsClean(h[1])
    BY LenProperties, ElementOfSeq DEF Conv
<1>1. t = Filter(h, keep) /\ keep \in SUBSET (1 .. Len(h))
    BY <1>0, SanitizeIs, ConvIsPaired DEF Filled
<1>2. t \in Seq(Message) /\ Len(t) = m /\ m \in Nat /\ \A k \in 1 .. m : t[k] = h[p[k]]
    BY <1>0, <1>1, FilterIs
<1>3. /\ \A k \in 1 .. m : p[k] \in keep
      /\ \A i \in keep : \E k \in 1 .. m : i = p[k]
      /\ \A k, l \in 1 .. m : k < l => p[k] < p[l]
    BY <1>0, <1>1, NthOrder
<1>4. \A k \in 1 .. m : /\ p[k] + 1 \in keep => k + 1 \in 1 .. m /\ p[k + 1] = p[k] + 1
                        /\ p[k] - 1 \in keep => k - 1 \in 1 .. m /\ p[k - 1] = p[k] - 1
    BY <1>0, <1>1, Neighbours
<1>5. \A i \in 1 .. Len(h) : i \in keep <=> HasContent(h[i])
    BY <1>0 DEF Filled
<1>6. \A i \in keep : i \in 1 .. Len(h) /\ i \in Int
    BY <1>1
<1> HIDE DEF t, keep, m, p
<1>7. m > 0 /\ p[1] = 1
  <2>1. 1 \in 1 .. Len(h) /\ h[1].role = "user" /\ ConvAt(h, 0, 1)
      BY <1>0 DEF IsClean
  <2>2. 1 \in keep
      BY <1>5, <2>1 DEF ConvAt
  <2>3. PICK k \in 1 .. m : p[k] = 1
      BY <1>3, <2>2
  <2>4. 1 \in 1 .. m /\ p[1] \in keep
      BY <1>2, <1>3, <2>3
  <2>5. p[1] >= 1
      BY <1>6, <2>4
  <2>6. ~(1 < k)
      BY <1>3, <1>6, <2>3, <2>4, <2>5
  <2>7. k = 1
      BY <1>2, <2>6
  <2> QED BY <1>2, <2>3, <2>4, <2>7
<1>8. ASSUME NEW k \in 1 .. m PROVE ConvAt(t, 0, k)
  <2> DEFINE i == p[k]
  <2>1. /\ i \in keep /\ i \in 1 .. Len(h) /\ i \in Int /\ k \in Int /\ t[k] = h[i]
        /\ HasContent(h[i]) /\ ConvAt(h, 0, i) /\ h[i] \in Message
      BY <1>0, <1>2, <1>3, <1>5, <1>6
  <2>2. /\ i + 1 \in keep => k + 1 \in 1 .. m /\ p[k + 1] = i + 1
        /\ i - 1 \in keep => k - 1 \in 1 .. m /\ p[k - 1] = i - 1
      BY <1>4
  <2>3. /\ i + 1 \in keep => k < m /\ t[k + 1] = h[i + 1]
        /\ i - 1 \in keep => k > 1 /\ t[k - 1] = h[i - 1]
    <3> HIDE DEF i
    <3> QED BY <1>2, <2>1, <2>2
  <2>4. k > 1 => i > 1
      BY <1>2, <1>3, <1>7, <2>1
  <2> HIDE DEF i
  <2>5. ASSUME t[k].results # <<>>
        PROVE  k > 1 /\ Range(t[k].results) \subseteq Range(t[k - 1].uses)
    <3>1. i > 0 + 1 /\ Range(h[i].results) \subseteq Range(h[i - 1].uses) /\ h[i].results # <<>>
        BY <2>1, <2>5 DEF ConvAt
    <3>2. i - 1 \in 1 .. Len(h)
        BY <2>1, <3>1
    <3>3. h[i].results \in Seq(Ids) /\ h[i - 1].uses \in Seq(Ids)
        BY <1>0, <2>1, <3>2 DEF Message
    <3>4. h[i - 1].uses # <<>>
        BY <3>1, <3>3, Uncovered
    <3>5. i - 1 \in keep
        BY <1>5, <3>2, <3>4 DEF HasContent
    <3> QED BY <2>1, <2>3, <3>1, <3>5
  <2>6. ASSUME t[k].uses # <<>>
        PROVE  k < m /\ Range(t[k].uses) \subseteq Range(t[k + 1].results)
    <3>1. i < Len(h) /\ Range(h[i].uses) \subseteq Range(h[i + 1].results) /\ h[i].uses # <<>>
        BY <2>1, <2>6 DEF ConvAt
    <3>2. i + 1 \in 1 .. Len(h)
        BY <1>0, <2>1, <3>1
    <3>3. h[i].uses \in Seq(Ids) /\ h[i + 1].results \in Seq(Ids)
        BY <1>0, <2>1, <3>2 DEF Message
    <3>4. h[i + 1].results # <<>>
        BY <3>1, <3>3, Uncovered
    <3>5. i + 1 \in keep
        BY <1>5, <3>2, <3>4 DEF HasContent
    <3> QED BY <2>1, <2>3, <3>1, <3>5
  <2>7. ASSUME k > 1, t[k].role = "assistant"
        PROVE  t[k - 1].role # "assistant"
    <3>1. i > 0 + 1 /\ h[i - 1].role # "assistant" /\ i - 1 \in 1 .. Len(h)
        BY <2>1, <2>4, <2>7 DEF ConvAt
    <3>2. ConvAt(h, 0, i - 1)
        BY <1>0, <3>1
    <3>3. i - 1 \in keep
        BY <1>5, <3>1, <3>2 DEF ConvAt
    <3> QED BY <2>3, <3>1, <3>3
  <2>8. k > 1 <=> k > 0 + 1
      BY <2>1
  <2> QED BY <1>2, <2>1, <2>5, <2>6, <2>7, <2>8 DEF ConvAt
<1>9. Conv(t, 0)
  <2>1. t[1] = h[1] /\ 0 + 1 = 1 /\ 0 \in 0 .. Len(t) - 1
      BY <1>2, <1>7
  <2>2. \A i \in 0 + 1 .. Len(t) : ConvAt(t, 0, i)
      BY <1>2, <1>8
  <2> QED BY <1>0, <1>2, <2>1, <2>2 DEF Conv
<1>10. ASSUME Asks(h) PROVE Asks(t)
  <2>1. Len(h) \in 1 .. Len(h)
      BY <1>0
  <2>2. Len(h) \in keep
      BY <1>0, <1>5, <1>10, <2>1 DEF ConvAt, Asks
  <2>3. PICK k \in 1 .. m : p[k] = Len(h)
      BY <1>3, <2>2
  <2>4. m \in 1 .. m /\ p[m] \in keep
      BY <1>2, <1>3, <2>3
  <2>5. p[m] <= Len(h)
      BY <1>0, <1>6, <2>4
  <2>6. ~(k < m)
      BY <1>0, <1>3, <1>6, <2>3, <2>4, <2>5
  <2>7. k = m
      BY <1>2, <2>6
  <2> QED BY <1>2, <1>10, <2>3, <2>4, <2>7 DEF Asks
<1> QED BY <1>9, <1>10 DEF t

LEMMA LeastOf ==
    ASSUME NEW S, S \subseteq Nat, S # {}
    PROVE  \E i \in S : \A j \in S : i <= j
<1>1. PICK x \in S : \A y \in S : ~(<<y, x>> \in OpToRel(<, Nat))
    BY NatLessThanWellFounded, WFMin
<1>2. \A y \in S : ~(y < x)
    BY <1>1 DEF OpToRel
<1> QED BY <1>2

LEMMA MinMaxIn ==
    ASSUME NEW n \in Nat, NEW S \in SUBSET (0 .. n), S # {}
    PROVE  Min(S) \in S /\ Max(S) \in S
<1>1. Min(S) \in S
  <2>1. S \subseteq Nat
      OBVIOUS
  <2> QED BY <2>1, LeastOf DEF Min
<1>2. Max(S) \in S
  <2> DEFINE T == {n - i : i \in S}
  <2>1. T \subseteq Nat /\ T # {}
    <3>1. \A i \in S : n - i \in Nat
        OBVIOUS
    <3> QED BY <3>1
  <2>2. PICK j \in T : \A l \in T : j <= l
      BY <2>1, LeastOf
  <2>3. PICK i \in S : j = n - i
      OBVIOUS
  <2>4. \A l \in S : n - i <= n - l
      BY <2>2, <2>3
  <2>5. \A l \in S : i >= l
    <3>1. \A l \in S : l \in Int
        OBVIOUS
    <3> QED BY <2>4, <3>1
  <2> QED BY <2>5 DEF Max
<1> QED BY <1>1, <1>2

\* The retained window opens at a genuine user turn.
LEMMA TailStartsClean ==
    ASSUME NEW h, NEW n, Conv(h, n), NEW d \in Nat
    PROVE  /\ CleanTailStart(Body(h), d) \in 0 .. Len(h) - n - 1
           /\ IsClean(h[n + CleanTailStart(Body(h), d) + 1])
<1> DEFINE b == Body(h)
           ideal == IF Len(b) <= d THEN 0 ELSE Len(b) - d
           clean == {i \in 0 .. Len(b) - 1 : IsClean(b[i + 1])}
           after == {i \in clean : i >= ideal}
           before == {i \in clean : i < ideal}
           start == CleanTailStart(b, d)
<1>0. h \in Seq(Message) /\ Len(h) \in Nat /\ n \in Nat /\ n < Len(h)
    BY LenProperties DEF Conv
<1>1. /\ Len(b) = Len(h) - n /\ Len(b) - 1 \in Nat /\ ideal \in Nat
      /\ \A i \in 1 .. Len(h) - n : b[i] = h[n + i]
  <2>1. Len(b) = Len(h) - n /\ \A i \in 1 .. Len(h) - n : b[i] = h[n + i]
      BY <1>0, ConvLeads
  <2> HIDE DEF b
  <2>2. Len(b) - 1 \in Nat /\ Len(b) \in Nat
      BY <1>0, <2>1
  <2>3. ideal \in Nat
      BY <2>2
  <2> QED BY <2>1, <2>2, <2>3
<1>2. 0 \in clean
  <2>1. b[0 + 1] = h[n + 1] /\ 0 \in 0 .. Len(b) - 1
    <3> HIDE DEF b
    <3> QED BY <1>0, <1>1
  <2> QED BY <2>1 DEF Conv
<1>3. start = IF after # {} THEN Min(after) ELSE IF before # {} THEN Max(before) ELSE 0
    BY DEF CleanTailStart
<1>4. after \in SUBSET (0 .. Len(b) - 1) /\ before \in SUBSET (0 .. Len(b) - 1)
    OBVIOUS
<1>5. start \in clean
  <2>1. after # {} => Min(after) \in after
      BY <1>1, <1>4, MinMaxIn
  <2>2. before # {} => Max(before) \in before
      BY <1>1, <1>4, MinMaxIn
  <2> HIDE DEF start
  <2> QED BY <1>2, <1>3, <2>1, <2>2
<1>6. start \in 0 .. Len(b) - 1 /\ IsClean(b[start + 1])
  <2> HIDE DEF start
  <2> QED BY <1>5
<1> HIDE DEF start, b
<1>7. start + 1 \in 1 .. Len(h) - n /\ n + (start + 1) = n + start + 1
    BY <1>0, <1>1, <1>6
<1>8. start \in 0 .. Len(h) - n - 1 /\ IsClean(h[n + start + 1])
    BY <1>0, <1>1, <1>6, <1>7
<1> QED BY <1>8 DEF start, b

\* The conversation from a genuine user turn on.
LEMMA TailConv ==
    ASSUME NEW h, NEW n, Conv(h, n), NEW s \in 0 .. Len(h) - n - 1, IsClean(h[n + s + 1])
    PROVE  /\ Conv(SubSeq(Body(h), s + 1, Len(Body(h))), 0)
           /\ Asks(h) => Asks(SubSeq(Body(h), s + 1, Len(Body(h))))
<1> DEFINE b == Body(h)
           t == SubSeq(b, s + 1, Len(b))
<1>0. h \in Seq(Message) /\ Len(h) \in Nat /\ n \in Nat /\ n < Len(h) /\ s \in Nat
    BY LenProperties DEF Conv
<1>1. /\ b \in Seq(Message) /\ Len(b) = Len(h) - n
      /\ \A i \in 1 .. Len(h) - n : b[i] = h[n + i]
    BY <1>0, ConvLeads
<1> HIDE DEF b
<1>2. /\ t \in Seq(Message) /\ Len(t) = Len(b) - s
      /\ \A i \in 1 .. Len(b) - s : t[i] = b[s + i]
  <2>1. s + 1 \in Int /\ Len(b) \in Int /\ \A i \in s + 1 .. Len(b) : b[i] \in Message
    <3>1. \A i \in 1 .. Len(b) : b[i] \in Message
        BY <1>1, ElementOfSeq
    <3> QED BY <1>0, <1>1, <3>1
  <2>2. /\ t \in Seq(Message)
        /\ Len(t) = IF s + 1 <= Len(b) THEN Len(b) - (s + 1) + 1 ELSE 0
        /\ \A i \in 1 .. Len(b) - (s + 1) + 1 : t[i] = b[(s + 1) + i - 1]
      BY <2>1, SubSeqProperties
  <2>3. s + 1 <= Len(b) /\ Len(b) - (s + 1) + 1 = Len(b) - s
        /\ \A i \in 1 .. Len(b) - s : (s + 1) + i - 1 = s + i
      BY <1>0, <1>1
  <2> QED BY <2>2, <2>3
<1> HIDE DEF t
<1> DEFINE o == n + s
<1>3. o \in Nat /\ o < Len(h) /\ Len(t) = Len(h) - o /\ Len(t) \in Nat \ {0}
    BY <1>0, <1>1, <1>2
<1>4. \A i \in 1 .. Len(t) : t[i] = h[o + i]
  <2> TAKE i \in 1 .. Len(t)
  <2>1. i \in 1 .. Len(b) - s /\ s + i \in 1 .. Len(h) - n /\ n + (s + i) = o + i
      BY <1>0, <1>1, <1>2
  <2>2. t[i] = b[s + i] /\ b[s + i] = h[n + (s + i)]
      BY <1>1, <1>2, <2>1
  <2> QED BY <2>1, <2>2
<1>5. n <= o
    BY <1>0
<1>6. IsClean(h[o + 1])
    OBVIOUS
<1> HIDE DEF o
<1>7. IsClean(t[1])
    BY <1>3, <1>4, <1>6
<1>8. ASSUME NEW i \in 1 .. Len(t) PROVE ConvAt(t, 0, i)
  <2>1. /\ i \in Int /\ o + i \in n + 1 .. Len(h) /\ t[i] = h[o + i]
        /\ i > 0 + 1 => o + i > n + 1
        /\ o + i < Len(h) <=> i < Len(t)
    <3>1. i \in Int /\ 1 <= i /\ i <= Len(t) /\ t[i] = h[o + i]
        BY <1>3, <1>4
    <3>2. o + i \in n + 1 .. Len(h) /\ (i > 0 + 1 => o + i > n + 1)
        BY <1>0, <1>3, <1>5, <3>1
    <3>3. o + i < Len(h) <=> i < Len(t)
        BY <1>0, <1>3, <3>1
    <3> QED BY <3>1, <3>2, <3>3
  <2>2. i > 1 => t[i - 1] = h[(o + i) - 1]
    <3> SUFFICES ASSUME i > 1 PROVE t[i - 1] = h[(o + i) - 1]
        OBVIOUS
    <3>1. i - 1 \in 1 .. Len(t) /\ o + (i - 1) = (o + i) - 1
        BY <1>3, <2>1
    <3> QED BY <1>4, <3>1
  <2>3. i < Len(t) => t[i + 1] = h[(o + i) + 1]
    <3> SUFFICES ASSUME i < Len(t) PROVE t[i + 1] = h[(o + i) + 1]
        OBVIOUS
    <3>1. i + 1 \in 1 .. Len(t) /\ o + (i + 1) = (o + i) + 1
        BY <1>3, <2>1
    <3> QED BY <1>4, <3>1
  <2>4. ConvAt(h, n, o + i)
      BY <2>1 DEF Conv
  <2>5. t[i].results # <<>> => i > 0 + 1
    <3>1. i = 1 \/ i > 0 + 1
        BY <1>3, <2>1
    <3> QED BY <1>7, <3>1 DEF IsClean
  <2>6. i > 0 + 1 <=> i > 1
      BY <2>1
  <2> QED BY <2>1, <2>2, <2>3, <2>4, <2>5, <2>6 DEF ConvAt
<1>9. Conv(t, 0)
  <2>1. 0 \in 0 .. Len(t) - 1 /\ 0 + 1 = 1
      BY <1>3
  <2> QED BY <1>2, <1>7, <1>8, <2>1 DEF Conv
<1>10. t[Len(t)] = h[Len(h)]
  <2>1. Len(t) \in 1 .. Len(t) /\ o + Len(t) = Len(h)
      BY <1>0, <1>3
  <2> QED BY <1>4, <2>1
<1> QED BY <1>9, <1>10 DEF Asks, t, b

\* Behind system messages it is the same conversation.
LEMMA PrefixConv ==
    ASSUME NEW sys \in Seq(Message), \A i \in 1 .. Len(sys) : sys[i].role = "system",
           NEW t, Conv(t, 0)
    PROVE  /\ Conv(sys \o t, Len(sys))
           /\ Asks(t) => Asks(sys \o t)
<1> DEFINE h == sys \o t
           n == Len(sys)
<1>0. t \in Seq(Message) /\ Len(t) \in Nat \ {0} /\ n \in Nat /\ IsClean(t[1])
      /\ \A i \in 1 .. Len(t) : ConvAt(t, 0, i)
    BY LenProperties DEF Conv
<1>1. /\ h \in Seq(Message) /\ Len(h) = n + Len(t)
      /\ \A i \in 1 .. n + Len(t) : h[i] = IF i <= n THEN sys[i] ELSE t[i - n]
    BY <1>0, ConcatProperties
<1> HIDE DEF h
<1>2. \A i \in 1 .. n : h[i] = sys[i]
    BY <1>0, <1>1
<1>3. \A i \in 1 .. Len(t) : h[n + i] = t[i]
  <2> TAKE i \in 1 .. Len(t)
  <2>1. n + i \in 1 .. n + Len(t) /\ ~(n + i <= n) /\ (n + i) - n = i
      BY <1>0
  <2> QED BY <1>1, <2>1
<1> HIDE DEF n
<1>4. ASSUME NEW j \in n + 1 .. Len(h) PROVE ConvAt(h, n, j)
  <2> DEFINE i == j - n
  <2>1. /\ i \in 1 .. Len(t) /\ i \in Int /\ j = n + i /\ n \in Int
        /\ j > n + 1 <=> i > 0 + 1
        /\ j < Len(h) <=> i < Len(t)
      BY <1>0, <1>1
  <2> HIDE DEF i
  <2>2. h[j] = t[i] /\ ConvAt(t, 0, i)
      BY <1>0, <1>3, <2>1
  <2>3. i > 0 + 1 => h[j - 1] = t[i - 1]
    <3> SUFFICES ASSUME i > 0 + 1 PROVE h[j - 1] = t[i - 1]
        OBVIOUS
    <3>1. i - 1 \in 1 .. Len(t) /\ n + (i - 1) = j - 1
        BY <1>0, <2>1
    <3> QED BY <1>3, <3>1
  <2>4. i < Len(t) => h[j + 1] = t[i + 1]
    <3> SUFFICES ASSUME i < Len(t) PROVE h[j + 1] = t[i + 1]
        OBVIOUS
    <3>1. i + 1 \in 1 .. Len(t) /\ n + (i + 1) = j + 1
        BY <1>0, <2>1
    <3> QED BY <1>3, <3>1
  <2> QED BY <2>1, <2>2, <2>3, <2>4 DEF ConvAt
<1>5. h[n + 1] = t[1] /\ h[Len(h)] = t[Len(t)] /\ n \in 0 .. Len(h) - 1
  <2>1. 1 \in 1 .. Len(t) /\ Len(t) \in 1 .. Len(t) /\ n + Len(t) = Len(h)
      BY <1>0, <1>1
  <2>2. n \in 0 .. Len(h) - 1
      BY <1>0, <1>1
  <2> QED BY <1>3, <2>1, <2>2
<1>6. \A i \in 1 .. n : h[i].role = "system"
    BY <1>2 DEF n
<1>7. Conv(h, n)
    BY <1>0, <1>1, <1>4, <1>5, <1>6 DEF Conv
<1> QED BY <1>5, <1>7 DEF Asks, h, n

\* A history that a request may be built from.
Ready(h) == Asks(h) /\ \E n \in Nat : Conv(h, n)

LEMMA CompactionReady ==
    ASSUME NEW h, Ready(h), NEW g \in Compactions(h)
    PROVE  Ready(g)
<1>1. PICK n \in Nat : Conv(h, n)
    BY DEF Ready
<1> DEFINE start == CleanTailStart(Body(h), 2 * KeepRecentTurns)
           sys == LeadingSystems(h)
           t == RetainedTail(Body(h), start)
           one == <<SystemText>>
<1>2. start \in 0 .. Len(h) - n - 1 /\ IsClean(h[n + start + 1])
  <2>1. 2 * KeepRecentTurns \in Nat
      BY KeepRecentTurnsAssumption
  <2> QED BY <1>1, <2>1, TailStartsClean
<1>3. Conv(t, 0) /\ Asks(t)
  <2> HIDE DEF start
  <2>1. /\ Conv(SubSeq(Body(h), start + 1, Len(Body(h))), 0)
        /\ Asks(SubSeq(Body(h), start + 1, Len(Body(h))))
      BY <1>1, <1>2, TailConv DEF Ready
  <2> QED BY <2>1, SanitizeConv DEF RetainedTail
<1>4. sys \in Seq(Message) /\ Len(sys) = n /\ \A i \in 1 .. Len(sys) : sys[i].role = "system"
  <2>0. h \in Seq(Message) /\ Len(h) \in Nat /\ n \in Nat /\ n < Len(h)
      BY <1>1, LenProperties DEF Conv
  <2>1. sys = SubSeq(h, 1, n) /\ Len(sys) = n
      BY <1>1, ConvLeads
  <2>2. 1 \in Int /\ n \in Int /\ \A i \in 1 .. n : h[i] \in Message
    <3>1. \A i \in 1 .. Len(h) : h[i] \in Message
        BY <2>0, ElementOfSeq
    <3> QED BY <2>0, <3>1
  <2>3. /\ SubSeq(h, 1, n) \in Seq(Message)
        /\ \A i \in 1 .. n - 1 + 1 : SubSeq(h, 1, n)[i] = h[1 + i - 1]
      BY <2>2, SubSeqProperties
  <2> HIDE DEF sys
  <2>4. \A i \in 1 .. n : sys[i] = h[i]
      BY <2>0, <2>1, <2>3
  <2> QED BY <1>1, <2>1, <2>3, <2>4 DEF Conv
<1>5. one \in Seq(Message) /\ Len(one) = 1 /\ one[1] = SystemText /\ SystemText \in Message
  <2>1. <<>> \in Seq(Ids)
      BY EmptySeq
  <2>2. SystemText \in Message
      BY <2>1 DEF SystemText, Message
  <2> QED BY <2>2
<1>6. /\ sys \o one \in Seq(Message) /\ Len(sys \o one) = n + 1
      /\ \A i \in 1 .. n + 1 : (sys \o one)[i].role = "system"
  <2> HIDE DEF sys, one
  <2>1. /\ sys \o one \in Seq(Message) /\ Len(sys \o one) = n + 1
        /\ \A i \in 1 .. n + 1 : (sys \o one)[i] = IF i <= n THEN sys[i] ELSE one[i - n]
    <3>1. n = Len(sys) /\ n + 1 = Len(sys) + Len(one)
        BY <1>4, <1>5
    <3>2. /\ sys \o one \in Seq(Message) /\ Len(sys \o one) = Len(sys) + Len(one)
          /\ \A i \in 1 .. Len(sys) + Len(one) :
                (sys \o one)[i] = IF i <= Len(sys) THEN sys[i] ELSE one[i - Len(sys)]
        BY <1>4, <1>5, ConcatProperties
    <3> QED BY <3>1, <3>2
  <2>2. \A i \in 1 .. n + 1 : (i <= n => i \in 1 .. n) /\ (~(i <= n) => i - n = 1)
      OBVIOUS
  <2>3. one[1].role = "system"
      BY <1>5 DEF SystemText
  <2> QED BY <1>4, <2>1, <2>2, <2>3
<1>7. Ready(sys \o t)
  <2> HIDE DEF sys, t
  <2> QED BY <1>3, <1>4, PrefixConv DEF Ready
<1>8. Ready((sys \o one) \o t)
  <2> HIDE DEF sys, t, one
  <2>1. n + 1 \in Nat
      OBVIOUS
  <2>2. Conv((sys \o one) \o t, n + 1) /\ Asks((sys \o one) \o t)
      BY <1>3, <1>6, PrefixConv
  <2> QED BY <2>1, <2>2 DEF Ready
<1>9. g = sys \o t \/ g = (sys \o one) \o t
  <2>1. sys \o <<>> = sys
      BY <1>4, ConcatEmptySeq
  <2>2. DropOldest(h) = sys \o t
      BY DEF DropOldest
  <2>3. Summarize(h) = (sys \o (IF start = 0 THEN <<>> ELSE one)) \o t
      BY DEF Summarize
  <2> HIDE DEF sys, t, one, start
  <2> QED BY <2>1, <2>2, <2>3 DEF Compactions
<1> QED BY <1>7, <1>8, <1>9

----------------------------------------------------------------------------
(* What a turn adds to the history.                                        *)

\* What was accepted stays accepted when messages are added behind it.
LEMMA ConvExtends ==
    ASSUME NEW h, NEW n, Conv(h, n), NEW g, Len(g) \in Nat, Len(g) >= Len(h),
           \A i \in 1 .. Len(h) : g[i] = h[i]
    PROVE  /\ \A i \in n + 1 .. Len(h) : ConvAt(g, n, i)
           /\ \A i \in 1 .. n : g[i].role = "system"
           /\ IsClean(g[n + 1]) /\ n \in 0 .. Len(g) - 1
<1>0. h \in Seq(Message) /\ Len(h) \in Nat /\ n \in Nat /\ n < Len(h)
    BY LenProperties DEF Conv
<1>1. ASSUME NEW i \in n + 1 .. Len(h) PROVE ConvAt(g, n, i)
  <2>1. i \in Int /\ n \in Int /\ g[i] = h[i] /\ ConvAt(h, n, i)
      BY <1>0 DEF Conv
  <2>2. i > n + 1 => g[i - 1] = h[i - 1]
    <3>1. i > n + 1 => i - 1 \in 1 .. Len(h)
        BY <1>0
    <3> QED BY <3>1
  <2>3. i < Len(h) => i < Len(g) /\ g[i + 1] = h[i + 1]
    <3>1. i < Len(h) => i < Len(g) /\ i + 1 \in 1 .. Len(h)
        BY <1>0
    <3> QED BY <3>1
  <2> QED BY <2>1, <2>2, <2>3 DEF ConvAt
<1>2. n + 1 \in 1 .. Len(h) /\ \A i \in 1 .. n : i \in 1 .. Len(h)
    BY <1>0
<1>3. n \in 0 .. Len(g) - 1
    BY <1>0
<1> QED BY <1>1, <1>2, <1>3 DEF Conv

\* A message without tool blocks, and not a second answer.
LEMMA AppendConv ==
    ASSUME NEW h, NEW n, Conv(h, n), NEW m \in Message, m.uses = <<>>, m.results = <<>>,
           m.role = "assistant" => Asks(h), m.text \/ m.role = "assistant"
    PROVE  Conv(Append(h, m), n) /\ (m.role # "assistant" => Asks(Append(h, m)))
<1> DEFINE g == Append(h, m)
           e == Len(h) + 1
<1>0. h \in Seq(Message) /\ Len(h) \in Nat /\ n \in Nat /\ n < Len(h)
    BY LenProperties DEF Conv
<1>1. g \in Seq(Message) /\ Len(g) = e /\ g[e] = m /\ \A i \in 1 .. Len(h) : g[i] = h[i]
    BY <1>0, AppendProperties
<1> HIDE DEF g
<1>2. /\ \A i \in n + 1 .. Len(h) : ConvAt(g, n, i)
      /\ \A i \in 1 .. n : g[i].role = "system"
      /\ IsClean(g[n + 1]) /\ n \in 0 .. Len(g) - 1
  <2>1. Len(g) \in Nat /\ Len(g) >= Len(h)
      BY <1>0, <1>1
  <2> QED BY <1>1, <2>1, ConvExtends
<1>3. ConvAt(g, n, e)
  <2>1. e - 1 = Len(h) /\ g[e - 1] = h[Len(h)]
      BY <1>0, <1>1
  <2> QED BY <1>1, <2>1 DEF ConvAt, HasContent, Asks
<1>4. \A i \in n + 1 .. Len(g) : i \in n + 1 .. Len(h) \/ i = e
    BY <1>0, <1>1
<1>5. Conv(g, n)
    BY <1>1, <1>2, <1>3, <1>4 DEF Conv
<1> QED BY <1>1, <1>5 DEF g, Asks

\* An answer with tool calls, and all their results.
LEMMA AppendCalls ==
    ASSUME NEW h, NEW n, Conv(h, n), Asks(h), NEW ids \in Seq(Ids), ids # <<>>,
           NEW text \in BOOLEAN
    PROVE  LET g == Append(Append(h, Assistant(text, ids)), ToolResults(ids))
           IN  Conv(g, n) /\ Asks(g)
<1> DEFINE a == Assistant(text, ids)
           r == ToolResults(ids)
           f == Append(h, a)
           g == Append(f, r)
           e == Len(h) + 1
<1>0. h \in Seq(Message) /\ Len(h) \in Nat /\ n \in Nat /\ n < Len(h)
    BY LenProperties DEF Conv
<1>1. /\ a \in Message /\ a.uses = ids /\ a.results = <<>> /\ a.role = "assistant"
      /\ r \in Message /\ r.results = ids /\ r.uses = <<>> /\ r.role = "user"
  <2>1. <<>> \in Seq(Ids)
      BY EmptySeq
  <2> QED BY <2>1 DEF Assistant, ToolResults, Message
<1> HIDE DEF a, r
<1>2. f \in Seq(Message) /\ Len(f) = e /\ f[e] = a /\ \A i \in 1 .. Len(h) : f[i] = h[i]
    BY <1>0, <1>1, AppendProperties
<1> HIDE DEF f
<1>3. /\ g \in Seq(Message) /\ Len(g) = e + 1 /\ g[e + 1] = r
      /\ \A i \in 1 .. e : g[i] = f[i]
    BY <1>1, <1>2, AppendProperties
<1> HIDE DEF g
<1>4. g[e] = a /\ \A i \in 1 .. Len(h) : g[i] = h[i]
  <2>1. e \in 1 .. e /\ \A i \in 1 .. Len(h) : i \in 1 .. e
      BY <1>0
  <2> QED BY <1>2, <1>3, <2>1
<1>5. /\ \A i \in n + 1 .. Len(h) : ConvAt(g, n, i)
      /\ \A i \in 1 .. n : g[i].role = "system"
      /\ IsClean(g[n + 1]) /\ n \in 0 .. Len(g) - 1
  <2>1. Len(g) \in Nat /\ Len(g) >= Len(h)
      BY <1>0, <1>3
  <2> QED BY <1>4, <2>1, ConvExtends
<1>6. ConvAt(g, n, e)
  <2>1. e - 1 = Len(h) /\ g[e - 1] = h[Len(h)] /\ e < Len(g)
      BY <1>0, <1>3, <1>4
  <2> QED BY <1>1, <1>3, <1>4, <2>1 DEF ConvAt, Asks
<1>7. ConvAt(g, n, e + 1)
  <2>1. (e + 1) - 1 = e /\ e + 1 > n + 1
      BY <1>0
  <2> QED BY <1>1, <1>3, <1>4, <2>1 DEF ConvAt, HasContent
<1>8. \A i \in n + 1 .. Len(g) : i \in n + 1 .. Len(h) \/ i = e \/ i = e + 1
    BY <1>0, <1>3
<1>9. Conv(g, n)
    BY <1>3, <1>5, <1>6, <1>7, <1>8 DEF Conv
<1>10. Asks(g)
    BY <1>1, <1>3 DEF Asks
<1> QED BY <1>9, <1>10 DEF g, f, a, r

----------------------------------------------------------------------------
(* The histories that requests are built from.                             *)

\* A turn is in the history: its answer, or its calls with all their results.
Settled(h, calls) == (\E n \in Nat : Conv(h, n)) /\ (calls > 0 => Asks(h))

\* A call queued or answered.
Accounted(p, k) == p.results[k] # "none" \/ k \in p.pending

CallsInv ==
    /\ pc = "dispatch" => \A k \in 1 .. pass.next - 1 : Accounted(pass, k)
    /\ pc = "invoke" => \/ cancelled \/ pass.fatal
                        \/ \A k \in 1 .. response.calls : Accounted(pass, k)

\* Only a cancelled run may have a call without its result, and it makes no request.
HistoryInv ==
    /\ pc \in {"request", "drain", "plan", "dispatch", "invoke"} => Ready(history)
    /\ pc \in {"start", "top"} => cancelled \/ Ready(history)
    /\ pc \in {"hook", "settle", "decide"} => cancelled \/ Settled(history, response.calls)

LEMMA CallIdsTyped ==
    ASSUME TypeInv, NEW keep \in SUBSET (1 .. response.calls)
    PROVE  CallIds(keep) \in Seq(Ids) /\ (CallIds(keep) = <<>> <=> keep = {})
<1> DEFINE s == [k \in 1 .. response.calls |-> <<turn, k>>]
<1>1. response.calls \in Nat /\ turn \in Nat
  <2>1. pass.response \in Response
      BY DEF TypeInv, LocalsOK, Passes
  <2> QED BY <2>1, LimitsAssumption DEF TypeInv, PlaceOK, Response, response
<1>2. s \in [1 .. response.calls -> Ids]
    BY <1>1 DEF Ids
<1>3. s \in Seq(Ids) /\ Len(s) = response.calls
    BY <1>1, <1>2, SeqDef, LenProperties
<1>4. CallIds(keep) = Filter(s, keep)
    BY DEF CallIds
<1> HIDE DEF s
<1> QED BY <1>3, <1>4, FilterIs, FilterEmpty

LEMMA FinalizeSettles ==
    ASSUME TypeInv, Ready(history), \A k \in 1 .. response.calls : pass.results[k] # "none"
    PROVE  Settled(FinalizeToolResults(history), response.calls)
<1> DEFINE calls == 1 .. response.calls
           ids == CallIds(calls)
           text == response.text # "empty"
           asked == Append(history, Assistant(text, ids))
<1>0. PICK n \in Nat : Conv(history, n)
    BY DEF Ready
<1>1. {k \in calls : pass.results[k] # "none"} = calls
    OBVIOUS
<1>2. ids \in Seq(Ids) /\ (ids = <<>> <=> calls = {})
    BY CallIdsTyped
<1>3. FinalizeToolResults(history)
        = IF ids = <<>> THEN asked ELSE Append(asked, ToolResults(ids))
    BY <1>1 DEF FinalizeToolResults
<1>4. response.calls \in Nat /\ (calls = {} <=> response.calls = 0)
  <2>1. pass.response \in Response
      BY DEF TypeInv, LocalsOK, Passes
  <2>2. response.calls \in Nat
      BY <2>1, LimitsAssumption DEF Response, response
  <2> QED BY <2>2
<1>5. text \in BOOLEAN
    OBVIOUS
<1> HIDE DEF ids, calls, text
<1>6. CASE ids = <<>>
  <2>1. Assistant(text, <<>>) \in Message
    <3>1. <<>> \in Seq(Ids)
        BY EmptySeq
    <3> QED BY <1>5, <3>1 DEF Assistant, Message
  <2>2. Conv(asked, n)
      BY <1>0, <1>6, <2>1, AppendConv DEF Ready, Assistant
  <2> QED BY <1>2, <1>3, <1>4, <1>6, <2>2 DEF Settled
<1>7. CASE ids # <<>>
  <2>1. Conv(Append(asked, ToolResults(ids)), n) /\ Asks(Append(asked, ToolResults(ids)))
      BY <1>0, <1>2, <1>5, <1>7, AppendCalls DEF Ready
  <2> QED BY <1>3, <1>7, <2>1 DEF Settled
<1> QED BY <1>6, <1>7

\* A user's message makes any settled history one to answer.
LEMMA InjectReady ==
    ASSUME NEW h, NEW calls, Settled(h, calls) PROVE Ready(Append(h, UserText))
<1>1. PICK n \in Nat : Conv(h, n)
    BY DEF Settled
<1>2. UserText \in Message
  <2>1. <<>> \in Seq(Ids)
      BY EmptySeq
  <2> QED BY <2>1 DEF UserText, Message
<1>3. Conv(Append(h, UserText), n) /\ Asks(Append(h, UserText))
    BY <1>1, <1>2, AppendConv DEF UserText
<1> QED BY <1>3 DEF Ready

LEMMA StepCallsInv == TypeInv /\ CallsInv /\ [Next]_vars => CallsInv'
<1> SUFFICES ASSUME TypeInv, CallsInv, [Next]_vars PROVE CallsInv'
    OBVIOUS
<1> DEFINE p == pass
<1>p. /\ p \in Passes /\ Fits(pc, p) /\ p.next \in Nat /\ p.response.calls \in Nat
      /\ p.results \in Seq(Outcomes)
  <2>1. p.response \in Response /\ p \in Passes /\ Fits(pc, p)
      BY DEF TypeInv, LocalsOK, Passes
  <2> QED BY <2>1, LimitsAssumption DEF Passes, Response
<1> HIDE DEF p
\* Steps that do not lead into the dispatch loop or its wait.
<1>o. ASSUME pc' \notin {"dispatch", "invoke"} PROVE CallsInv'
    BY <1>o DEF CallsInv
<1>1. CASE PlanDone
  <2>1. pc' = "dispatch" /\ pass' = [p EXCEPT !.next = 1]
      BY <1>1 DEF PlanDone, Proceed, p
  <2>2. pass'.next = 1
      BY <1>p, <2>1 DEF Passes
  <2>3. 1 .. pass'.next - 1 = {}
      BY <2>2
  <2> QED BY <2>1, <2>3 DEF CallsInv
<1>2. CASE EnqueueCall
  <2>0. /\ pc = "dispatch" /\ p.next \in 1 .. p.response.calls
        /\ Len(p.results) = p.response.calls /\ DOMAIN p.results = 1 .. p.response.calls
        /\ \A k \in 1 .. p.next - 1 : Accounted(p, k)
    <3>1. pc = "dispatch" /\ p.next <= Len(p.plans)
        BY <1>2 DEF EnqueueCall, p
    <3>2. Len(p.plans) = p.response.calls /\ Len(p.results) = p.response.calls
        BY <1>p, <3>1 DEF Fits
    <3>3. p.next >= 1
        BY <1>p DEF Passes
    <3> QED BY <1>p, <3>1, <3>2, <3>3, LenProperties DEF CallsInv, p
  <2>1. CASE pass' = [pass EXCEPT !.results[pass.next] = "err", !.next = @ + 1] /\ pc' = "dispatch"
    <3> DEFINE q == [p EXCEPT !.results = [p.results EXCEPT ![p.next] = "err"],
                              !.next = p.next + 1]
    <3>1. pass' = q
        BY <2>1 DEF p
    <3>2. /\ q.next = p.next + 1 /\ q.pending = p.pending
          /\ q.results = [p.results EXCEPT ![p.next] = "err"]
        BY <1>p DEF Passes
    <3> HIDE DEF q
    <3>3. ASSUME NEW k \in 1 .. q.next - 1 PROVE Accounted(q, k)
      <4>1. k = p.next \/ (k \in 1 .. p.next - 1 /\ k # p.next)
          BY <1>p, <3>2
      <4>2. k \in DOMAIN p.results
          BY <1>p, <2>0, <4>1
      <4> QED BY <2>0, <3>2, <4>1, <4>2 DEF Accounted
    <3> QED BY <2>1, <3>1, <3>3 DEF CallsInv
  <2>2. CASE pass' = [pass EXCEPT !.pending = @ \cup {pass.next}, !.next = @ + 1]
             /\ pc' = "dispatch"
    <3> DEFINE q == [p EXCEPT !.pending = p.pending \cup {p.next}, !.next = p.next + 1]
    <3>1. pass' = q
        BY <2>2 DEF p
    <3>2. /\ q.next = p.next + 1 /\ q.pending = p.pending \cup {p.next}
          /\ q.results = p.results
        BY <1>p DEF Passes
    <3> HIDE DEF q
    <3>3. ASSUME NEW k \in 1 .. q.next - 1 PROVE Accounted(q, k)
      <4>1. k = p.next \/ k \in 1 .. p.next - 1
          BY <1>p, <3>2
      <4> QED BY <2>0, <3>2, <4>1 DEF Accounted
    <3> QED BY <2>2, <3>1, <3>3 DEF CallsInv
  <2>3. CASE cancelled /\ pc' = "invoke"
    <3>1. cancelled'
        BY <1>2, <2>3 DEF EnqueueCall, runVars
    <3> QED BY <2>3, <3>1 DEF CallsInv
  <2> QED BY <1>2, <2>1, <2>2, <2>3 DEF EnqueueCall, Proceed
<1>3. CASE EnqueueDone
  <2>1. /\ pc = "dispatch" /\ p.next > Len(p.plans) /\ Len(p.plans) = p.response.calls
        /\ pc' = "invoke" /\ pass' = p
      BY <1>3, <1>p DEF EnqueueDone, Proceed, Fits, p
  <2>2. \A k \in 1 .. p.response.calls : Accounted(p, k)
    <3>1. \A k \in 1 .. p.next - 1 : Accounted(p, k)
        BY <2>1 DEF CallsInv, p
    <3>2. \A k \in 1 .. p.response.calls : k \in 1 .. p.next - 1
        BY <1>p, <2>1
    <3> QED BY <3>1, <3>2
  <2> QED BY <2>1, <2>2 DEF CallsInv, response
<1>4. ASSUME NEW k \in 1 .. MaxCalls, InvokeReturns(k) PROVE CallsInv'
  <2>0. /\ pc = "invoke" /\ pc' = "invoke" /\ k \in p.pending /\ cancelled' = cancelled
        /\ k \in 1 .. p.response.calls /\ DOMAIN p.results = 1 .. p.response.calls
        /\ \/ cancelled \/ p.fatal
           \/ \A l \in 1 .. p.response.calls : Accounted(p, l)
    <3>1. pc = "invoke" /\ pc' = "invoke" /\ k \in p.pending /\ cancelled' = cancelled
        BY <1>4 DEF InvokeReturns, Proceed, runVars, p
    <3>2. k \in 1 .. p.response.calls /\ Len(p.results) = p.response.calls
        BY <1>p, <3>1 DEF Fits
    <3> QED BY <1>p, <3>1, <3>2, LenProperties DEF CallsInv, response, p
  <2>1. CASE cancelled
      BY <2>0, <2>1 DEF CallsInv
  <2>2. ASSUME NEW outcome \in {"ok", "err"},
               pass' = [pass EXCEPT !.pending = @ \ {k}, !.results[k] = outcome]
        PROVE  CallsInv'
    <3> DEFINE q == [p EXCEPT !.pending = p.pending \ {k},
                              !.results = [p.results EXCEPT ![k] = outcome]]
    <3>1. pass' = q
        BY <2>2 DEF p
    <3>2. /\ q.pending = p.pending \ {k} /\ q.results = [p.results EXCEPT ![k] = outcome]
          /\ q.response = p.response /\ q.fatal = p.fatal
        BY <1>p DEF Passes
    <3> HIDE DEF q
    <3>3. ASSUME NEW l \in 1 .. p.response.calls, Accounted(p, l) PROVE Accounted(q, l)
        BY <2>0, <3>2, <3>3 DEF Accounted
    <3> QED BY <2>0, <3>1, <3>2, <3>3 DEF CallsInv, response
  <2> QED BY <1>4, <2>1, <2>2 DEF InvokeReturns, Proceed
<1>5. CASE Cancel
  <2>1. cancelled' /\ UNCHANGED <<pc, pass>>
      BY <1>5 DEF Cancel
  <2> QED BY <2>1 DEF CallsInv
<1>6. CASE UNCHANGED vars
    BY <1>6 DEF CallsInv, vars, response
<1> QED BY <1>o, <1>1, <1>2, <1>3, <1>4, <1>5, <1>6
    DEF Next, Loop, BeforeRequest, Request, Drain, Tools, Settle, Decide, BeforeRun, TopStops,
        TopProceeds, RequestCancelled, RequestOpens, ContextTooLong, DrainContent,
        DrainInterrupted, DrainStops, DrainCompletes, PlanCancelled, PlanCall, Finalize, AfterTurn,
        SettleNudges, SettleStops, SettleForces, SettleProceeds, DecideToolUse, DecideMeta,
        DecideSurrenders, OperatorAnswers, InputCancelled, AfterRun, InjectAndAdvance, BreakOuter,
        NextTurn, RedoTurn, Proceed

LEMMA StepHistoryInv == TypeInv /\ CallsInv /\ HistoryInv /\ [Next]_vars => HistoryInv'
<1> SUFFICES ASSUME TypeInv, CallsInv, HistoryInv, [Next]_vars PROVE HistoryInv'
    OBVIOUS
<1>p. pass \in Passes /\ pass.response \in Response
    BY DEF TypeInv, LocalsOK, Passes
\* The run ends.
<1>e. ASSUME pc' \in {"end", "done"} PROVE HistoryInv'
    BY <1>e DEF HistoryInv
\* The history may be sent, before and after.
<1>r. ASSUME Ready(history'), pc' \notin {"hook", "settle", "decide"} PROVE HistoryInv'
    BY <1>r DEF HistoryInv
\* The turn is in the history, before and after.
<1>s. ASSUME pc \in {"hook", "settle", "decide"}, pc' \in {"hook", "settle", "decide"},
             UNCHANGED <<history, cancelled>>, pass'.response = pass.response
      PROVE  HistoryInv'
    BY <1>s DEF HistoryInv, response
\* A message follows the turn.
<1>i. ASSUME NEW r, pc \in {"settle", "decide"}, InjectAndAdvance(r) PROVE HistoryInv'
  <2>1. /\ pc' \in {"top", "end"} /\ cancelled' = cancelled
        /\ history' = Append(history, UserText)
      BY <1>i DEF InjectAndAdvance, NextTurn
  <2>2. CASE cancelled
      BY <2>1, <2>2 DEF HistoryInv
  <2>3. CASE ~cancelled
    <3>1. Settled(history, response.calls)
        BY <1>i, <2>3 DEF HistoryInv
    <3>2. Ready(history')
        BY <2>1, <3>1, InjectReady
    <3> QED BY <2>1, <3>2, <1>r
  <2> QED BY <2>2, <2>3
<1>1. CASE BeforeRequest
  <2>1. CASE BeforeRun
      BY <2>1 DEF BeforeRun, HistoryInv, runVars
  <2>2. CASE TopStops
      BY <2>2, <1>e DEF TopStops, BreakOuter
  <2>3. CASE TopProceeds
    <3>1. Ready(history) /\ pc' = "request" /\ MaybeCompact
        BY <2>3 DEF TopProceeds, HistoryInv
    <3>2. history' = history \/ history' \in Compactions(history)
        BY <3>1 DEF MaybeCompact
    <3> QED BY <3>1, <3>2, <1>r, CompactionReady
  <2> QED BY <1>1, <2>1, <2>2, <2>3 DEF BeforeRequest
<1>2. CASE Request
  <2>1. Ready(history)
      BY <1>2 DEF Request, RequestCancelled, RequestOpens, ContextTooLong, HistoryInv
  <2>2. CASE RequestCancelled \/ RequestOpens
      BY <2>1, <2>2, <1>e, <1>r
         DEF RequestCancelled, RequestOpens, BreakOuter, Proceed, runVars
  <2>3. CASE ContextTooLong
    <3>1. CASE pc' = "top" /\ history' \in Compactions(history)
        BY <2>1, <3>1, <1>r, CompactionReady
    <3> QED BY <2>3, <3>1, <1>e DEF ContextTooLong, RedoTurn, BreakOuter
  <2> QED BY <1>2, <2>2, <2>3 DEF Request
<1>3. CASE Drain
  <2>1. Ready(history) /\ history' = history
      BY <1>3 DEF Drain, DrainContent, DrainInterrupted, DrainStops, DrainCompletes, HistoryInv,
                  runVars
  <2>2. pc' \notin {"hook", "settle", "decide"}
      BY <1>3 DEF Drain, DrainContent, DrainInterrupted, DrainStops, DrainCompletes, BreakOuter,
                  RedoTurn, Proceed
  <2> QED BY <2>1, <2>2, <1>r
<1>4. CASE Tools
  <2>1. Ready(history)
      BY <1>4 DEF Tools, PlanCancelled, PlanCall, PlanDone, EnqueueCall, EnqueueDone,
                  InvokeReturns, Finalize, HistoryInv
  <2>2. CASE ~Finalize
    <3>1. history' = history /\ pc' \notin {"hook", "settle", "decide"}
        BY <1>4, <2>2 DEF Tools, PlanCancelled, PlanCall, PlanDone, EnqueueCall, EnqueueDone,
                          InvokeReturns, BreakOuter, Proceed, runVars
    <3> QED BY <2>1, <3>1, <1>r
  <2>3. CASE Finalize
    <3>1. CASE pass.fatal
        BY <2>3, <3>1, <1>e DEF Finalize, BreakOuter
    <3>2. CASE ~pass.fatal
      <4>1. /\ pc = "invoke" /\ pass.pending = {} /\ pc' = "hook" /\ cancelled' = cancelled
            /\ history' = FinalizeToolResults(history)
            /\ pass' = [NoPass EXCEPT !.response = response, !.edited = HadSuccessfulEdit]
          BY <2>3, <3>2 DEF Finalize, Proceed
      <4>2. pass'.response = response
          BY <4>1 DEF NoPass
      <4>3. cancelled \/ Settled(history', response.calls)
        <5> SUFFICES ASSUME ~cancelled PROVE Settled(history', response.calls)
            OBVIOUS
        <5>1. \A k \in 1 .. response.calls : pass.results[k] # "none"
            BY <3>2, <4>1 DEF CallsInv, Accounted
        <5> QED BY <2>1, <4>1, <5>1, FinalizeSettles
      <4> QED BY <4>1, <4>2, <4>3 DEF HistoryInv, response
    <3> QED BY <3>1, <3>2
  <2> QED BY <2>2, <2>3
<1>5. CASE AfterTurn
  <2>1. CASE pc' = "end"
      BY <2>1, <1>e
  <2>2. ASSUME NEW d, pc' = "settle", pass' = [pass EXCEPT !.decision = d] PROVE HistoryInv'
    <3>1. pass'.response = pass.response /\ pc = "hook" /\ UNCHANGED <<history, cancelled>>
        BY <1>5, <1>p, <2>2 DEF AfterTurn, Passes
    <3> QED BY <2>2, <3>1, <1>s
  <2> QED BY <1>5, <2>1, <2>2 DEF AfterTurn, BreakOuter, Proceed
<1>6. CASE Settle
  <2>1. CASE SettleNudges \/ SettleForces
      BY <2>1, <1>i DEF SettleNudges, SettleForces
  <2>2. CASE SettleStops
      BY <2>2, <1>e DEF SettleStops, BreakOuter
  <2>3. CASE SettleProceeds
      BY <2>3, <1>i, <1>s DEF SettleProceeds, Proceed
  <2> QED BY <1>6, <2>1, <2>2, <2>3 DEF Settle
<1>7. CASE Decide
  <2>1. CASE DecideToolUse
    <3>1. /\ pc = "decide" /\ pc' \in {"top", "end"} /\ UNCHANGED <<history, cancelled>>
          /\ response.stop = "ToolUse"
        BY <2>1 DEF DecideToolUse, NextTurn
    <3>2. response.calls > 0
        BY <1>p, <3>1 DEF Response, response
    <3>3. cancelled \/ Ready(history)
        BY <3>1, <3>2 DEF HistoryInv, Settled, Ready
    <3> QED BY <3>1, <3>3 DEF HistoryInv
  <2>2. CASE DecideMeta
      BY <2>2, <1>i DEF DecideMeta
  <2>3. CASE DecideSurrenders \/ InputCancelled
      BY <2>3, <1>e DEF DecideSurrenders, InputCancelled, BreakOuter
  <2> QED BY <1>7, <2>1, <2>2, <2>3 DEF Decide
<1>8. CASE OperatorAnswers
    BY <1>8, <1>e, <1>i DEF OperatorAnswers, AwaitsOperator, BreakOuter
<1>9. CASE AfterRun
    BY <1>9, <1>e DEF AfterRun
<1>10. CASE Cancel
    BY <1>10 DEF Cancel, HistoryInv
<1>11. CASE UNCHANGED vars
    BY <1>11 DEF vars, HistoryInv, response
<1> QED BY <1>1, <1>2, <1>3, <1>4, <1>5, <1>6, <1>7, <1>8, <1>9, <1>10, <1>11 DEF Next, Loop

LEMMA InitHistoryInv == Init => CallsInv /\ HistoryInv
<1> SUFFICES ASSUME Init PROVE CallsInv /\ HistoryInv
    OBVIOUS
<1> DEFINE h == <<SystemText, UserText>>
<1>1. SystemText \in Message /\ UserText \in Message
  <2>1. <<>> \in Seq(Ids)
      BY EmptySeq
  <2> QED BY <2>1 DEF SystemText, UserText, Message
<1>2. h \in Seq(Message) /\ Len(h) = 2 /\ h[1] = SystemText /\ h[2] = UserText
    BY <1>1
<1> HIDE DEF h
<1>3. /\ SystemText.role = "system" /\ UserText.role = "user" /\ UserText.text
      /\ UserText.uses = <<>> /\ UserText.results = <<>>
    BY DEF SystemText, UserText
<1>4. ConvAt(h, 1, 2)
    BY <1>2, <1>3 DEF ConvAt, HasContent
<1>5. Conv(h, 1)
  <2>1. 1 \in 0 .. Len(h) - 1 /\ 1 + 1 = 2
      BY <1>2
  <2>2. \A i \in 1 + 1 .. Len(h) : i = 2
      BY <1>2
  <2>3. \A i \in 1 .. 1 : i = 1
      OBVIOUS
  <2> QED BY <1>2, <1>3, <1>4, <2>1, <2>2, <2>3 DEF Conv, IsClean
<1>6. Ready(h)
  <2>1. Asks(h)
      BY <1>2, <1>3 DEF Asks
  <2> QED BY <1>5, <2>1 DEF Ready
<1> QED BY <1>6 DEF Init, CallsInv, HistoryInv, h

\* For any limits, configurations and responses: whatever was compacted, cancelled,
\* denied, nudged or retried before, the history that a request is built from is one
\* that a provider accepts.
THEOREM RequestsAccepted == Spec => []RequestsWellFormed
<1> DEFINE Inv == TypeInv /\ CallsInv /\ HistoryInv
<1>1. Init => Inv
    BY InitTypeInv, InitHistoryInv
<1>2. Inv /\ [Next]_vars => Inv'
    BY StepTypeInv, StepCallsInv, StepHistoryInv
<1>3. Inv => RequestsWellFormed
  <2> SUFFICES ASSUME HistoryInv, pc = "request" PROVE WellFormed(history)
      BY DEF RequestsWellFormed
  <2>1. PICK n \in Nat : Conv(history, n)
      BY DEF HistoryInv, Ready
  <2> QED BY <2>1, ConvWellFormed
<1> QED BY <1>1, <1>2, <1>3, PTL DEF Spec
=============================================================================
