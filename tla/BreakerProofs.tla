--------------------------- MODULE BreakerProofs ---------------------------
(***************************************************************************)
(* The circuit breaker for any number of concurrent attempts and any       *)
(* policy: its types, that a trip lasts its cooldown, and that a breaker   *)
(* at rest in Closed is below its threshold.                               *)
(***************************************************************************)
EXTENDS Breaker, TLAPS

\* A guard that still points at the installed value points at an expired trip.
GuardsExpired == current # {} => state = "Tripped" /\ elapsed

\* Whenever the breaker is Closed with a full ring, somebody is about to mend
\* it: a close that will clear the ring, or a failure that will trip.
FullRingAttended ==
    state = "Closed" /\ failures = Threshold =>
        \E a \in Attempts : att[a].pc \in {"zero", "open", "clear", "fail", "retrip", "trip"}

LEMMA IdleTyping == Idle \in Attempt
BY DEF Idle, Attempt

LEMMA InitTypeOK == Init => TypeOK
<1> SUFFICES ASSUME Init PROVE TypeOK
    OBVIOUS
<1>1. att \in [Attempts -> Attempt] /\ current \subseteq Attempts
    BY IdleTyping DEF Init
<1>2. successes \in Nat /\ failures \in 0 .. Threshold
    BY PolicyAssumption DEF Init
<1>3. state \in {"Closed", "Tripped", "HalfOpen"}
    BY DEF Init
<1>4. elapsed \in BOOLEAN /\ probe \in BOOLEAN /\ ring \in BOOLEAN
    BY DEF Init
<1> QED BY <1>1, <1>2, <1>3, <1>4 DEF TypeOK

Label == {"idle", "load", "cas", "reload", "act", "claim", "call", "unclaim", "close",
          "zero", "open", "clear", "fail", "retrip", "trip"}

\* The three ways in which most steps move an attempt keep it an attempt.
LEMMA GotoTyping ==
    ASSUME NEW a \in Attempts, att \in [Attempts -> Attempt], NEW pc \in Label, Goto(a, pc)
    PROVE  att' \in [Attempts -> Attempt]
BY DEF Goto, Attempt, Label

LEMMA FinishTyping ==
    ASSUME NEW a \in Attempts, att \in [Attempts -> Attempt], Finish(a)
    PROVE  att' \in [Attempts -> Attempt]
BY IdleTyping DEF Finish

LEMMA BeginTyping ==
    ASSUME NEW a \in Attempts, att \in [Attempts -> Attempt],
           NEW op \in {"resolve", "admit", "success", "failure"}, Begin(a, op)
    PROVE  att' \in [Attempts -> Attempt]
<1>1. [Idle EXCEPT !.op = op, !.pc = "load"] \in Attempt
    BY DEF Idle, Attempt
<1> QED BY <1>1 DEF Begin

\* Every step keeps the attempts well typed.
LEMMA StepAttempts == TypeOK /\ [Next]_vars => att' \in [Attempts -> Attempt]
<1> SUFFICES ASSUME TypeOK, [Next]_vars PROVE att' \in [Attempts -> Attempt]
    OBVIOUS
<1> att \in [Attempts -> Attempt] /\ state \in {"Closed", "Tripped", "HalfOpen"}
    BY DEF TypeOK
<1>1. CASE UNCHANGED vars \/ CooldownElapses
    BY <1>1 DEF vars, CooldownElapses
<1>2. ASSUME NEW a \in Attempts, StateAt(a) PROVE att' \in [Attempts -> Attempt]
    BY <1>2 DEF StateAt, Load, Swap, Reload, Goto, Attempt
<1>3. ASSUME NEW a \in Attempts, Admit(a) PROVE att' \in [Attempts -> Attempt]
  <2>1. CASE Resolve(a)
    <3>1. \A kind \in {"complete", "stream"} :
              [Idle EXCEPT !.pc = "load", !.kind = kind] \in Attempt
        BY DEF Idle, Attempt
    <3> QED BY <2>1, <3>1 DEF Resolve
  <2>2. CASE Resolved(a) \/ Admitted(a) \/ Claim(a)
    <3>1. Goto(a, "call") \/ Goto(a, "claim") \/ Finish(a) \/ Begin(a, "admit")
        BY <2>2 DEF Resolved, Admitted, Claim, Returned, Attempt
    <3> QED BY <3>1, GotoTyping, FinishTyping, BeginTyping DEF Label
  <2> QED BY <1>3, <2>1, <2>2 DEF Admit
<1>4. ASSUME NEW a \in Attempts, Call(a) PROVE att' \in [Attempts -> Attempt]
    BY <1>4, BeginTyping, FinishTyping
       DEF Call, Answered, HedgeCancelled, HedgeUnread, StreamAbandoned
<1>5. ASSUME NEW a \in Attempts, Observe(a) PROVE att' \in [Attempts -> Attempt]
  <2>1. CASE Succeeded(a)
    <3>1. CASE att[a].saw = "HalfOpen"
      <4> DEFINE last == successes + 1 >= HalfOpenProbes
      <4>1. att' = [att EXCEPT ![a].enough = last, ![a].pc = "unclaim"]
          BY <2>1, <3>1 DEF Succeeded
      <4>2. last \in BOOLEAN
          OBVIOUS
      <4> HIDE DEF last
      <4>3. att[a] \in Attempt
          OBVIOUS
      <4>4. [att[a] EXCEPT !.enough = last, !.pc = "unclaim"] \in Attempt
          BY <4>2, <4>3 DEF Attempt
      <4> QED BY <4>1, <4>4
    <3>2. CASE att[a].saw # "HalfOpen"
        BY <2>1, <3>2, GotoTyping, FinishTyping DEF Succeeded, Label
    <3> QED BY <3>1, <3>2
  <2>2. CASE Unclaim(a) \/ Close(a) \/ CloseZero(a) \/ CloseOpen(a) \/ CloseClears(a)
      BY <2>2, GotoTyping, FinishTyping
         DEF Unclaim, Close, CloseZero, CloseOpen, CloseClears, Label
  <2>3. CASE Failed(a) \/ FailZero(a) \/ FailOpen(a) \/ Trip(a)
      BY <2>3, GotoTyping, FinishTyping DEF Failed, FailZero, FailOpen, Trip, Label
  <2> QED BY <1>5, <2>1, <2>2, <2>3 DEF Observe
<1> QED BY <1>1, <1>2, <1>3, <1>4, <1>5 DEF Next

\* The breaker's own fields.
FieldsOK ==
    /\ state \in {"Closed", "Tripped", "HalfOpen"} /\ current \subseteq Attempts
    /\ successes \in Nat /\ failures \in 0 .. Threshold
    /\ elapsed \in BOOLEAN /\ probe \in BOOLEAN /\ ring \in BOOLEAN

\* Every step keeps the types of the breaker's own fields.
LEMMA StepFields == FieldsOK /\ [Next]_vars => FieldsOK'
<1> SUFFICES ASSUME FieldsOK, [Next]_vars PROVE FieldsOK'
    OBVIOUS
<1>1. CASE UNCHANGED vars \/ CooldownElapses
    BY <1>1 DEF vars, CooldownElapses, FieldsOK
<1>2. ASSUME NEW a \in Attempts, StateAt(a) PROVE FieldsOK'
    BY <1>2 DEF StateAt, Load, Swap, Reload, Store, FieldsOK
<1>3. ASSUME NEW a \in Attempts, Admit(a) \/ Call(a) PROVE FieldsOK'
    BY <1>3 DEF Admit, Resolve, Resolved, Admitted, Claim, Call, Answered, HedgeCancelled,
                HedgeUnread, StreamAbandoned, FieldsOK
<1>4. ASSUME NEW a \in Attempts, Observe(a) PROVE FieldsOK'
  <2>1. CASE Succeeded(a)
      BY <2>1 DEF Succeeded, FieldsOK
  <2>2. CASE CloseZero(a) \/ CloseClears(a)
      BY <2>2, PolicyAssumption DEF CloseZero, CloseClears, FieldsOK
  <2>3. CASE Unclaim(a) \/ CloseOpen(a) \/ FailOpen(a)
      BY <2>3 DEF Unclaim, CloseOpen, FailOpen, FieldsOK
  <2>4. CASE Close(a)
      BY <2>4 DEF Close, Store, FieldsOK
  <2>5. CASE Failed(a)
    <3>1. failures' \in 0 .. Threshold
        BY <2>5, PolicyAssumption DEF Failed, FieldsOK
    <3>2. ring' \in BOOLEAN
        BY <2>5 DEF Failed, FieldsOK
    <3> QED BY <2>5, <3>1, <3>2 DEF Failed, FieldsOK
  <2>6. CASE FailZero(a)
      BY <2>6 DEF FailZero, FieldsOK
  <2>7. CASE Trip(a)
    <3>1. ring' \in BOOLEAN
        BY <2>7 DEF Trip, FieldsOK
    <3> QED BY <2>7, <3>1 DEF Trip, Store, FieldsOK
  <2> QED BY <1>4, <2>1, <2>2, <2>3, <2>4, <2>5, <2>6, <2>7 DEF Observe
<1> QED BY <1>1, <1>2, <1>3, <1>4 DEF Next

LEMMA StepTypeOK == TypeOK /\ [Next]_vars => TypeOK'
<1>1. TypeOK <=> FieldsOK /\ att \in [Attempts -> Attempt]
    BY DEF TypeOK, FieldsOK
<1>2. TypeOK' <=> FieldsOK' /\ att' \in [Attempts -> Attempt]
    BY DEF TypeOK, FieldsOK
<1> QED BY <1>1, <1>2, StepAttempts, StepFields

\* Type correctness of the breaker under every interleaving.
THEOREM BreakerTypeCorrect == Spec => []TypeOK
<1> QED BY InitTypeOK, StepTypeOK, PTL DEF Spec

----------------------------------------------------------------------------

\* A loaded guard counts as current only until the next store.
LEMMA StepGuards == TypeOK /\ GuardsExpired /\ [Next]_vars => GuardsExpired'
<1> SUFFICES ASSUME TypeOK, GuardsExpired, [Next]_vars PROVE GuardsExpired'
    OBVIOUS
<1>1. CASE UNCHANGED vars \/ CooldownElapses
    BY <1>1 DEF vars, CooldownElapses, GuardsExpired
<1>2. ASSUME NEW a \in Attempts, StateAt(a) PROVE GuardsExpired'
    BY <1>2 DEF StateAt, Load, Swap, Reload, Store, GuardsExpired
<1>3. ASSUME NEW a \in Attempts, Admit(a) \/ Call(a) PROVE GuardsExpired'
    BY <1>3 DEF Admit, Resolve, Resolved, Admitted, Claim, Call, Answered, HedgeCancelled,
                HedgeUnread, StreamAbandoned, GuardsExpired
<1>4. ASSUME NEW a \in Attempts, Observe(a) PROVE GuardsExpired'
    BY <1>4 DEF Observe, Succeeded, Unclaim, Failed, FailZero, FailOpen, Close, CloseZero,
                CloseOpen, CloseClears, Trip, Store, GuardsExpired
<1> QED BY <1>1, <1>2, <1>3, <1>4 DEF Next

\* Only the swap of a reader takes a trip to HalfOpen.
LEMMA StepCooldown ==
    GuardsExpired /\ [Next]_vars => (state = "Tripped" /\ state' = "HalfOpen" => elapsed)
<1> SUFFICES ASSUME GuardsExpired, [Next]_vars, state = "Tripped", state' = "HalfOpen"
             PROVE  elapsed
    OBVIOUS
<1>1. PICK a \in Attempts : Swap(a)
    BY DEF Next, vars, CooldownElapses, StateAt, Load, Reload, Admit, Resolve, Resolved,
           Admitted, Claim, Call, Answered, HedgeCancelled, HedgeUnread, StreamAbandoned,
           Observe, Succeeded, Unclaim, Failed, FailZero, FailOpen, Close, CloseZero,
           CloseOpen, CloseClears, Trip, Store
<1>2. a \in current
    BY <1>1 DEF Swap
<1> QED BY <1>2 DEF GuardsExpired

LEMMA InitGuards == Init => GuardsExpired
BY DEF Init, GuardsExpired

\* A trip lasts its cooldown, whatever stale readers race for the transition.
THEOREM TripLastsItsCooldown == Spec => CooldownRespected
<1> QED BY InitTypeOK, StepTypeOK, InitGuards, StepGuards, StepCooldown, PTL
        DEF Spec, CooldownRespected

----------------------------------------------------------------------------

\* Attempts that an attempt's step leaves alone keep their place.
LEMMA OthersStay ==
    ASSUME NEW a \in Attempts, NEW b \in Attempts, a # b, att \in [Attempts -> Attempt],
           StateAt(a) \/ Admit(a) \/ Call(a) \/ Observe(a)
    PROVE  att'[b] = att[b]
<1>1. CASE StateAt(a)
    BY <1>1 DEF StateAt, Load, Swap, Reload, Goto
<1>2. CASE Resolve(a)
    BY <1>2 DEF Resolve
<1>3. CASE Resolved(a) \/ Admitted(a) \/ Claim(a)
  <2>1. Goto(a, "call") \/ Goto(a, "claim") \/ Finish(a) \/ Begin(a, "admit")
      BY <1>3 DEF Resolved, Admitted, Claim, Returned, Attempt
  <2> QED BY <2>1 DEF Goto, Finish, Begin
<1>4. CASE Call(a)
    BY <1>4 DEF Call, Answered, HedgeCancelled, HedgeUnread, StreamAbandoned, Finish, Begin
<1>5. CASE Observe(a)
    BY <1>5 DEF Observe, Succeeded, Unclaim, Failed, FailZero, FailOpen, Close, CloseZero,
                CloseOpen, CloseClears, Trip, Goto, Finish
<1> QED BY <1>1, <1>2, <1>3, <1>4, <1>5 DEF Admit

Attends(a) == att[a].pc \in {"zero", "open", "clear", "fail", "retrip", "trip"}

\* An attempt that attends to the ring goes on attending, or mends it.
LEMMA AttendantGoesOn ==
    ASSUME NEW a \in Attempts, TypeOK, Attends(a),
           StateAt(a) \/ Admit(a) \/ Call(a) \/ Observe(a)
    PROVE  Attends(a)' \/ failures' = 0 \/ state' = "Tripped"
<1> att \in [Attempts -> Attempt]
    BY DEF TypeOK
<1>1. CASE StateAt(a) \/ Admit(a) \/ Call(a)
    BY <1>1 DEF StateAt, Load, Swap, Reload, Admit, Resolve, Resolved, Admitted, Claim, Call,
                Answered, HedgeCancelled, HedgeUnread, StreamAbandoned, Returned, At, Attends
<1>2. CASE Observe(a)
    BY <1>2 DEF Observe, Succeeded, Unclaim, Failed, FailZero, FailOpen, Close, CloseZero,
                CloseOpen, CloseClears, Trip, Store, Returned, At, Goto, Attends, Attempt
<1> QED BY <1>1, <1>2

\* A step that makes the breaker Closed or fills its ring attends to it.
LEMMA FillerAttends ==
    ASSUME NEW a \in Attempts, TypeOK, StateAt(a) \/ Admit(a) \/ Call(a) \/ Observe(a),
           state' = "Closed", failures' = Threshold
    PROVE  (state = "Closed" /\ failures = Threshold) \/ Attends(a)'
<1> att \in [Attempts -> Attempt]
    BY DEF TypeOK
<1>1. CASE StateAt(a) \/ Admit(a) \/ Call(a)
    BY <1>1 DEF StateAt, Load, Swap, Reload, Store, Admit, Resolve, Resolved, Admitted, Claim,
                Call, Answered, HedgeCancelled, HedgeUnread, StreamAbandoned
<1>2. CASE Close(a)
    BY <1>2 DEF Close, Goto, Attends, Attempt
<1>3. CASE Failed(a)
    BY <1>3 DEF Failed, Goto, Attends, Attempt
<1>4. CASE Observe(a) /\ ~Close(a) /\ ~Failed(a)
    BY <1>4, PolicyAssumption
       DEF Observe, Succeeded, Unclaim, FailZero, FailOpen, CloseZero, CloseOpen, CloseClears,
           Trip, Store
<1> QED BY <1>1, <1>2, <1>3, <1>4

LEMMA StepRing == TypeOK /\ FullRingAttended /\ [Next]_vars => FullRingAttended'
<1> SUFFICES ASSUME TypeOK, FullRingAttended, [Next]_vars,
                    state' = "Closed", failures' = Threshold
             PROVE  \E a \in Attempts : Attends(a)'
    BY DEF FullRingAttended, Attends
<1>1. CASE UNCHANGED vars \/ CooldownElapses
    BY <1>1 DEF vars, CooldownElapses, FullRingAttended, Attends
<1>2. ASSUME NEW a \in Attempts, StateAt(a) \/ Admit(a) \/ Call(a) \/ Observe(a)
      PROVE  \E b \in Attempts : Attends(b)'
  <2>1. CASE Attends(a)'
      BY <2>1
  <2>2. CASE ~Attends(a)'
    <3>1. state = "Closed" /\ failures = Threshold
        BY <1>2, <2>2, FillerAttends
    <3>2. PICK b \in Attempts : Attends(b)
        BY <3>1 DEF FullRingAttended, Attends
    <3>3. a # b
        BY <1>2, <2>2, <3>2, AttendantGoesOn, PolicyAssumption
    <3>4. att'[b] = att[b]
        BY <1>2, <3>3, OthersStay DEF TypeOK
    <3> QED BY <3>2, <3>4 DEF Attends
  <2> QED BY <2>1, <2>2
<1> QED BY <1>1, <1>2 DEF Next

LEMMA InitRing == Init => FullRingAttended
BY PolicyAssumption DEF Init, FullRingAttended

LEMMA RingImpliesBelow == TypeOK /\ FullRingAttended => ClosedIsBelowThreshold
BY PolicyAssumption DEF TypeOK, FullRingAttended, ClosedIsBelowThreshold, Recording

\* A breaker at rest in Closed is below its threshold: close's four stores and
\* the trip of observe_failure lose nothing to each other.
THEOREM ClosedBelowThreshold == Spec => []ClosedIsBelowThreshold
<1> QED BY InitTypeOK, StepTypeOK, InitRing, StepRing, RingImpliesBelow, PTL DEF Spec

=============================================================================
