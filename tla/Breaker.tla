------------------------------ MODULE Breaker ------------------------------
(***************************************************************************)
(* The circuit breaker of one route of the model router, shared by every   *)
(* attempt that is sent down the route.                                    *)
(*                                                                         *)
(* The breaker has no lock of its own: its state is an ArcSwap, the probe  *)
(* gate and the probe count are atomics and only the failure ring sits     *)
(* behind a mutex.  A method is a sequence of those accesses, so a step    *)
(* here is one access and the attempts interleave between any two.         *)
(*                                                                         *)
(* An attempt is a Provider call of dispatch_complete, gated by try_admit  *)
(* and perhaps one of a hedge race, or of dispatch_stream, not gated.      *)
(* Of time the model keeps whether the cooldown of the installed trip is   *)
(* over; a reader whose clock was read earlier may still see it running.   *)
(***************************************************************************)
EXTENDS Naturals

CONSTANTS
    Attempts,       \* concurrent attempts on the route
    Threshold,      \* policy.failure_threshold
    HalfOpenProbes  \* policy.half_open_probes

ASSUME PolicyAssumption == Threshold \in Nat \ {0} /\ HalfOpenProbes \in Nat \ {0}

VARIABLES
    state,      \* what the ArcSwap holds
    elapsed,    \* the cooldown of the installed trip is over
    probe,      \* probe_inflight
    successes,  \* probe_successes
    failures,   \* entries of the failure ring, counted up to Threshold
    ring,       \* the ring's mutex is held
    current,    \* attempts whose loaded guard is still what is installed
    att         \* what each attempt is doing

vars == <<state, elapsed, probe, successes, failures, ring, current, att>>

\* op: the method in progress; saw: what state_at returned to it; enough: its
\* success is the last one that is needed to close.
Idle == [pc |-> "idle", kind |-> "complete", op |-> "resolve", saw |-> "Closed",
         enough |-> FALSE]

Attempt ==
    [pc : {"idle", "load", "cas", "reload", "act", "claim", "call", "unclaim", "close",
           "zero", "open", "clear", "fail", "retrip", "trip"},
     kind : {"complete", "stream"},
     op : {"resolve", "admit", "success", "failure"},
     saw : {"Closed", "Tripped", "HalfOpen"}, enough : BOOLEAN]

Init ==
    /\ state = "Closed" /\ elapsed = FALSE
    /\ probe = FALSE /\ successes = 0 /\ failures = 0 /\ ring = FALSE
    /\ current = {} /\ att = [a \in Attempts |-> Idle]

At(a, pc)    == att[a].pc = pc
Goto(a, pc)  == att' = [att EXCEPT ![a].pc = pc]
Finish(a)    == att' = [att EXCEPT ![a] = Idle]
Begin(a, op) == att' = [att EXCEPT ![a] = [Idle EXCEPT !.op = op, !.pc = "load"]]

\* A new value is installed: every guard loaded before is out of date.
Store(s) ==
    /\ state' = s /\ current' = {}
    /\ elapsed' = FALSE

----------------------------------------------------------------------------
(* state_at.                                                               *)

\* The lock-free read.  A trip whose cooldown is over goes on to the swap.
Load(a) ==
    /\ At(a, "load")
    /\ \/ /\ att' = [att EXCEPT ![a].saw = state, ![a].pc = "act"]
          /\ UNCHANGED current
       \/ /\ state = "Tripped" /\ elapsed
          /\ Goto(a, "cas") /\ current' = current \cup {a}
    /\ UNCHANGED <<state, elapsed, probe, successes, failures, ring>>

\* Variant: HalfOpen is stored without comparing.
SwapStores(a) ==
    /\ At(a, "cas")
    /\ Store("HalfOpen")
    /\ att' = [att EXCEPT ![a].saw = "HalfOpen", ![a].pc = "act"]
    /\ UNCHANGED <<probe, successes, failures, ring>>

\* compare_and_swap on the pointer that was loaded.
Swap(a) ==
    /\ At(a, "cas")
    /\ IF a \in current
       THEN /\ Store("HalfOpen")
            /\ att' = [att EXCEPT ![a].saw = "HalfOpen", ![a].pc = "act"]
       ELSE /\ Goto(a, "reload")
            /\ UNCHANGED <<state, elapsed, current>>
    /\ UNCHANGED <<probe, successes, failures, ring>>

\* The swap was lost: report whatever was installed.
Reload(a) ==
    /\ At(a, "reload")
    /\ att' = [att EXCEPT ![a].saw = state, ![a].pc = "act"]
    /\ UNCHANGED <<state, elapsed, probe, successes, failures, ring, current>>

Returned(a, op) == At(a, "act") /\ att[a].op = op

----------------------------------------------------------------------------
(* Resolution and admission.                                               *)

\* The resolver looks at the route for a request.
Resolve(a) ==
    /\ At(a, "idle")
    /\ \E kind \in {"complete", "stream"} :
          att' = [att EXCEPT ![a] = [Idle EXCEPT !.pc = "load", !.kind = kind]]
    /\ UNCHANGED <<state, elapsed, probe, successes, failures, ring, current>>

\* A tripped route is no candidate; a stream is sent without try_admit.
Resolved(a) ==
    /\ Returned(a, "resolve")
    /\ \/ att[a].saw = "Tripped" /\ Finish(a)
       \/ att[a].saw # "Tripped" /\ att[a].kind = "stream" /\ Goto(a, "call")
       \/ att[a].saw # "Tripped" /\ att[a].kind # "stream" /\ Begin(a, "admit")
    /\ UNCHANGED <<state, elapsed, probe, successes, failures, ring, current>>

\* try_admit
Admitted(a) ==
    /\ Returned(a, "admit")
    /\ CASE att[a].saw = "Closed"   -> Goto(a, "call")
         [] att[a].saw = "Tripped"  -> Finish(a)
         [] att[a].saw = "HalfOpen" -> Goto(a, "claim")
    /\ UNCHANGED <<state, elapsed, probe, successes, failures, ring, current>>

\* The exchange on probe_inflight; a loser advances to its next candidate.
Claim(a) ==
    /\ At(a, "claim")
    /\ IF probe THEN Finish(a)
       ELSE Goto(a, "call")
    /\ probe' = TRUE
    /\ UNCHANGED <<state, elapsed, successes, failures, ring, current>>

----------------------------------------------------------------------------
(* The provider's answer.                                                  *)

\* The answer is read by the dispatch loop, which records it.
Answered(a) ==
    /\ At(a, "call")
    /\ \E op \in {"success", "failure"} : Begin(a, op)
    /\ UNCHANGED <<state, elapsed, probe, successes, failures, ring, current>>

\* A hedge race is won by another route's attempt: this one is cancelled and
\* calls release_probe.
HedgeCancelled(a) ==
    /\ At(a, "call") /\ att[a].kind = "complete"
    /\ probe' = FALSE
    /\ Finish(a)
    /\ UNCHANGED <<state, elapsed, successes, failures, ring, current>>

\* This attempt answers as the race ends: its outcome is in the channel, or
\* its select takes the answer over the token, and nobody reads it.
HedgeUnread(a) ==
    /\ At(a, "call") /\ att[a].kind = "complete"
    /\ Finish(a)
    /\ UNCHANGED <<state, elapsed, probe, successes, failures, ring, current>>

\* The turn loop's first-byte timeout drops the call: nothing is recorded.
StreamAbandoned(a) ==
    /\ At(a, "call") /\ att[a].kind = "stream"
    /\ Finish(a)
    /\ UNCHANGED <<state, elapsed, probe, successes, failures, ring, current>>

----------------------------------------------------------------------------
(* observe_success.                                                        *)

\* A success in HalfOpen is counted, one in Closed clears the ring, one in
\* Tripped is dropped.
Succeeded(a) ==
    /\ Returned(a, "success")
    /\ \/ /\ att[a].saw = "HalfOpen"
          /\ successes' = successes + 1
          /\ att' = [att EXCEPT ![a].enough = successes + 1 >= HalfOpenProbes,
                                ![a].pc = "unclaim"]
       \/ att[a].saw = "Closed" /\ Goto(a, "close") /\ UNCHANGED successes
       \/ att[a].saw = "Tripped" /\ Finish(a) /\ UNCHANGED successes
    /\ UNCHANGED <<state, elapsed, probe, failures, ring, current>>

Unclaim(a) ==
    /\ At(a, "unclaim")
    /\ probe' = FALSE
    /\ IF att[a].enough THEN Goto(a, "close") ELSE Finish(a)
    /\ UNCHANGED <<state, elapsed, successes, failures, ring, current>>

\* close: four stores.
Close(a) ==
    /\ At(a, "close")
    /\ Store("Closed") /\ Goto(a, "zero")
    /\ UNCHANGED <<probe, successes, failures, ring>>

CloseZero(a) ==
    /\ At(a, "zero")
    /\ successes' = 0 /\ Goto(a, "open")
    /\ UNCHANGED <<state, elapsed, probe, failures, ring, current>>

CloseOpen(a) ==
    /\ At(a, "open")
    /\ probe' = FALSE /\ Goto(a, "clear")
    /\ UNCHANGED <<state, elapsed, successes, failures, ring, current>>

\* Variant: the failures before the recovery still count after it.
CloseKeepsFailures(a) ==
    /\ At(a, "clear") /\ ~ring
    /\ Finish(a)
    /\ UNCHANGED <<state, elapsed, probe, successes, failures, ring, current>>

CloseClears(a) ==
    /\ At(a, "clear") /\ ~ring
    /\ failures' = 0 /\ Finish(a)
    /\ UNCHANGED <<state, elapsed, probe, successes, ring, current>>

----------------------------------------------------------------------------
(* observe_failure.                                                        *)

\* A failure in HalfOpen trips again at once; any other one takes the ring's
\* lock, evicts what is older than the window and is added.
Failed(a) ==
    /\ Returned(a, "failure")
    /\ \/ /\ att[a].saw = "HalfOpen" /\ Goto(a, "fail")
          /\ UNCHANGED <<failures, ring>>
       \/ /\ att[a].saw # "HalfOpen" /\ ~ring
          /\ \E kept \in 0 .. failures :
                /\ failures' = IF kept = Threshold THEN Threshold ELSE kept + 1
                /\ IF failures' = Threshold
                   THEN ring' = TRUE /\ Goto(a, "fail")
                   ELSE Finish(a) /\ UNCHANGED ring
    /\ UNCHANGED <<state, elapsed, probe, successes, current>>

FailZero(a) ==
    /\ At(a, "fail")
    /\ successes' = 0 /\ Goto(a, "retrip")
    /\ UNCHANGED <<state, elapsed, probe, failures, ring, current>>

FailOpen(a) ==
    /\ At(a, "retrip")
    /\ probe' = FALSE /\ Goto(a, "trip")
    /\ UNCHANGED <<state, elapsed, successes, failures, ring, current>>

\* The trip; the ring's lock, if held, is dropped behind it.
Trip(a) ==
    /\ At(a, "trip")
    /\ Store("Tripped")
    /\ ring' = IF att[a].saw = "HalfOpen" THEN ring ELSE FALSE
    /\ Finish(a)
    /\ UNCHANGED <<probe, successes, failures>>

----------------------------------------------------------------------------

CooldownElapses ==
    /\ state = "Tripped" /\ ~elapsed
    /\ elapsed' = TRUE
    /\ UNCHANGED <<state, probe, successes, failures, ring, current, att>>

StateAt(a) == Load(a) \/ Swap(a) \/ Reload(a)
Admit(a)   == Resolve(a) \/ Resolved(a) \/ Admitted(a) \/ Claim(a)
Call(a)    == Answered(a) \/ HedgeCancelled(a) \/ HedgeUnread(a) \/ StreamAbandoned(a)
Observe(a) == \/ Succeeded(a) \/ Unclaim(a) \/ Failed(a) \/ FailZero(a) \/ FailOpen(a)
              \/ Close(a) \/ CloseZero(a) \/ CloseOpen(a) \/ CloseClears(a) \/ Trip(a)

Next ==
    \/ \E a \in Attempts : StateAt(a) \/ Admit(a) \/ Call(a) \/ Observe(a)
    \/ CooldownElapses

Spec == Init /\ [][Next]_vars

----------------------------------------------------------------------------
(* Properties.                                                             *)

\* The variables hold what the breaker's fields hold.
TypeOK ==
    /\ state \in {"Closed", "Tripped", "HalfOpen"} /\ elapsed \in BOOLEAN
    /\ probe \in BOOLEAN /\ successes \in Nat
    /\ failures \in 0 .. Threshold /\ ring \in BOOLEAN
    /\ current \subseteq Attempts /\ att \in [Attempts -> Attempt]

\* A trip is in force for its whole cooldown: no reader that looked at an
\* earlier trip, however long ago, takes this one to HalfOpen.
CooldownRespected ==
    [][state = "Tripped" /\ state' = "HalfOpen" => elapsed]_vars

\* An attempt is between two accesses of close or of observe_failure.
Recording(a) ==
    att[a].pc \in {"unclaim", "close", "zero", "open", "clear", "fail", "retrip", "trip"}

\* A breaker that rests Closed has less than a trip's worth of failures on
\* record, in whatever order successes and failures were recorded: a route that
\* recovered is not tripped again for its old failures, and no trip is lost.
ClosedIsBelowThreshold ==
    state = "Closed" /\ (\A a \in Attempts : ~Recording(a)) => failures < Threshold

----------------------------------------------------------------------------
(* A statement of the sources that the breaker does not meet.              *)

\* "so the slot isn't leaked and the route can be probed again": in HalfOpen a
\* probe slot that is taken has an attempt in flight that can still release it.
ProbeSlotOwned ==
    state = "HalfOpen" /\ probe => \E a \in Attempts : att[a].pc # "idle"
=============================================================================
