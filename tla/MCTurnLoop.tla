----------------------------- MODULE MCTurnLoop -----------------------------
(* Small runs of the turn loop for TLC. *)
EXTENDS TurnLoop

Answer(stop, text, calls) ==
    [stop |-> stop, text |-> text, calls |-> calls, tokens |-> TRUE]

\* Every branch that a stop reason, a text and a number of calls select: plain,
\* thinking-only and empty ends, ends that still carry a call, two parallel
\* calls, truncated and refused responses with and without calls.
MCResponses ==
    {Answer("EndTurn", "text", 0), Answer("EndTurn", "thinking", 0),
     [Answer("EndTurn", "empty", 0) EXCEPT !.tokens = FALSE],
     Answer("EndTurn", "empty", 1), Answer("ToolUse", "empty", 2),
     Answer("MaxTokens", "text", 0), Answer("MaxTokens", "empty", 1),
     Answer("Refusal", "text", 0), Answer("Refusal", "empty", 0),
     Answer("Refusal", "empty", 1)}

\* Recovery with and without the no-edit nudge, and an interactive session.
MCConfigs ==
    {[recovery |-> TRUE, interactive |-> FALSE, noEdit |-> 0],
     [recovery |-> TRUE, interactive |-> FALSE, noEdit |-> 1],
     [recovery |-> FALSE, interactive |-> TRUE, noEdit |-> 0]}
=============================================================================
