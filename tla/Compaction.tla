----------------------------- MODULE Compaction -----------------------------
(***************************************************************************)
(* The history compactors of caliban-agent-core, as operators on message   *)
(* sequences.  A message keeps what compaction looks at: its role, whether *)
(* it has content besides tool blocks, and the ids of the tool calls and   *)
(* the tool results in it.  Token counts only decide whether a compactor   *)
(* acts; the turn loop leaves that choice open.  MicroCompactor and the    *)
(* in-window truncation rewrite texts and keep every block, so they do not *)
(* change a history at this level.                                         *)
(***************************************************************************)
EXTENDS Naturals, Sequences, FiniteSets, FiniteSetsExt

CONSTANT KeepRecentTurns    \* DropOldestCompactor.keep_recent_turns

ASSUME KeepRecentTurnsAssumption == KeepRecentTurns \in Nat

SystemText        == [role |-> "system", text |-> TRUE, uses |-> <<>>, results |-> <<>>]
UserText          == [role |-> "user", text |-> TRUE, uses |-> <<>>, results |-> <<>>]
AssistantText     == [role |-> "assistant", text |-> TRUE, uses |-> <<>>, results |-> <<>>]
Assistant(t, ids) == [role |-> "assistant", text |-> t, uses |-> ids, results |-> <<>>]
ToolResults(ids)  == [role |-> "user", text |-> FALSE, uses |-> <<>>, results |-> ids]

UseIds(h)    == UNION {Range(h[i].uses) : i \in DOMAIN h}
ResultIds(h) == UNION {Range(h[i].results) : i \in DOMAIN h}

HasContent(m) == m.text \/ m.uses # <<>> \/ m.results # <<>>

\* iter().filter().collect(): the elements of s at the positions in keep, in order.
\* (A closed form of SelectSeq, whose recursion no prover can unfold.)
Filter(s, keep) ==
    [k \in 1 .. Cardinality(keep) |->
        s[CHOOSE i \in keep : Cardinality({j \in keep : j <= i}) = k]]

\* sanitize_tool_pairs: results without a call, calls without a result, and
\* the messages emptied by that.
SanitizeToolPairs(h) ==
    LET paired  == UseIds(h) \cap ResultIds(h)
        only(s) == Filter(s, {i \in DOMAIN s : s[i] \in paired})
        kept    == [i \in DOMAIN h |->
                       [h[i] EXCEPT !.uses = only(h[i].uses), !.results = only(h[i].results)]]
    IN  Filter(kept, {i \in DOMAIN kept : HasContent(kept[i])})

\* A genuine user turn: the only place a retained window may open.
IsClean(m) == m.role = "user" /\ m.results = <<>>

\* clean_tail_start, as the number of messages dropped.
CleanTailStart(body, desired) ==
    LET ideal  == IF Len(body) <= desired THEN 0 ELSE Len(body) - desired
        clean  == {i \in 0 .. Len(body) - 1 : IsClean(body[i + 1])}
        after  == {i \in clean : i >= ideal}
        before == {i \in clean : i < ideal}
    IN  IF after # {} THEN Min(after)
        ELSE IF before # {} THEN Max(before)
        ELSE 0

\* The system messages that open a history are kept whatever happens.
LeadingSystems(h) ==
    LET n == Min({i \in 0 .. Len(h) :
                        i = Len(h) \/ h[i + 1].role # "system"})
    IN  SubSeq(h, 1, n)

Body(h) == SubSeq(h, Len(LeadingSystems(h)) + 1, Len(h))

\* The retained tail of a body that drops its first start messages.
RetainedTail(body, start) == SanitizeToolPairs(SubSeq(body, start + 1, Len(body)))

\* DropOldestCompactor::compact, when it acts.
DropOldest(h) ==
    LeadingSystems(h)
        \o RetainedTail(Body(h), CleanTailStart(Body(h), 2 * KeepRecentTurns))

\* SummarizingCompactor::compact, when it acts: the dropped prefix becomes a
\* system message; with nothing to drop only the tail is truncated.
Summarize(h) ==
    LET start   == CleanTailStart(Body(h), 2 * KeepRecentTurns)
        summary == IF start = 0 THEN <<>> ELSE <<SystemText>>
    IN  LeadingSystems(h) \o summary \o RetainedTail(Body(h), start)

Compactions(h) == {DropOldest(h), Summarize(h)}

----------------------------------------------------------------------------
(* What a provider accepts.                                                *)

\* Every tool call is answered in the next message, every result answers a
\* call of the message before, the conversation opens with a user message and
\* no two assistant messages follow each other.
WellFormed(h) ==
    LET b == Body(h) IN
    /\ b # <<>> /\ IsClean(b[1])
    /\ \A i \in DOMAIN b :
          /\ b[i].results # <<>> =>
                i > 1 /\ Range(b[i].results) \subseteq Range(b[i - 1].uses)
          /\ b[i].uses # <<>> =>
                /\ i < Len(b)
                /\ Range(b[i].uses) \subseteq Range(b[i + 1].results)
          /\ i > 1 /\ b[i].role = "assistant" => b[i - 1].role # "assistant"
=============================================================================
