---------------------------- MODULE Conversation ----------------------------
(***************************************************************************)
(* The conversation of each TUI process beside its checkpoints: the        *)
(* history a run builds, app.messages between runs, and the part of        *)
(* /rewind that truncates it.  A message is its kind.                      *)
(***************************************************************************)
EXTENDS Checkpoint

VARIABLES
    msgs,   \* app.messages
    hist,   \* the history of the run
    both    \* the /rewind under way restores the conversation after the files

cvars == <<checkpointVars, msgs, hist, both>>

CInit ==
    /\ CheckpointInit
    /\ msgs = [p \in Procs |-> <<>>] /\ hist = [p \in Procs |-> <<>>]
    /\ both = [p \in Procs |-> FALSE]

\* The submitted prompt follows app.messages.
Prompted(p) ==
    /\ Claim(p) \/ ClaimFails(p)
    /\ hist' = [hist EXCEPT ![p] = Append(msgs[p], "prompt")]
    /\ UNCHANGED <<msgs, both>>

\* A turn that is through adds an assistant message with its calls and one user
\* message with all their results; a turn that was stopped adds nothing.
TurnEnds(p, f) ==
    /\ WriteFile(p, f) \/ ToolFails(p, f)
    /\ hist' = [hist EXCEPT ![p] = IF tui'[p].pc = "run" THEN @ \o <<"call", "result">> ELSE @]
    /\ UNCHANGED <<msgs, both>>

\* RunEnd carries the history to app.messages; a run that was cancelled or failed
\* ends without a last answer.
Ended(p) ==
    /\ \/ /\ tui[p].pc = "run" /\ (RunEnds(p) \/ CloseFails(p))
          /\ msgs' = [msgs EXCEPT ![p] = Append(hist[p], "reply")]
       \/ /\ RunEnds(p) \/ CloseFails(p) \/ RunFails(p)
          /\ msgs' = [msgs EXCEPT ![p] = hist[p]]
    /\ UNCHANGED <<hist, both>>

\* /clear.
Clear(p) ==
    /\ tui[p].pc = "idle" /\ msgs[p] # <<>>
    /\ msgs' = [msgs EXCEPT ![p] = <<>>]
    /\ UNCHANGED <<checkpointVars, hist, both>>

\* Prompts and tool results both have Role::User.
IsUser(m) == m \in {"prompt", "result"}

UsersUpTo(h, k) == Cardinality({j \in 1 .. k : IsUser(h[j])})

\* restore_conversation keeps everything before the user message that follows the
\* idx-th one; no message carries an id, so it always counts.
RestoreConversation(h, idx) ==
    IF UsersUpTo(h, Len(h)) <= idx THEN h
    ELSE SubSeq(h, 1, (CHOOSE k \in DOMAIN h : IsUser(h[k]) /\ UsersUpTo(h, k) = idx + 1) - 1)

\* Restoring both skips the files when the manifest has no entries.
RewindTalk(p, i) ==
    /\ tui[p].pc = "idle" /\ dirs[i].man # "none"
    /\ rewinds < MaxRewinds /\ rewinds' = rewinds + 1
    /\ msgs' = [msgs EXCEPT ![p] = RestoreConversation(@, i)]
    /\ UNCHANGED <<files, dirs, rec, tui, began, unattended, written, failures, hist, both>>

RewindFiles(p, i) ==
    /\ Rewind(p, i)
    /\ \E b \in BOOLEAN : both' = [both EXCEPT ![p] = b] /\ (b => DOMAIN dirs[i].entries # {})
    /\ UNCHANGED <<msgs, hist>>

\* The files are done, and after them the conversation.
RewoundFiles(p) ==
    /\ FilesRestored(p)
    /\ msgs' = IF both[p] THEN [msgs EXCEPT ![p] = RestoreConversation(@, tui[p].idx)] ELSE msgs
    /\ UNCHANGED <<hist, both>>

Restarted(p) ==
    /\ Crash(p)
    /\ msgs' = [msgs EXCEPT ![p] = <<>>] /\ hist' = [hist EXCEPT ![p] = <<>>]
    /\ both' = [both EXCEPT ![p] = FALSE]

\* The steps that touch no message.
Silent(p) ==
    /\ \/ Submit(p) \/ ScanBlobs(p) \/ MarkCleared(p) \/ DropBlobs(p) \/ SweepEnds(p)
       \/ Verify(p) \/ RestoreFails(p)
       \/ \E f \in Files :
             Capture(p, f) \/ CaptureFails(p, f) \/ Apply(p, f) \/ Untracked(f)
    /\ UNCHANGED <<msgs, hist, both>>

CNext ==
    \E p \in Procs :
        \/ Prompted(p) \/ Ended(p) \/ Clear(p) \/ RewoundFiles(p) \/ Restarted(p) \/ Silent(p)
        \/ \E f \in Files : TurnEnds(p, f)
        \/ \E i \in Prompts : RewindTalk(p, i) \/ RewindFiles(p, i)

CSpec == CInit /\ [][CNext]_cvars

----------------------------------------------------------------------------
\* "Truncate conversation" removes all messages after the selected prompt's last
\* assistant message, so restore_conversation only ever cuts in front of a prompt.
CutsBetweenPrompts ==
    [][\A p \in Procs :
          LET k == Len(msgs'[p])
          IN 0 < k /\ k < Len(msgs[p]) => msgs[p][k + 1] = "prompt"]_cvars
=============================================================================
