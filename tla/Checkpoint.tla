---------------------------- MODULE Checkpoint -----------------------------
(***************************************************************************)
(* Checkpoints and /rewind: the recorder that CheckpointHook drives during *)
(* a run, the per-prompt directories with their manifests and blobs, the   *)
(* byte-cap sweep, and the restore of files that the TUI executes between  *)
(* runs.  Module Conversation adds the messages and their restore.         *)
(*                                                                         *)
(* Several TUI processes may share one checkpoint directory: every session *)
(* without a name uses the same one, and the sweep spans all of a project. *)
(* The content of a file is a number, 0 if there is no file; every write   *)
(* makes a new content.  A blob is named by its content.                   *)
(***************************************************************************)
EXTENDS Naturals, Sequences, FiniteSets, Functions

CONSTANTS
    Procs,        \* TUI processes over one checkpoint directory
    Files,        \* files of the workspace
    MaxPrompts,   \* bound: prompt directories
    MaxToolTurns, \* bound: turns with tool calls in one run
    MaxWrites,    \* bound: contents written
    Cap,          \* CALIBAN_CHECKPOINT_MAX_BYTES, in blobs
    MaxRewinds,   \* bound: uses of /rewind
    MaxFailures   \* bound: failing file operations and crashes

ASSUME CheckpointAssumption ==
    /\ MaxPrompts \in Nat /\ MaxToolTurns \in Nat /\ MaxWrites \in Nat
    /\ Cap \in Nat /\ MaxRewinds \in Nat /\ MaxFailures \in Nat

VARIABLES
    files,      \* the working tree
    dirs,       \* prompt-NNN directories, by index
    rec,        \* the open prompt of each process's recorder
    tui,        \* what each process is doing
    began,      \* history: the working tree when a prompt was opened, Lost for a
                \* file that was then changed past the recorder before its capture
    unattended, \* history: prompts swept before they had a manifest
    written,    \* contents written so far
    rewinds,    \* uses of /rewind so far
    failures    \* failures so far

checkpointVars == <<files, dirs, rec, tui, began, unattended, written, rewinds, failures>>

Prompts == 1 .. MaxPrompts
Content == 0 .. MaxWrites + 1
Lost    == MaxWrites + 2
Entry   == [error : BOOLEAN, pre : Content]
Entries == UNION {[D -> Entry] : D \in SUBSET Files}
Empty   == [f \in {} |-> [error |-> FALSE, pre |-> 0]]

NoDir  == [made |-> FALSE, man |-> "none", entries |-> Empty, partial |-> FALSE, blobs |-> {}]
Closed == [open |-> FALSE, idx |-> 0, entries |-> Empty, partial |-> FALSE]
Idle   == [pc |-> "idle", idx |-> 0, planned |-> {}, turns |-> 0, todo |-> Empty, scan |-> <<>>, total |-> 0]

CheckpointInit ==
    /\ files \in [Files -> {0, 1}]
    /\ dirs = [i \in Prompts |-> NoDir]
    /\ rec = [p \in Procs |-> Closed] /\ tui = [p \in Procs |-> Idle]
    /\ began = [i \in Prompts |-> [f \in Files |-> 0]]
    /\ unattended = {} /\ written = 1 /\ rewinds = 0 /\ failures = 0

Fault == failures < MaxFailures /\ failures' = failures + 1

\* f is changed past the recorders of the processes in Q: a prompt that is open
\* there and has not captured f can no longer capture what f was.
Taint(Q, f) ==
    began' = [i \in Prompts |->
        IF \E q \in Q : rec[q].open /\ rec[q].idx = i /\ f \notin DOMAIN rec[q].entries
        THEN [began[i] EXCEPT ![f] = Lost] ELSE began[i]]

----------------------------------------------------------------------------
(* A run: before_run, before_tool, after_run.                              *)

Made == {i \in Prompts : dirs[i].made}

\* next_prompt_index: one past the highest directory, 1 when the scan fails.
Submit(p) ==
    /\ tui[p].pc = "idle"
    /\ \E want \in 1 .. MaxPrompts :
          /\ \/ want = 1 + (IF Made = {} THEN 0 ELSE CHOOSE i \in Made : \A j \in Made : j <= i)
                /\ UNCHANGED failures
             \/ want = 1 /\ Fault
          /\ tui' = [tui EXCEPT ![p] = [Idle EXCEPT !.pc = "claim", !.idx = want]]
    /\ UNCHANGED <<files, dirs, rec, began, unattended, written, rewinds>>

StartRun(p, i) ==
    tui' = [tui EXCEPT ![p] = [Idle EXCEPT !.pc = "run", !.idx = i]]

OpenPrompt(p, i) == rec' = [rec EXCEPT ![p] = [Closed EXCEPT !.open = TRUE, !.idx = i]]

\* Variant: the index of the scan is taken whether or not its directory exists.
ClaimShared(p) ==
    /\ tui[p].pc = "claim"
    /\ LET i == tui[p].idx
       IN /\ dirs' = [dirs EXCEPT ![i].made = TRUE]
          /\ began' = [began EXCEPT ![i] = files] /\ OpenPrompt(p, i) /\ StartRun(p, i)
    /\ UNCHANGED <<files, unattended, written, rewinds, failures>>

\* claim_prompt_index takes the first free directory from there on, open_prompt
\* starts an empty manifest in place of whatever the recorder held.
Claim(p) ==
    /\ tui[p].pc = "claim"
    /\ \E i \in tui[p].idx .. MaxPrompts :
          /\ i \notin Made /\ tui[p].idx .. (i - 1) \subseteq Made
          /\ dirs' = [dirs EXCEPT ![i].made = TRUE]
          /\ began' = [began EXCEPT ![i] = files] /\ OpenPrompt(p, i) /\ StartRun(p, i)
    /\ UNCHANGED <<files, unattended, written, rewinds, failures>>

\* The directory cannot be made: the run goes on with the recorder as it was.
ClaimFails(p) ==
    /\ tui[p].pc = "claim" /\ Fault /\ StartRun(p, 0)
    /\ UNCHANGED <<files, dirs, rec, began, unattended, written, rewinds>>

PlanCall(p, f) ==
    /\ tui[p].pc \in {"run", "plan"} /\ f \notin tui[p].planned
    /\ tui[p].pc = "run" => tui[p].turns < MaxToolTurns
    /\ tui' = [tui EXCEPT ![p].pc = "plan", ![p].planned = @ \cup {f},
                          ![p].turns = IF tui[p].pc = "run" THEN @ + 1 ELSE @]

Record(p, f, e) ==
    /\ rec' = [rec EXCEPT ![p].entries = [g \in DOMAIN @ \cup {f} |-> IF g = f THEN e ELSE @[g]],
                          ![p].partial = @ \/ e.error]
    /\ dirs' = IF e.error \/ e.pre = 0 THEN dirs
               ELSE [dirs EXCEPT ![rec[p].idx].blobs = @ \cup {e.pre}]

\* Variant: the last writer of a file wins.
CaptureLast(p, f) ==
    /\ PlanCall(p, f)
    /\ IF ~rec[p].open THEN UNCHANGED <<rec, dirs>>
       ELSE Record(p, f, [error |-> FALSE, pre |-> files[f]])
    /\ UNCHANGED <<files, began, unattended, written, rewinds, failures>>

\* before_tool of a file-writing call: capture stores the pre-image of the first
\* writer; without an open prompt it does nothing.
Capture(p, f) ==
    /\ PlanCall(p, f)
    /\ IF ~rec[p].open \/ f \in DOMAIN rec[p].entries THEN UNCHANGED <<rec, dirs>>
       ELSE Record(p, f, [error |-> FALSE, pre |-> files[f]])
    /\ UNCHANGED <<files, began, unattended, written, rewinds, failures>>

\* The pre-image is too large or unreadable, which leaves an entry with an error,
\* or its blob cannot be written, which leaves none; the manifest is partial.
CaptureFails(p, f) ==
    /\ PlanCall(p, f) /\ Fault /\ rec[p].open /\ f \notin DOMAIN rec[p].entries
    /\ \/ files[f] # 0 /\ Record(p, f, [error |-> TRUE, pre |-> 0])
       \/ /\ files[f] # 0 /\ rec' = [rec EXCEPT ![p].partial = TRUE]
          /\ UNCHANGED dirs
    /\ UNCHANGED <<files, began, unattended, written, rewinds>>

\* The call is through, and with the last one the turn: the run goes on, or a call
\* came back with a stop.
Returned(p, f) ==
    LET left == tui[p].planned \ {f}
    IN \E pc \in IF left = {} THEN {"run", "stop"} ELSE {"tools"} :
           tui' = [tui EXCEPT ![p].planned = left, ![p].pc = pc]

\* The run ends by itself, at the stop of a call, or cancelled while it plans.
Ending(p) == tui[p].pc \in {"run", "stop", "plan"}

\* A file-writing tool runs after the planning of its turn.
WriteFile(p, f) ==
    /\ tui[p].pc \in {"plan", "tools"} /\ f \in tui[p].planned /\ written <= MaxWrites
    /\ files' = [files EXCEPT ![f] = written + 1] /\ written' = written + 1
    /\ Taint(Procs \ {p}, f) /\ Returned(p, f)
    /\ UNCHANGED <<dirs, rec, unattended, rewinds, failures>>

\* The tool returned an error and changed nothing.
ToolFails(p, f) ==
    /\ tui[p].pc \in {"plan", "tools"} /\ f \in tui[p].planned
    /\ Returned(p, f)
    /\ UNCHANGED <<files, dirs, rec, began, unattended, written, rewinds, failures>>

\* Bash, a sub-agent (which has no hooks) or the user's editor changes a file.
Untracked(f) ==
    /\ written <= MaxWrites /\ written' = written + 1
    /\ \E c \in {0, written + 1} : files' = [files EXCEPT ![f] = c]
    /\ Taint(Procs, f)
    /\ UNCHANGED <<dirs, rec, tui, unattended, rewinds, failures>>

\* after_run, for a run that ended by itself or was cancelled: close_prompt saves
\* the manifest and starts the sweep.
RunEnds(p) ==
    /\ Ending(p)
    /\ rec' = [rec EXCEPT ![p] = Closed]
    /\ IF rec[p].open
       THEN /\ dirs' = [dirs EXCEPT ![rec[p].idx] =
                   [@ EXCEPT !.made = TRUE, !.man = "files", !.entries = rec[p].entries,
                             !.partial = rec[p].partial]]
            /\ tui' = [tui EXCEPT ![p] = [Idle EXCEPT !.pc = "scan", !.idx = rec[p].idx]]
       ELSE UNCHANGED dirs /\ tui' = [tui EXCEPT ![p] = Idle]
    /\ UNCHANGED <<files, began, unattended, written, rewinds, failures>>

\* The manifest cannot be saved; the recorder has already let go of it.
CloseFails(p) ==
    /\ Ending(p) /\ rec[p].open /\ Fault
    /\ rec' = [rec EXCEPT ![p] = Closed] /\ tui' = [tui EXCEPT ![p] = Idle]
    /\ UNCHANGED <<files, dirs, began, unattended, written, rewinds>>

\* A run that failed calls after_run_failure, which the checkpoint hook does not
\* implement: its prompt stays open in the recorder.
RunFails(p) ==
    /\ tui[p].pc \in {"run", "stop"}
    /\ tui' = [tui EXCEPT ![p] = Idle]
    /\ UNCHANGED <<files, dirs, rec, began, unattended, written, rewinds, failures>>

----------------------------------------------------------------------------
(* The sweep.                                                              *)

\* The scan of enforce_byte_cap: the size of every other prompt that has blobs.
ScanBlobs(p) ==
    /\ tui[p].pc = "scan"
    /\ LET held == {i \in Prompts \ {tui[p].idx} : dirs[i].blobs # {}}
           scan == [i \in held |-> Cardinality(dirs[i].blobs)]
       IN tui' = [tui EXCEPT ![p] =
             [Idle EXCEPT !.pc = "sweep", !.scan = scan, !.total = SumFunction(scan)]]
    /\ UNCHANGED <<files, dirs, rec, began, unattended, written, rewinds, failures>>

\* The scanned prompt the sweep takes next, the oldest one left, while the total is
\* above the cap.
Oldest(scan) == CHOOSE i \in DOMAIN scan : \A j \in DOMAIN scan : i <= j
Over(p) == DOMAIN tui[p].scan # {} /\ tui[p].total > Cap
Rest(scan) == [j \in DOMAIN scan \ {Oldest(scan)} |-> scan[j]]

\* Variant: the blobs go first, the manifest is rewritten afterwards.
MarkClearedLate(p) ==
    /\ tui[p].pc = "sweep" /\ Over(p)
    /\ LET i == Oldest(tui[p].scan)
       IN /\ dirs' = [dirs EXCEPT ![i].blobs = {}]
          /\ unattended' = IF dirs[i].man = "none" THEN unattended \cup {i} ELSE unattended
    /\ tui' = [tui EXCEPT ![p].pc = "evict"]
    /\ UNCHANGED <<files, rec, began, written, rewinds, failures>>

\* The manifest, if there is one, is rewritten to Cleared.
MarkCleared(p) ==
    /\ tui[p].pc = "sweep" /\ Over(p)
    /\ LET i == Oldest(tui[p].scan)
       IN IF dirs[i].blobs = {}
          THEN /\ tui' = [tui EXCEPT ![p].scan = Rest(@)]
               /\ UNCHANGED <<dirs, unattended>>
          ELSE /\ dirs' = IF dirs[i].man = "none" THEN dirs
                          ELSE [dirs EXCEPT ![i].man = "cleared", ![i].entries = Empty]
               /\ unattended' = IF dirs[i].man = "none" THEN unattended \cup {i} ELSE unattended
               /\ tui' = [tui EXCEPT ![p].pc = "evict"]
    /\ UNCHANGED <<files, rec, began, written, rewinds, failures>>

\* Then the blobs are removed.
DropBlobs(p) ==
    /\ tui[p].pc = "evict"
    /\ LET i == Oldest(tui[p].scan)
       IN /\ dirs' = [dirs EXCEPT ![i].blobs = {}]
          /\ tui' = [tui EXCEPT ![p].pc = "sweep", ![p].scan = Rest(@),
                                ![p].total = @ - tui[p].scan[i]]
    /\ UNCHANGED <<files, rec, began, unattended, written, rewinds, failures>>

\* The sweep is through, or gives up on an error.
SweepEnds(p) ==
    /\ \/ tui[p].pc = "sweep" /\ ~Over(p) /\ UNCHANGED failures
       \/ tui[p].pc \in {"scan", "sweep", "evict"} /\ Fault
    /\ tui' = [tui EXCEPT ![p] = Idle]
    /\ UNCHANGED <<files, dirs, rec, began, unattended, written, rewinds>>

----------------------------------------------------------------------------
(* /rewind.                                                                *)

\* The action keys of the overlay act on a listed prompt, while no run is active.
Rewind(p, i) ==
    /\ tui[p].pc = "idle" /\ dirs[i].man # "none"
    /\ rewinds < MaxRewinds /\ rewinds' = rewinds + 1
    /\ tui' = [tui EXCEPT ![p] = [Idle EXCEPT !.pc = "verify", !.idx = i]]
    /\ UNCHANGED <<files, dirs, rec, began, unattended, written, failures>>

Restorable(i) == {f \in DOMAIN dirs[i].entries : ~dirs[i].entries[f].error}

\* Phase 1 of restore_files_only: the manifest is loaded again and every blob is
\* read and checked before anything is touched.
Verify(p) ==
    /\ tui[p].pc = "verify"
    /\ LET d == dirs[tui[p].idx]  S == Restorable(tui[p].idx)
       IN IF \A f \in S : d.entries[f].pre \in d.blobs \cup {0}
          THEN tui' = [tui EXCEPT ![p].pc = "apply", ![p].todo = [f \in S |-> d.entries[f]]]
          ELSE tui' = [tui EXCEPT ![p] = Idle]
    /\ UNCHANGED <<files, dirs, rec, began, unattended, written, rewinds, failures>>

\* Phase 2: files the prompt created are deleted first, then the rest is written.
Apply(p, f) ==
    LET todo == tui[p].todo
    IN /\ tui[p].pc = "apply" /\ f \in DOMAIN todo
       /\ todo[f].pre = 0 \/ \A g \in DOMAIN todo : todo[g].pre # 0
       /\ files' = [files EXCEPT ![f] = todo[f].pre] /\ Taint(Procs, f)
       /\ tui' = [tui EXCEPT ![p].todo = [g \in DOMAIN todo \ {f} |-> todo[g]]]
       /\ UNCHANGED <<dirs, rec, unattended, written, rewinds, failures>>

\* A link on the path or a file operation that fails ends the restore.
RestoreFails(p) ==
    /\ tui[p].pc \in {"verify", "apply"} /\ Fault
    /\ tui' = [tui EXCEPT ![p] = Idle]
    /\ UNCHANGED <<files, dirs, rec, began, unattended, written, rewinds>>

FilesRestored(p) ==
    /\ tui[p].pc = "apply" /\ DOMAIN tui[p].todo = {}
    /\ tui' = [tui EXCEPT ![p] = Idle]
    /\ UNCHANGED <<files, dirs, rec, began, unattended, written, rewinds, failures>>

\* The process ends at any moment; a new one starts over the same directory.
Crash(p) ==
    /\ Fault
    /\ tui' = [tui EXCEPT ![p] = Idle] /\ rec' = [rec EXCEPT ![p] = Closed]
    /\ UNCHANGED <<files, dirs, began, unattended, written, rewinds>>

Step(p) ==
    \/ Submit(p) \/ Claim(p) \/ ClaimFails(p)
    \/ RunEnds(p) \/ CloseFails(p) \/ RunFails(p)
    \/ ScanBlobs(p) \/ MarkCleared(p) \/ DropBlobs(p) \/ SweepEnds(p)
    \/ Verify(p) \/ RestoreFails(p) \/ FilesRestored(p) \/ Crash(p)
    \/ \E f \in Files :
          Capture(p, f) \/ CaptureFails(p, f) \/ WriteFile(p, f) \/ ToolFails(p, f) \/ Apply(p, f)
    \/ \E i \in Prompts : Rewind(p, i)

CheckpointNext == (\E p \in Procs : Step(p)) \/ (\E f \in Files : Untracked(f))

CheckpointSpec == CheckpointInit /\ [][CheckpointNext]_checkpointVars

----------------------------------------------------------------------------
(* Properties.                                                             *)

\* The variables hold what the directories and the processes hold; an open prompt
\* has a claimed index.
CheckpointTypeOK ==
    /\ files \in [Files -> Content]
    /\ dirs \in [Prompts -> [made : BOOLEAN, man : {"none", "files", "cleared"},
                             entries : Entries, partial : BOOLEAN, blobs : SUBSET Content]]
    /\ rec \in [Procs -> [open : BOOLEAN, idx : Prompts \cup {0}, entries : Entries,
                          partial : BOOLEAN]]
    /\ \A p \in Procs : rec[p].open <=> rec[p].idx # 0
    /\ \A p \in Procs :
          /\ tui[p].pc \in {"idle", "claim", "run", "plan", "tools", "stop", "scan", "sweep", "evict",
                            "verify", "apply"}
          /\ tui[p].planned \subseteq Files /\ DOMAIN tui[p].scan \subseteq Prompts /\ tui[p].total \in Nat
          /\ tui[p].todo \in Entries /\ tui[p].turns \in 0 .. MaxToolTurns
    /\ unattended \subseteq Prompts /\ written \in 1 .. MaxWrites + 1
    /\ rewinds \in 0 .. MaxRewinds /\ failures \in 0 .. MaxFailures

\* What a manifest would restore is what the file held when the prompt began,
\* whichever of its tools wrote the file and how often, unless the manifest is
\* marked partial or something past the recorder changed the file first.
PreimagesFromStart ==
    \A i \in Prompts :
        dirs[i].man = "files" /\ ~dirs[i].partial =>
            \A f \in Restorable(i) : began[i][f] \in {dirs[i].entries[f].pre, Lost}

\* A manifest on disk never promises a blob that is gone, wherever a sweep was
\* interrupted; the exception is a prompt that another process swept while it was
\* still being recorded.
BlobsBehindManifests ==
    \A i \in Prompts \ unattended :
        dirs[i].man = "files" =>
            \A f \in Restorable(i) : dirs[i].entries[f].pre \in dirs[i].blobs \cup {0}

\* Once saved, a prompt's manifest is only ever cleared: no other run and no other
\* process takes its slot.
ManifestsKept ==
    [][\A i \in Prompts : dirs[i].man # "none" =>
          dirs'[i].man = "cleared" \/ (dirs'[i].man = dirs[i].man
                                       /\ dirs'[i].entries = dirs[i].entries)]_checkpointVars
=============================================================================
