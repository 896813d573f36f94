-------------------------- MODULE MCPermissionGate --------------------------
(* Small instances of PermissionGate.                                      *)
EXTENDS PermissionGate

\* A terminal session without rules of its own.
Plain == [cliAllow |-> <<>>, cliDeny |-> <<>>, cliAsk |-> <<>>,
          ordered |-> <<>>, deny |-> <<>>, ask |-> <<>>, allow |-> <<>>,
          serverDeny |-> <<>>, serverAsk |-> <<>>, serverAllow |-> <<>>,
          cliMode |-> Nothing, defaultMode |-> Nothing, enforce |-> FALSE,
          autoAllow |-> FALSE, latch |-> FALSE, autoDisabled |-> FALSE, tui |-> TRUE,
          resumed |-> {}]

MCCalls     == {"read", "write", "bash", "enter", "exit"}
MCPatterns  == {{"bash"}, MCCalls}

\* A resumed session; a bypass flag with a settings deny that a server's rule
\* contradicts; non-interactive runs with ordered rules, with a rule of the
\* command line, and with the classifier disabled; one that enforce refuses.
MCSetups ==
    { [Plain EXCEPT !.resumed = {TRUE}],
      [Plain EXCEPT !.cliAllow = <<{"read"}>>, !.deny = <<{"bash"}>>, !.latch = TRUE,
                    !.serverAllow = <<{"bash"}>>, !.cliMode = "auto"],
      [Plain EXCEPT !.tui = FALSE, !.defaultMode = "dontAsk", !.enforce = TRUE,
                    !.ordered = <<[pats |-> {"bash"}, action |-> "deny"]>>],
      [Plain EXCEPT !.tui = FALSE, !.cliMode = "acceptEdits", !.cliDeny = <<{"bash"}>>],
      [Plain EXCEPT !.tui = FALSE, !.cliMode = "auto", !.autoDisabled = TRUE,
                    !.autoAllow = TRUE, !.serverDeny = <<{"write"}>>],
      [Plain EXCEPT !.tui = FALSE, !.cliMode = "acceptEdits", !.enforce = TRUE] }
=============================================================================
