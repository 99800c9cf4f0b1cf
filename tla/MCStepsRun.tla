----------------------------- MODULE MCStepsRun -----------------------------
(***************************************************************************)
(* Three steps for TLC, each with one of the definitions below: they name  *)
(* one or both of two parameters that share a variable, one of them the    *)
(* target, which a step may set itself, and author their bounds in every   *)
(* way that matters.  One command ignores the signal of its limit.         *)
(***************************************************************************)
EXTENDS StepsRun, TLC

CONSTANTS p, q, v

MCEnvName == p :> v @@ q :> v

Plain == [flaw |-> "none", uses |-> p :> "plain" @@ q :> "no", env |-> {v},
          timeout |-> Unusable, retries |-> Unusable, retry_delay |-> Unusable,
          continue_on_error |-> FALSE, always_run |-> FALSE, stubborn |-> FALSE,
          expect_empty |-> FALSE, expect_match |-> "absent"]

MCDefinitions ==
    {Plain,
     [Plain EXCEPT !.uses = p :> "fallback" @@ q :> "fallback",
                   !.timeout = 7, !.retries = 9, !.retry_delay = 9],
     [Plain EXCEPT !.timeout = 0, !.retries = 1, !.retry_delay = -1,
                   !.expect_match = "pattern", !.continue_on_error = TRUE],
     [Plain EXCEPT !.flaw = "escapes", !.continue_on_error = TRUE],
     [Plain EXCEPT !.always_run = TRUE, !.retries = -3, !.expect_empty = TRUE,
                   !.timeout = 1],
     [Plain EXCEPT !.uses = p :> "no" @@ q :> "plain", !.stubborn = TRUE,
                   !.timeout = 1, !.retries = 1]}

=============================================================================
