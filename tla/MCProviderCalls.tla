--------------------------- MODULE MCProviderCalls ---------------------------
(***************************************************************************)
(* Three calls for TLC: two of one pipeline run, only one of which asks    *)
(* for an object, and one of a caller with a signal of its own that does.  *)
(***************************************************************************)
EXTENDS ProviderCalls, TLC

CONSTANTS a, b, c, run, own

MCSignalOf == a :> run @@ b :> run @@ c :> own

=============================================================================
