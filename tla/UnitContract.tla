----------------------------- MODULE UnitContract -----------------------------
(***************************************************************************)
(* What a command, or a workflow, promises the run that called it: one     *)
(* reply, which is an answer or a rejection, and which says no more of a   *)
(* stop than the caller's own signal does.  The runs above are modelled on *)
(* this promise, the runs below keep it.                                   *)
(***************************************************************************)
EXTENDS StopVerdict

\* Whether the unit may answer with record r under a signal.
CONSTANT allowed(_, _)

VARIABLES
    signal,   \* the signal the caller handed down
    reply     \* the record the unit left with its caller, once it did

vars == <<signal, reply>>

Init == signal \in Signals /\ reply = {}

Fires == /\ reply = {} /\ signal = "live"
         /\ signal' \in Signals \ {"live"}
         /\ UNCHANGED reply

Replies == /\ reply = {}
           /\ \E r \in reply' : allowed(r, signal) /\ reply' = {r}
           /\ UNCHANGED signal

\* The caller classifies a rejection by the signal it sees at that moment.
Throws == /\ reply = {}
          /\ \E code \in {"CANCELLED", "other"} :
               reply' = {placeholderFor(rejectionKind(code, signal))}
          /\ UNCHANGED signal

Next == Fires \/ Replies \/ Throws

SafeSpec == Init /\ [][Next]_vars

===============================================================================
