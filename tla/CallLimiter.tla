----------------------------- MODULE CallLimiter -----------------------------
(***************************************************************************)
(* What a provider's limiter promises the calls that go through it: never  *)
(* more than the limit inside, none kept waiting while there is room, and  *)
(* let in first come, first served.                                        *)
(***************************************************************************)
EXTENDS Naturals, Sequences, FiniteSets

CONSTANT Calls

VARIABLES
    limit,    \* how many calls may be inside at once
    line,     \* the calls that wait, in order of arrival
    inside    \* the calls that were let in and have not left

vars == <<limit, line, inside>>

Waiting == {line[i] : i \in DOMAIN line}

Init == limit \in Nat \ {0} /\ line = <<>> /\ inside = {}

Enters(c) == /\ c \notin inside \union Waiting
             /\ line = <<>> /\ Cardinality(inside) < limit
             /\ inside' = inside \union {c}
             /\ UNCHANGED <<limit, line>>

Queues(c) == /\ c \notin inside \union Waiting
             /\ Cardinality(inside) = limit
             /\ line' = Append(line, c)
             /\ UNCHANGED <<limit, inside>>

\* Whoever leaves lets in the first of those who wait.
Leaves(c) == /\ c \in inside
             /\ \/ line = <<>> /\ inside' = inside \ {c} /\ line' = line
                \/ /\ line # <<>> /\ line' = Tail(line)
                   /\ inside' = (inside \ {c}) \union {Head(line)}
             /\ UNCHANGED limit

Next == \E c \in Calls : Enters(c) \/ Queues(c) \/ Leaves(c)

Spec == Init /\ [][Next]_vars

===============================================================================
