----------------------------- MODULE StopVerdict -----------------------------
(***************************************************************************)
(* "Crash decides": what a rejection of a dispatched agent was, the record *)
(* it leaves behind, and the verdict a container gives once a run stop has *)
(* reached something inside it (utils/runStop.ts, utils/crashPlaceholder.ts*)
(* and utils/stopVerdict.ts).                                              *)
(*                                                                         *)
(* A record keeps what these rules and the gates read: the decision where  *)
(* it matters (ABORTED or not), whether core synthesized it (the version   *)
(* marker), its degradation marks, its decision class, its score, and      *)
(* whether it is a workflow result that counted no executed phase (empty). *)
(***************************************************************************)
EXTENDS Integers

\* A score is a number from 0 to 100; NoScore is the source's null.
NoScore == -1

Classes == {"positive", "conditional", "negative", "neutral", "absent"}
Marks   == {"run_stopped", "run_stopped_partial", "deadline", "child_crashed"}

Record == [aborted : BOOLEAN, synthesized : BOOLEAN, marks : SUBSET Marks,
           class : Classes, score : Int, empty : BOOLEAN]

\* What an AbortSignal says: not aborted, aborted by a decision to stop, or
\* aborted by AbortSignal.timeout (its reason is a TimeoutError).
Signals == {"live", "aborted", "deadline"}

isDeadlineSignal(signal) == signal = "deadline"

(***************************************************************************)
(* Rejections, classified when they happen.  code is "CANCELLED" for a     *)
(* CancelledError and anything else for another error.                     *)
(***************************************************************************)
\* (mistake: a deadline is taken for a decision to stop)
isRunStopAbortAny(code, signal) == signal # "live" /\ code = "CANCELLED"

isRunStopAbort(code, signal) ==
    /\ signal # "live"
    /\ ~isDeadlineSignal(signal)
    /\ code = "CANCELLED"

rejectionKind(code, signal) ==
    IF isRunStopAbort(code, signal) THEN "stopped"
    ELSE IF code = "CANCELLED" /\ isDeadlineSignal(signal) THEN "deadline"
    ELSE "crash"

-----------------------------------------------------------------------------
(* The synthesized records. *)

\* An agent that ran to an answer: not synthesized, no stop marks.
answered(class, score) ==
    [aborted |-> FALSE, synthesized |-> FALSE, marks |-> {},
     class |-> class, score |-> score, empty |-> FALSE]

\* A workflow result that counted no executed phase, and a container's marks.
executedNothing(r) == [r EXCEPT !.empty = TRUE]
marked(r, marks) == [r EXCEPT !.marks = marks]

crashPlaceholder ==
    [aborted |-> FALSE, synthesized |-> TRUE, marks |-> {},
     class |-> "negative", score |-> NoScore, empty |-> FALSE]

abortedPlaceholder ==
    [aborted |-> TRUE, synthesized |-> TRUE, marks |-> {"run_stopped"},
     class |-> "neutral", score |-> NoScore, empty |-> FALSE]

withDeadlineMark(r) == [r EXCEPT !.marks = @ \union {"deadline"}]

\* The record a rejected agent leaves, by what its rejection was.
placeholderFor(kind) ==
    CASE kind = "stopped"  -> abortedPlaceholder
      [] kind = "deadline" -> withDeadlineMark(crashPlaceholder)
      [] kind = "crash"    -> crashPlaceholder

-----------------------------------------------------------------------------
(* What a container reads from a record inside it. *)

isAbortedRecord(r) == r.aborted /\ r.synthesized

isCrashRecord(r) == r.synthesized /\ ~isAbortedRecord(r)

stopReached(r) ==
    \/ isAbortedRecord(r)
    \/ r.marks \intersect {"run_stopped", "run_stopped_partial", "deadline"} # {}

crashInside(r) ==
    \/ isCrashRecord(r)
    \/ r.marks \intersect {"child_crashed", "run_stopped_partial"} # {}

(***************************************************************************)
(* The verdict imposed on a container of the records in children: none     *)
(* when no stop reached any of them, and the container's own rules apply.  *)
(* extra carries the facts a caller adds beside the children.              *)
(***************************************************************************)
stopVerdictWith(children, extraStop, extraCrash) ==
    IF ~extraStop /\ \A r \in children : ~stopReached(r) THEN "none"
    ELSE IF extraCrash \/ \E r \in children : crashInside(r) THEN "negative"
    ELSE "aborted"

stopVerdict(children) == stopVerdictWith(children, FALSE, FALSE)

containerMarkers(verdict, crashed) ==
    (IF verdict = "aborted"  THEN {"run_stopped"}         ELSE {}) \union
    (IF verdict = "negative" THEN {"run_stopped_partial"} ELSE {}) \union
    (IF crashed              THEN {"child_crashed"}       ELSE {})

\* The record of a container: r, what it makes of its children's scores, with the
\* marks of what happened inside it.
containerOf(r, children) ==
    marked(r, containerMarkers(stopVerdict(children), \E c \in children : crashInside(c)))

-----------------------------------------------------------------------------
(***************************************************************************)
(* What a container may come back with while its signal says sig: the      *)
(* marks of a stop only after one, with the class crash decides gave it.   *)
(* A command is stricter, being judged whole: a crash makes it negative.   *)
(***************************************************************************)
mayAnswer(r, sig) ==
    /\ ~r.synthesized /\ "deadline" \notin r.marks
    /\ "run_stopped" \in r.marks => sig = "aborted" /\ r.class = "neutral"
    /\ "run_stopped_partial" \in r.marks => sig # "live" /\ r.class = "negative"
    /\ crashInside(r) => r.class # "positive"

commandMayAnswer(r, sig) ==
    /\ mayAnswer(r, sig)
    /\ crashInside(r) => r.class = "negative" /\ "child_crashed" \in r.marks

=============================================================================
