-------------------------- MODULE WorkflowRunProofs --------------------------
(***************************************************************************)
(* Proofs about WorkflowRun, for every set of workflows, answers and       *)
(* callers' signals that satisfies its assumptions.                        *)
(***************************************************************************)
EXTENDS WorkflowRun, FiniteSetTheorems, TLAPS

-----------------------------------------------------------------------------
(* The records of settled units (StopVerdict). *)

\* An answer makes a record.
LEMMA AnsweredType == \A class \in Classes, score \in Int : answered(class, score) \in Record
  BY DEF answered, Record, Marks

\* So does the placeholder of a rejection, whatever it was.
LEMMA PlaceholderType == \A code, sig : placeholderFor(rejectionKind(code, sig)) \in Record
  <1>1. crashPlaceholder \in Record
    BY DEF crashPlaceholder, Record, Marks, Classes, NoScore
  <1>2. withDeadlineMark(crashPlaceholder) \in Record
    BY <1>1 DEF withDeadlineMark, Record, Marks
  <1>3. abortedPlaceholder \in Record
    BY DEF abortedPlaceholder, Record, Marks, Classes, NoScore
  <1> QED
    BY <1>1, <1>2, <1>3 DEF placeholderFor, rejectionKind

\* Marking a record gives a record.
LEMMA MarkedType == \A r \in Record, marks \in SUBSET Marks : marked(r, marks) \in Record
  BY DEF marked, Record

\* What an answer that keeps the contract tells of a stop: there was one, and it
\* crashed something unless it was a decision to stop.
LEMMA AnswerTells ==
  ASSUME NEW r \in Record, NEW sig, mayAnswer(r, sig), stopReached(r)
  PROVE  /\ sig # "live"
         /\ sig # "aborted" => crashInside(r)
  BY DEF mayAnswer, stopReached, isAbortedRecord, crashInside

-----------------------------------------------------------------------------
(* What a rejected unit's placeholder tells of the stop (runStop.ts). *)

\* A placeholder tells of a stop only if there was one, and when the signal was
\* a deadline's, the placeholder is a crash: slowness is never neutral.
THEOREM PlaceholderTells ==
  ASSUME NEW sig \in Signals, NEW code
  PROVE  LET r == placeholderFor(rejectionKind(code, sig))
         IN  /\ stopReached(r) => sig # "live"
             /\ sig # "aborted" => crashInside(r)
             /\ isCrashRecord(r) \/ isAbortedRecord(r)
  <1> DEFINE kind == rejectionKind(code, sig)
  <1>1. CASE kind = "stopped"
    <2>1. sig = "aborted"
      BY <1>1 DEF rejectionKind, isRunStopAbort, isDeadlineSignal, Signals
    <2>2. isAbortedRecord(placeholderFor(kind))
      BY <1>1 DEF placeholderFor, abortedPlaceholder, isAbortedRecord
    <2> QED
      BY <2>1, <2>2
  <1>2. CASE kind = "deadline"
    <2>1. sig = "deadline"
      BY <1>2 DEF rejectionKind, isDeadlineSignal
    <2>2. isCrashRecord(placeholderFor(kind))
      BY <1>2 DEF placeholderFor, withDeadlineMark, crashPlaceholder, isAbortedRecord, isCrashRecord
    <2> QED
      BY <2>1, <2>2 DEF crashInside
  <1>3. CASE kind = "crash"
    <2>1. /\ isCrashRecord(placeholderFor(kind))
          /\ ~stopReached(placeholderFor(kind))
      BY <1>3 DEF placeholderFor, crashPlaceholder, isAbortedRecord, isCrashRecord, stopReached
    <2> QED
      BY <2>1 DEF crashInside
  <1> QED
    BY <1>1, <1>2, <1>3 DEF rejectionKind

-----------------------------------------------------------------------------
(* Nesting: a container that aggregates its children and marks itself. *)

\* A container tells of a stop exactly if a child does, and of a crash exactly
\* if a child does: no level of containers hides either (containerMarkers).
THEOREM ContainerTells ==
  ASSUME NEW r \in Record, ~r.synthesized, NEW children \in SUBSET Record
  PROVE  /\ stopReached(containerOf(r, children)) <=> \E c \in children : stopReached(c)
         /\ crashInside(containerOf(r, children)) <=> \E c \in children : crashInside(c)
  <1> DEFINE stop  == \E c \in children : stopReached(c)
             crash == \E c \in children : crashInside(c)
             box   == containerOf(r, children)
  <1>1. /\ ~stop          => stopVerdict(children) = "none"
        /\ stop /\ crash  => stopVerdict(children) = "negative"
        /\ stop /\ ~crash => stopVerdict(children) = "aborted"
    BY DEF stopVerdict, stopVerdictWith
  <1>2. /\ box.marks = containerMarkers(stopVerdict(children), crash)
        /\ ~box.synthesized
    BY DEF containerOf, marked, Record
  <1> HIDE DEF stop, crash, box
  <1>3. ASSUME ~stop PROVE (stopReached(box) <=> stop) /\ (crashInside(box) <=> crash)
    BY <1>1, <1>2, <1>3 DEF containerMarkers, stopReached, crashInside, isAbortedRecord, isCrashRecord
  <1>4. ASSUME stop, crash PROVE stopReached(box) /\ crashInside(box)
    BY <1>1, <1>2, <1>4 DEF containerMarkers, stopReached, crashInside, isAbortedRecord, isCrashRecord
  <1>5. ASSUME stop, ~crash PROVE stopReached(box) /\ ~crashInside(box)
    BY <1>1, <1>2, <1>5 DEF containerMarkers, stopReached, crashInside, isAbortedRecord, isCrashRecord
  <1>6. (stopReached(box) <=> stop) /\ (crashInside(box) <=> crash)
    BY <1>3, <1>4, <1>5
  <1> QED
    BY <1>6 DEF stop, crash, box

\* Wrapping some of the children in a container of their own does not change the
\* verdict of the whole: the same records get the same verdict whether they sit
\* in one container or are split over several (stopVerdict).
THEOREM VerdictIgnoresNesting ==
  ASSUME NEW r \in Record, ~r.synthesized,
         NEW inner \in SUBSET Record, NEW outer \in SUBSET Record
  PROVE  stopVerdict(outer \union {containerOf(r, inner)}) = stopVerdict(outer \union inner)
  <1> DEFINE box == containerOf(r, inner)
  <1>1. /\ stopReached(box) <=> \E c \in inner : stopReached(c)
        /\ crashInside(box) <=> \E c \in inner : crashInside(c)
    BY ContainerTells
  <1> HIDE DEF box
  <1>2. /\ (\E c \in outer \union {box} : stopReached(c)) <=> \E c \in outer \union inner : stopReached(c)
        /\ (\E c \in outer \union {box} : crashInside(c)) <=> \E c \in outer \union inner : crashInside(c)
    BY <1>1
  <1>3. stopVerdict(outer \union {box}) = stopVerdict(outer \union inner)
    BY <1>2 DEF stopVerdict, stopVerdictWith
  <1> QED
    BY <1>3 DEF box

-----------------------------------------------------------------------------
(* The workflow being run, and functions that grow. *)

\* The workflow being run has a phase behind every index.
LEMMA PhaseType == ASSUME def \in Workflows
                   PROVE  /\ \A p \in Phases : phase[p] \in Phase
                          /\ Phases \subseteq Nat
  <1>1. def \in Workflow
    BY WorkflowsAssumption
  <1>2. phase \in Seq(Phase)
    BY <1>1 DEF Workflow, phase
  <1>3. Phases = 1..Len(phase) /\ Len(phase) \in Nat
    BY <1>2 DEF Phases
  <1>4. \A p \in Phases : phase[p] \in Phase
    BY <1>2, <1>3
  <1> QED
    BY <1>3, <1>4

\* The empty function.
LEMMA EmptyFunction == DOMAIN <<>> = {} /\ \A R : <<>> \in [DOMAIN <<>> -> R]
  <1>1. DOMAIN <<>> = {}
    OBVIOUS
  <1>2. \A R : <<>> \in [{} -> R]
    OBVIOUS
  <1> QED
    BY <1>1, <1>2

\* The first phases of a set are some of it.
LEMMA FirstPhasesType == \A n, S : firstPhases(n, S) \subseteq S
  BY DEF firstPhases

\* The results made without running anything are results.
LEMMA PlainResults ==
  ASSUME signal \in Signals
  PROVE  skippedPhase \in PhaseResult /\ stoppedPhase \in PhaseResult
  BY DEF skippedPhase, stoppedPhase, PhaseResult, isDeadlineSignal

\* A phase that was at work gives a result.
LEMMA PhaseResultType ==
  ASSUME NEW p, NEW commands \in SUBSET StepRecord
  PROVE  /\ phaseResult(p, commands) \in PhaseResult
         /\ phaseResult(p, commands).commands = commands
         /\ phaseResult(p, commands).stoppedBeforeStart = FALSE
  <1>1. phaseDecision(phase[p].gate, commands) \in {"passed", "warned", "blocked", "aborted"}
    BY DEF phaseDecision
  <1> QED
    BY <1>1 DEF phaseResult, blockedPhase, skippedPhase, PhaseResult

\* A posture changes a result's decision only.
LEMMA PosturedType ==
  ASSUME NEW r \in PhaseResult
  PROVE  /\ postured(r) \in PhaseResult
         /\ postured(r).commands = r.commands
         /\ postured(r).stoppedBeforeStart = r.stoppedBeforeStart
         /\ postured(r).error = r.error
         /\ postured(r).decision \in {r.decision, "warned"}
  BY DEF postured, PhaseResult

\* A phase starts with some of its steps pending and no records.
LEMMA StartedType ==
  ASSUME NEW p, phase[p] \in Phase
  PROVE  started(p) \in Flight /\ started(p).records = {}
  BY DEF started, Flight, Phase

-----------------------------------------------------------------------------
(***************************************************************************)
(* The inductive invariant: types, the accounting of phases, that a phase  *)
(* has been recorded or set aside for work only after its dependencies,    *)
(* and that the ones set aside passed the check on them.                   *)
(***************************************************************************)
Busy == queue \union DOMAIN flight \union DOMAIN levelResults

WalkInv ==
    /\ pc = "await" => ~halted
    /\ \A p \in DOMAIN results \union Busy : phase[p].deps \subseteq DOMAIN results
    /\ \A p \in Busy : checkDependencies(p)

IInv == TypeOK /\ EveryPhaseAccounted /\ WalkInv /\ FailureStopsDependents

\* The invariant holds when execute() is called.
LEMMA InitIInv == Init => IInv
  <1> SUFFICES ASSUME Init PROVE IInv
    OBVIOUS
  <1>1. /\ DOMAIN flight = {} /\ flight \in [DOMAIN flight -> Flight]
        /\ DOMAIN levelResults = {} /\ levelResults \in [DOMAIN levelResults -> PhaseResult]
        /\ DOMAIN results = {} /\ results \in [DOMAIN results -> PhaseResult]
    BY EmptyFunction DEF Init
  <1>2. TypeOK
    BY <1>1, SignalsAssumption DEF Init, TypeOK
  <1>3. EveryPhaseAccounted
    BY <1>1 DEF Init, EveryPhaseAccounted, Returned
  <1>4. WalkInv
    BY <1>1 DEF Init, WalkInv, Busy
  <1>5. FailureStopsDependents
    BY <1>1 DEF FailureStopsDependents
  <1> QED
    BY <1>2, <1>3, <1>4, <1>5 DEF IInv

\* More results: new ones whose phases depend on recorded phases only, and
\* either passed the check on them or are skipped.
LEMMA GrowInv ==
  ASSUME IInv, NEW g, g \in [DOMAIN g -> PhaseResult], DOMAIN g \subseteq Phases,
         DOMAIN g \intersect DOMAIN results = {},
         \A p \in DOMAIN g : phase[p].deps \subseteq DOMAIN results,
         \A p \in DOMAIN g :
            \/ checkDependencies(p)
            \/ g[p].decision = "skipped" /\ g[p].commands = {},
         def' = def, results' = joined(results, g)
  PROVE  /\ phase' = phase /\ Phases' = Phases
         /\ DOMAIN results' = DOMAIN results \union DOMAIN g
         /\ DOMAIN results' \subseteq Phases'
         /\ results' \in [DOMAIN results' -> PhaseResult]
         /\ FailureStopsDependents'
         /\ \A p \in Phases : checkDependencies(p) => checkDependencies(p)'
  <1>1. phase' = phase /\ Phases' = Phases
    BY DEF phase, Phases
  <1>2. results \in [DOMAIN results -> PhaseResult] /\ DOMAIN results \subseteq Phases
    BY DEF IInv, TypeOK
  <1>3. /\ DOMAIN results' = DOMAIN results \union DOMAIN g
        /\ results' \in [DOMAIN results' -> PhaseResult]
        /\ \A p \in DOMAIN results : results'[p] = results[p]
        /\ \A p \in DOMAIN g : results'[p] = g[p]
    <2>1. /\ DOMAIN joined(results, g) = DOMAIN results \union DOMAIN g
          /\ joined(results, g) \in [DOMAIN joined(results, g) -> PhaseResult]
          /\ \A p \in DOMAIN results : joined(results, g)[p] = results[p]
          /\ \A p \in (DOMAIN g) \ (DOMAIN results) : joined(results, g)[p] = g[p]
      BY <1>2 DEF joined
    <2> QED
      BY <2>1
  <1>4. \A p \in Phases : checkDependencies(p) => checkDependencies(p)'
    BY <1>1, <1>3 DEF checkDependencies
  <1>5. FailureStopsDependents'
    <2> SUFFICES ASSUME NEW p \in DOMAIN results', NEW d \in phase[p].deps,
                        results'[d].decision \in {"blocked", "aborted"}
                 PROVE  results'[p].decision = "skipped" /\ results'[p].commands = {}
      BY <1>1 DEF FailureStopsDependents
    <2>1. CASE p \in DOMAIN results
      BY <1>3, <2>1 DEF IInv, WalkInv, FailureStopsDependents
    <2>2. CASE p \in DOMAIN g
      BY <1>3, <2>2 DEF checkDependencies
    <2> QED
      BY <1>3, <2>1, <2>2
  <1> QED
    BY <1>1, <1>2, <1>3, <1>4, <1>5

-----------------------------------------------------------------------------
(* The level loop. *)

\* A level skipped or stopped as a whole: the results it is given.
LEMMA WholeLevelInv ==
  ASSUME IInv, AtLevel, NEW g, g \in [DOMAIN g -> PhaseResult], DOMAIN g = level,
         \A p \in level : \/ checkDependencies(p)
                          \/ g[p].decision = "skipped" /\ g[p].commands = {},
         results' = joined(results, g),
         UNCHANGED <<def, signal, pc, halted, levelVars, threw>>
  PROVE  IInv'
  <1>1. /\ level \subseteq Phases /\ level \intersect DOMAIN results = {}
        /\ \A p \in level : phase[p].deps \subseteq DOMAIN results
    BY DEF level
  <1>2. pc = "loop" /\ queue = {} /\ DOMAIN flight = {} /\ DOMAIN levelResults = {}
    BY DEF AtLevel, IInv, EveryPhaseAccounted
  <1>3. /\ phase' = phase /\ Phases' = Phases
        /\ DOMAIN results' = DOMAIN results \union DOMAIN g
        /\ DOMAIN results' \subseteq Phases'
        /\ results' \in [DOMAIN results' -> PhaseResult]
        /\ FailureStopsDependents'
    BY <1>1, GrowInv
  <1>4. TypeOK'
    BY <1>3 DEF IInv, TypeOK, levelVars
  <1>5. EveryPhaseAccounted'
    BY <1>2 DEF EveryPhaseAccounted, levelVars, Returned
  <1>6. WalkInv'
    BY <1>1, <1>2, <1>3 DEF IInv, WalkInv, Busy, levelVars
  <1> QED
    BY <1>3, <1>4, <1>5, <1>6 DEF IInv

\* A level skipped after a halt preserves the invariant.
LEMMA SkipLevelInv == ASSUME IInv, SkipLevel PROVE IInv'
  <1> DEFINE g == [p \in level |-> skippedPhase]
  <1>1. g \in [DOMAIN g -> PhaseResult] /\ DOMAIN g = level
    BY PlainResults DEF IInv, TypeOK
  <1>2. \A p \in level : g[p].decision = "skipped" /\ g[p].commands = {}
    BY DEF skippedPhase
  <1>3. results' = joined(results, g)
    BY DEF SkipLevel
  <1> HIDE DEF g
  <1> QED
    BY <1>1, <1>2, <1>3, WholeLevelInv DEF SkipLevel

\* So does a level stopped by the signal: the phases it records stopped are the
\* eligible ones.
LEMMA StopLevelInv == ASSUME IInv, StopLevel PROVE IInv'
  <1> DEFINE g == [p \in level |-> IF p \in eligible THEN stoppedPhase ELSE skippedPhase]
  <1>1. g \in [DOMAIN g -> PhaseResult] /\ DOMAIN g = level
    BY PlainResults DEF IInv, TypeOK
  <1>2. \A p \in level : \/ checkDependencies(p)
                         \/ g[p].decision = "skipped" /\ g[p].commands = {}
    BY DEF skippedPhase, eligible
  <1>3. results' = joined(results, g)
    BY DEF StopLevel
  <1> HIDE DEF g
  <1> QED
    BY <1>1, <1>2, <1>3, WholeLevelInv DEF StopLevel

\* So does a level that starts.
LEMMA StartLevelInv == ASSUME IInv, StartLevel PROVE IInv'
  <1> DEFINE g     == [p \in level \ eligible |-> skippedPhase]
             first == firstPhases(concurrency(Cardinality(eligible)), eligible)
  <1>1. /\ level \subseteq Phases /\ level \intersect DOMAIN results = {}
        /\ \A p \in level : phase[p].deps \subseteq DOMAIN results
        /\ eligible \subseteq level /\ \A p \in eligible : checkDependencies(p)
    BY DEF level, eligible
  <1>2. pc = "loop" /\ queue = {} /\ DOMAIN flight = {} /\ DOMAIN levelResults = {} /\ ~halted
    BY DEF StartLevel, AtLevel, IInv, EveryPhaseAccounted
  <1>3. first \subseteq eligible
    BY FirstPhasesType
  <1>4. /\ g \in [DOMAIN g -> PhaseResult] /\ DOMAIN g = level \ eligible
        /\ \A p \in DOMAIN g : g[p].decision = "skipped" /\ g[p].commands = {}
    BY PlainResults DEF IInv, TypeOK, skippedPhase
  <1>5. /\ results' = joined(results, g)
        /\ flight' = [p \in first |-> started(p)]
        /\ queue' = eligible \ first
        /\ pc' = (IF eligible = {} THEN "loop" ELSE "await")
        /\ UNCHANGED <<def, signal, halted, levelResults, threw>>
    BY DEF StartLevel
  <1> HIDE DEF g, first
  <1>6. /\ phase' = phase /\ Phases' = Phases
        /\ DOMAIN results' = DOMAIN results \union DOMAIN g
        /\ DOMAIN results' \subseteq Phases'
        /\ results' \in [DOMAIN results' -> PhaseResult]
        /\ FailureStopsDependents'
        /\ \A p \in Phases : checkDependencies(p) => checkDependencies(p)'
    BY <1>1, <1>4, <1>5, GrowInv
  <1>7. flight' \in [first -> Flight] /\ DOMAIN flight' = first
    BY <1>1, <1>3, <1>5, PhaseType, StartedType DEF IInv, TypeOK
  <1>8. TypeOK'
    BY <1>1, <1>3, <1>5, <1>6, <1>7 DEF IInv, TypeOK
  <1>9. EveryPhaseAccounted'
    BY <1>1, <1>2, <1>3, <1>4, <1>5, <1>6, <1>7 DEF EveryPhaseAccounted, Returned
  <1>10. WalkInv'
    BY <1>1, <1>2, <1>3, <1>4, <1>5, <1>6, <1>7 DEF IInv, WalkInv, Busy
  <1> QED
    BY <1>6, <1>8, <1>9, <1>10 DEF IInv

\* A definition that cannot be sorted ends the run with nothing recorded.
LEMMA RefuseInv == ASSUME IInv, Refuse PROVE IInv'
  <1>1. TypeOK'
    BY DEF IInv, TypeOK, Refuse, levelVars, Phases, phase
  <1>2. EveryPhaseAccounted'
    BY DEF IInv, EveryPhaseAccounted, Refuse, levelVars, Returned
  <1>3. WalkInv' /\ FailureStopsDependents'
    BY DEF IInv, WalkInv, FailureStopsDependents, Refuse, levelVars, Busy, phase, checkDependencies
  <1> QED
    BY <1>1, <1>2, <1>3 DEF IInv

\* What is left of phases that can be ordered has one that depends on nothing
\* left: the walk ends only when every phase is recorded.
LEMMA FinishRecorded == ASSUME IInv, Finish PROVE DOMAIN results = Phases
  <1> DEFINE left == Phases \ DOMAIN results
  <1>1. left = {}
    <2> SUFFICES ASSUME left # {} PROVE FALSE
      OBVIOUS
    <2>1. PICK p \in left : phase[p].deps \intersect left = {}
      BY DEF Finish, orderable
    <2>2. phase[p].deps \subseteq DOMAIN results
      BY <2>1 DEF Finish, orderable
    <2> QED
      BY <2>1, <2>2 DEF Finish, level
  <1> QED
    BY <1>1 DEF IInv, TypeOK

\* The end of the walk preserves the invariant.
LEMMA FinishInv == ASSUME IInv, Finish PROVE IInv'
  <1>2. DOMAIN results = Phases
    BY FinishRecorded
  <1>3. TypeOK'
    BY DEF IInv, TypeOK, Finish, levelVars, Phases, phase
  <1>4. EveryPhaseAccounted'
    BY <1>2 DEF IInv, EveryPhaseAccounted, Finish, levelVars, Phases, phase
  <1>5. WalkInv' /\ FailureStopsDependents'
    BY DEF IInv, WalkInv, FailureStopsDependents, Finish, levelVars, Busy, phase, checkDependencies
  <1> QED
    BY <1>3, <1>4, <1>5 DEF IInv

-----------------------------------------------------------------------------
(* Steps that settle, and the phases they end. *)

\* One more record of a step at work.
LEMMA SettlesInv ==
  ASSUME IInv, NEW p, NEW s, NEW r \in Record, NEW rejected \in BOOLEAN,
         settles(p, s, r, rejected)
  PROVE  IInv'
  <1>1. /\ p \in DOMAIN flight /\ s \in flight[p].pending /\ p \in Phases
        /\ flight[p] \in Flight /\ s \in Nat
    BY DEF settles, IInv, TypeOK, Flight
  <1>2. phase[p] \in Phase
    BY <1>1, PhaseType DEF IInv, TypeOK
  <1> DEFINE pending == IF phase[p].parallel THEN flight[p].pending \ {s}
                        ELSE {t \in 1..phase[p].steps : t = s + 1 /\ ~rejected}
             records == flight[p].records \union {[step |-> s, record |-> r]}
  <1>3. pending \in SUBSET Nat /\ records \in SUBSET StepRecord
    BY <1>1, <1>2 DEF Flight, Phase, StepRecord
  <1>4. flight' = [flight EXCEPT ![p] = [pending |-> pending, records |-> records]]
    BY DEF settles
  <1> HIDE DEF pending, records
  <1>5. /\ flight' \in [DOMAIN flight -> Flight] /\ DOMAIN flight' = DOMAIN flight
    BY <1>3, <1>4 DEF IInv, TypeOK, Flight
  <1>6. TypeOK'
    BY <1>5 DEF IInv, TypeOK, settles, Phases, phase
  <1>7. EveryPhaseAccounted'
    BY <1>5 DEF IInv, EveryPhaseAccounted, settles, Returned
  <1>8. WalkInv' /\ FailureStopsDependents'
    BY <1>5 DEF IInv, WalkInv, FailureStopsDependents, settles, Busy, phase, checkDependencies
  <1> QED
    BY <1>6, <1>7, <1>8 DEF IInv

\* Every way a step settles leaves a record.
LEMMA StepSettlesRecord ==
  ASSUME IInv, StepSettles
  PROVE  \E p \in DOMAIN flight : \E s \in flight[p].pending : \E r \in Record :
            \E rejected \in BOOLEAN :
               /\ settles(p, s, r, rejected)
               /\ stopReached(r) => signal # "live"
               /\ stopReached(r) /\ signal = "deadline" => crashInside(r)
               /\ crashInside(r) => r.class = "negative"
               /\ rejected => stopReached(r) \/ crashInside(r)
  <1>1. PICK p \in DOMAIN flight : \E s \in flight[p].pending :
          \/ Answer(p, s) \/ AnswerMarked(p, s)
          \/ Reject(p, s, "CANCELLED") \/ Reject(p, s, "other")
    BY DEF StepSettles
  <1>2. PICK s \in flight[p].pending :
          \/ Answer(p, s) \/ AnswerMarked(p, s)
          \/ Reject(p, s, "CANCELLED") \/ Reject(p, s, "other")
    BY <1>1
  <1> SUFFICES \E r \in Record : \E rejected \in BOOLEAN :
                  /\ settles(p, s, r, rejected)
                  /\ stopReached(r) => signal # "live"
                  /\ stopReached(r) /\ signal = "deadline" => crashInside(r)
                  /\ crashInside(r) => r.class = "negative"
                  /\ rejected => stopReached(r) \/ crashInside(r)
    OBVIOUS
  <1>3. \A a \in Answers : a.class \in Classes /\ a.score \in Int
    BY StepAnswersAssumption
  <1>4. "negative" \in Classes /\ "neutral" \in Classes
    BY DEF Classes
  <1>5. signal \in Signals
    BY DEF IInv, TypeOK
  <1>6. CASE Answer(p, s)
    <2>1. PICK a \in Answers : settles(p, s, answered(a.class, a.score), FALSE)
      BY <1>6 DEF Answer
    <2>2. answered(a.class, a.score) \in Record
      BY <1>3, AnsweredType
    <2>3. ~stopReached(answered(a.class, a.score)) /\ ~crashInside(answered(a.class, a.score))
      BY DEF answered, stopReached, crashInside, isCrashRecord, isAbortedRecord
    <2> QED
      BY <2>1, <2>2, <2>3
  <1>7. CASE AnswerMarked(p, s)
    <2>1. PICK a \in Answers, class \in Classes, marks \in SUBSET Marks :
            /\ commandMayAnswer(marked(answered(class, a.score), marks), signal)
            /\ settles(p, s, marked(answered(class, a.score), marks), FALSE)
      BY <1>7 DEF AnswerMarked
    <2> DEFINE r == marked(answered(class, a.score), marks)
    <2>2. r \in Record
      BY <1>3, AnsweredType, MarkedType
    <2> HIDE DEF r
    <2>3. stopReached(r) => signal # "live" /\ (signal # "aborted" => crashInside(r))
      BY <2>1, <2>2, AnswerTells DEF commandMayAnswer, r
    <2>4. settles(p, s, r, FALSE) /\ (crashInside(r) => r.class = "negative")
      BY <2>1 DEF r, commandMayAnswer
    <2> QED
      BY <2>2, <2>3, <2>4
  <1>8. \A code : Reject(p, s, code) =>
          \E r \in Record :
             /\ settles(p, s, r, TRUE)
             /\ stopReached(r) => signal # "live"
             /\ stopReached(r) /\ signal = "deadline" => crashInside(r)
             /\ crashInside(r) => r.class = "negative"
             /\ stopReached(r) \/ crashInside(r)
    <2> SUFFICES ASSUME NEW code, Reject(p, s, code)
                 PROVE  \E r \in Record :
                           /\ settles(p, s, r, TRUE)
                           /\ stopReached(r) => signal # "live"
                           /\ stopReached(r) /\ signal = "deadline" => crashInside(r)
                           /\ crashInside(r) => r.class = "negative"
                           /\ stopReached(r) \/ crashInside(r)
      OBVIOUS
    <2> DEFINE r == placeholderFor(rejectionKind(code, signal))
    <2>1. r \in Record
      BY PlaceholderType
    <2>2. /\ stopReached(r) => signal # "live"
          /\ signal # "aborted" => crashInside(r)
      BY <1>5, PlaceholderTells
    <2>3. /\ settles(p, s, r, TRUE) /\ (crashInside(r) => r.class = "negative")
          /\ stopReached(r) \/ crashInside(r)
      BY DEF Reject, placeholderFor, rejectionKind, crashPlaceholder, abortedPlaceholder,
             withDeadlineMark, stopReached, crashInside, isCrashRecord, isAbortedRecord
    <2> HIDE DEF r
    <2> QED
      BY <2>1, <2>2, <2>3
  <1> QED
    BY <1>2, <1>6, <1>7, <1>8

\* A step that settles preserves the invariant.
LEMMA StepSettlesInv == ASSUME IInv, StepSettles PROVE IInv'
  BY StepSettlesRecord, SettlesInv

\* A level of one phase that throws ends the run.
LEMMA PhaseThrowsInv == ASSUME IInv, NEW p, PhaseThrows(p) PROVE IInv'
  <1>1. /\ DOMAIN flight' = {} /\ flight' \in [DOMAIN flight' -> Flight]
        /\ DOMAIN levelResults' = {} /\ levelResults' \in [DOMAIN levelResults' -> PhaseResult]
    BY EmptyFunction DEF PhaseThrows
  <1>2. TypeOK'
    BY <1>1 DEF IInv, TypeOK, PhaseThrows, Phases, phase
  <1>3. EveryPhaseAccounted'
    BY <1>1 DEF IInv, EveryPhaseAccounted, PhaseThrows, Returned
  <1>4. WalkInv' /\ FailureStopsDependents'
    BY <1>1 DEF IInv, WalkInv, FailureStopsDependents, PhaseThrows, Busy, phase
  <1> QED
    BY <1>2, <1>3, <1>4 DEF IInv

\* The phases a worker takes, and the ones it records stopped, are queued.
LEMMA WorkerTakes == /\ stoppedHere \subseteq queue /\ takenHere \subseteq queue
                     /\ takenHere \intersect stoppedHere = {}
  <1>1. takenHere \subseteq queue \ stoppedHere
    BY FirstPhasesType DEF takenHere
  <1> QED
    BY <1>1 DEF stoppedHere

\* A phase that ends, with what its worker does next, preserves the invariant.
LEMMA PhaseEndsInv == ASSUME IInv, NEW p, PhaseEnds(p) PROVE IInv'
  <1> DEFINE g == [q \in {p} \union stoppedHere |->
                     IF q = p THEN phaseResult(p, flight[p].records) ELSE stoppedPhase]
  <1>1. /\ p \in DOMAIN flight /\ pc = "await"
        /\ levelResults' = joined(levelResults, g)
        /\ flight' = [q \in (DOMAIN flight \ {p}) \union takenHere |->
                         IF q \in takenHere THEN started(q) ELSE flight[q]]
        /\ queue' = queue \ (stoppedHere \union takenHere)
        /\ UNCHANGED <<def, signal, pc, halted, results, threw>>
    BY DEF PhaseEnds
  <1>2. /\ flight[p].records \in SUBSET StepRecord
        /\ p \in Phases /\ queue \subseteq Phases
    BY <1>1 DEF IInv, TypeOK, Flight
  <1>3. g \in [DOMAIN g -> PhaseResult] /\ DOMAIN g = {p} \union stoppedHere
    BY <1>2, PhaseResultType, PlainResults DEF IInv, TypeOK
  <1> HIDE DEF g
  <1>4. /\ DOMAIN levelResults' = DOMAIN levelResults \union {p} \union stoppedHere
        /\ levelResults' \in [DOMAIN levelResults' -> PhaseResult]
    BY <1>1, <1>3 DEF joined, IInv, TypeOK
  <1>5. \A q \in takenHere : started(q) \in Flight
    BY <1>2, WorkerTakes, PhaseType, StartedType DEF IInv, TypeOK
  <1>6. /\ DOMAIN flight' = (DOMAIN flight \ {p}) \union takenHere
        /\ flight' \in [DOMAIN flight' -> Flight]
    BY <1>1, <1>5 DEF IInv, TypeOK
  <1>7. TypeOK'
    BY <1>1, <1>2, <1>4, <1>6, WorkerTakes DEF IInv, TypeOK, Phases, phase
  <1>8. EveryPhaseAccounted'
    BY <1>1, <1>4, <1>6, WorkerTakes DEF IInv, EveryPhaseAccounted, Returned
  <1>9. WalkInv'
    <2>1. Busy' \subseteq Busy
      BY <1>1, <1>4, <1>6, WorkerTakes DEF Busy
    <2>2. phase' = phase /\ \A q : checkDependencies(q)' <=> checkDependencies(q)
      BY <1>1 DEF phase, checkDependencies
    <2> QED
      BY <1>1, <2>1, <2>2 DEF IInv, WalkInv
  <1>10. FailureStopsDependents'
    BY <1>1 DEF IInv, FailureStopsDependents, phase
  <1> QED
    BY <1>7, <1>8, <1>9, <1>10 DEF IInv

\* So does the end of a level, posture included.
LEMMA LevelOverInv == ASSUME IInv, LevelOver PROVE IInv'
  <1> DEFINE g == [p \in DOMAIN levelResults |-> postured(levelResults[p])]
  <1>1. /\ queue = {} /\ DOMAIN flight = {} /\ pc = "await"
        /\ results' = joined(results, g)
        /\ pc' = "loop" /\ levelResults' = <<>>
        /\ halted' \in BOOLEAN
        /\ UNCHANGED <<def, signal, queue, flight, threw>>
    BY DEF LevelOver, IInv, TypeOK
  <1>2. g \in [DOMAIN g -> PhaseResult] /\ DOMAIN g = DOMAIN levelResults
    BY PosturedType DEF IInv, TypeOK
  <1> HIDE DEF g
  <1>3. /\ DOMAIN g \subseteq Phases /\ DOMAIN g \intersect DOMAIN results = {}
        /\ \A p \in DOMAIN g : phase[p].deps \subseteq DOMAIN results /\ checkDependencies(p)
    BY <1>2 DEF IInv, TypeOK, EveryPhaseAccounted, WalkInv, Busy
  <1>4. /\ phase' = phase /\ Phases' = Phases
        /\ DOMAIN results' = DOMAIN results \union DOMAIN g
        /\ DOMAIN results' \subseteq Phases'
        /\ results' \in [DOMAIN results' -> PhaseResult]
        /\ FailureStopsDependents'
    BY <1>1, <1>2, <1>3, GrowInv
  <1>5. DOMAIN levelResults' = {} /\ levelResults' \in [DOMAIN levelResults' -> PhaseResult]
    BY <1>1, EmptyFunction
  <1>6. TypeOK'
    BY <1>1, <1>4, <1>5 DEF IInv, TypeOK
  <1>7. EveryPhaseAccounted'
    BY <1>1, <1>5 DEF EveryPhaseAccounted, Returned
  <1>8. WalkInv'
    BY <1>1, <1>3, <1>4, <1>5 DEF IInv, WalkInv, Busy
  <1> QED
    BY <1>4, <1>6, <1>7, <1>8 DEF IInv

\* So does the caller's signal.
LEMMA SignalFiresInv ==
  ASSUME IInv, NEW kind \in {"aborted", "deadline"}, SignalFires(kind) PROVE IInv'
  <1>1. TypeOK'
    BY DEF IInv, TypeOK, SignalFires, levelVars, Phases, phase, Signals
  <1>2. EveryPhaseAccounted'
    BY DEF IInv, EveryPhaseAccounted, SignalFires, levelVars, Returned
  <1>3. WalkInv' /\ FailureStopsDependents'
    BY DEF IInv, WalkInv, FailureStopsDependents, SignalFires, levelVars, Busy, phase, checkDependencies
  <1> QED
    BY <1>1, <1>2, <1>3 DEF IInv

-----------------------------------------------------------------------------
(* Every step, and the theorems. *)

\* Every step preserves the invariant.
LEMMA NextIInv == ASSUME IInv, [Next]_vars PROVE IInv'
  <1>1. CASE LoopStep
    BY <1>1, RefuseInv, SkipLevelInv, StopLevelInv, StartLevelInv, FinishInv, LevelOverInv
       DEF LoopStep
  <1>2. CASE PhaseStep
    BY <1>2, PhaseThrowsInv, PhaseEndsInv DEF PhaseStep
  <1>3. CASE StepSettles
    BY <1>3, StepSettlesInv
  <1>4. CASE SignalFires("aborted") \/ SignalFires("deadline")
    BY <1>4, SignalFiresInv
  <1>5. CASE UNCHANGED vars
    <2>1. TypeOK' /\ EveryPhaseAccounted'
      BY <1>5 DEF IInv, TypeOK, EveryPhaseAccounted, Returned, vars, levelVars, Phases, phase
    <2>2. WalkInv' /\ FailureStopsDependents'
      BY <1>5 DEF IInv, WalkInv, FailureStopsDependents, vars, levelVars, Busy, phase, checkDependencies
    <2> QED
      BY <2>1, <2>2 DEF IInv
  <1> QED
    BY <1>1, <1>2, <1>3, <1>4, <1>5 DEF Next

\* The invariant holds of every run.
THEOREM Invariance == SafeSpec => []IInv
  <1>1. Init => IInv
    BY InitIInv
  <1>2. IInv /\ [Next]_vars => IInv'
    BY NextIInv
  <1> QED
    BY <1>1, <1>2, PTL DEF SafeSpec

\* Every variable keeps its type.
THEOREM TypeCorrect == SafeSpec => []TypeOK
  <1>1. IInv => TypeOK
    BY DEF IInv
  <1> QED
    BY <1>1, Invariance, PTL

\* No phase is lost or run twice, and a workflow that returns has recorded every
\* phase, for any graph of phases (execute, executePhasesWithLimit).
THEOREM Accounting == SafeSpec => []EveryPhaseAccounted
  <1>1. IInv => EveryPhaseAccounted
    BY DEF IInv
  <1> QED
    BY <1>1, Invariance, PTL

\* No phase works on a dependency that failed or was stopped (checkDependencies).
THEOREM FailureIsolation == SafeSpec => []FailureStopsDependents
  <1>1. IInv => FailureStopsDependents
    BY DEF IInv
  <1> QED
    BY <1>1, Invariance, PTL

-----------------------------------------------------------------------------
(* What steps may never do. *)

\* A worker takes a phase only while the signal is live.
LEMMA TakenWhileLive == takenHere # {} => signal = "live"
  BY FirstPhasesType DEF takenHere, stoppedHere

\* No phase is set to work once the signal has fired or the walk is halted.
THEOREM NoStartAfterStop == SafeSpec => NothingStartsAfterStop
  <1> DEFINE A == ~(DOMAIN flight' \subseteq DOMAIN flight) => signal = "live" /\ ~halted
  <1>1. ASSUME IInv, [Next]_vars PROVE A
    <2>1. CASE StartLevel
      BY <2>1 DEF StartLevel
    <2>2. ASSUME NEW p, PhaseEnds(p) PROVE A
      <3>1. DOMAIN flight' \subseteq DOMAIN flight \union takenHere
        BY <2>2 DEF PhaseEnds
      <3>2. ~halted
        BY <1>1, <2>2 DEF PhaseEnds, IInv, WalkInv
      <3> QED
        BY <3>1, <3>2, TakenWhileLive
    <2>3. ASSUME NEW p, PhaseThrows(p) PROVE A
      BY <2>3, EmptyFunction DEF PhaseThrows
    <2>4. CASE StepSettles
      <3>1. PICK p \in DOMAIN flight : \E s \in flight[p].pending : \E r \in Record :
              \E rejected \in BOOLEAN : settles(p, s, r, rejected)
        BY <1>1, <2>4, StepSettlesRecord
      <3> QED
        BY <3>1 DEF settles
    <2>5. CASE \/ Refuse \/ SkipLevel \/ StopLevel \/ Finish \/ LevelOver
               \/ SignalFires("aborted") \/ SignalFires("deadline") \/ UNCHANGED vars
      BY <2>5 DEF Refuse, SkipLevel, StopLevel, Finish, LevelOver, SignalFires, vars, levelVars
    <2> QED
      BY <1>1, <2>1, <2>2, <2>3, <2>4, <2>5 DEF Next, LoopStep, PhaseStep
  <1>2. IInv /\ [Next]_vars => [A]_vars
    BY <1>1
  <1> QED
    BY <1>2, Invariance, PTL DEF SafeSpec, NothingStartsAfterStop

\* A phase that throws is all there is of its level.
LEMMA AloneInLevel ==
  ASSUME IInv, NEW p, PhaseThrows(p)
  PROVE  DOMAIN flight = {p} /\ queue = {} /\ DOMAIN levelResults = {}
  <1> DEFINE S == queue \union DOMAIN flight \union DOMAIN levelResults
  <1>1. p \in DOMAIN flight /\ Cardinality(S) = 1
    BY DEF PhaseThrows, levelSize
  <1>2. IsFiniteSet(S)
    <2>1. phase \in Seq(Phase)
      BY WorkflowsAssumption DEF IInv, TypeOK, Workflow, phase
    <2>2. Phases = 1..Len(phase) /\ Len(phase) \in Nat
      BY <2>1 DEF Phases
    <2>3. IsFiniteSet(Phases)
      BY <2>2, FS_Interval
    <2>4. S \subseteq Phases
      BY DEF IInv, TypeOK
    <2> QED
      BY <2>3, <2>4, FS_Subset
  <1>3. PICK x : S = {x}
    BY <1>1, <1>2, FS_Singleton
  <1>4. S = {p}
    BY <1>1, <1>3
  <1> QED
    BY <1>1, <1>4 DEF IInv, EveryPhaseAccounted

\* execute() never throws over a phase that a stop reached (executePhase).
THEOREM StopIsNotThrown == SafeSpec => StopNeverThrows
  <1> DEFINE A == ~threw /\ threw' => \A p \in DOMAIN flight : \A s \in flight[p].records :
                                         ~stopReached(s.record)
  <1>1. ASSUME IInv, [Next]_vars PROVE A
    <2>1. CASE Refuse
      BY <1>1, <2>1 DEF Refuse, IInv, EveryPhaseAccounted
    <2>2. ASSUME NEW p, PhaseThrows(p) PROVE A
      <3>1. DOMAIN flight = {p}
        BY <1>1, <2>2, AloneInLevel
      <3> QED
        BY <2>2, <3>1 DEF PhaseThrows, allCrashed
    <2>3. ASSUME NEW p, PhaseEnds(p) PROVE A
      BY <2>3 DEF PhaseEnds
    <2>4. CASE StepSettles
      <3>1. PICK p \in DOMAIN flight : \E s \in flight[p].pending : \E r \in Record :
              \E rejected \in BOOLEAN : settles(p, s, r, rejected)
        BY <1>1, <2>4, StepSettlesRecord
      <3> QED
        BY <3>1 DEF settles
    <2>5. CASE \/ SkipLevel \/ StopLevel \/ StartLevel \/ Finish \/ LevelOver
               \/ SignalFires("aborted") \/ SignalFires("deadline") \/ UNCHANGED vars
      BY <2>5 DEF SkipLevel, StopLevel, StartLevel, Finish, LevelOver, SignalFires, vars
    <2> QED
      BY <1>1, <2>1, <2>2, <2>3, <2>4, <2>5 DEF Next, LoopStep, PhaseStep
  <1>2. IInv /\ [Next]_vars => [A]_vars
    BY <1>1
  <1> QED
    BY <1>2, Invariance, PTL DEF SafeSpec, StopNeverThrows

-----------------------------------------------------------------------------
(***************************************************************************)
(* What results tell of a stop: only what happened, all of it, and crashes *)
(* first.                                                                  *)
(***************************************************************************)
Tells(sig, r) ==
    /\ stopReached(r) => sig # "live" /\ (sig = "deadline" => crashInside(r))
    /\ crashInside(r) => r.class = "negative"

Telling(sig, r) ==
    /\ \A s \in r.commands : Tells(sig, s.record)
    /\ r.stoppedBeforeStart => sig # "live" /\ (sig = "deadline" => r.decision = "blocked")
    /\ r.decision = "aborted" =>
         r.stoppedBeforeStart \/ \E s \in r.commands : stopReached(s.record)
    /\ phaseStopReached(r) /\ r.decision = "blocked" => phaseCrashInside(r)
    /\ phaseCrashInside(r) => r.decision \notin {"passed", "skipped"}
    /\ r.commands # {} /\ (\A s \in r.commands : isCrashRecord(s.record)) =>
         r.decision = "blocked" /\ (r.error \/ phaseStopReached(r))

TellInv ==
    /\ \A p \in DOMAIN results : Telling(signal, results[p])
    /\ \A p \in DOMAIN levelResults : Telling(signal, levelResults[p])
    /\ \A p \in DOMAIN flight : \A s \in flight[p].records : Tells(signal, s.record)

\* A skipped phase tells nothing; one a stop kept from starting tells which stop.
LEMMA PlainTells ==
  /\ \A sig : Telling(sig, skippedPhase)
  /\ signal # "live" => Telling(signal, stoppedPhase)
  BY DEF Telling, skippedPhase, stoppedPhase, phaseStopReached, phaseCrashInside, isDeadlineSignal

\* A phase that was at work tells what its records tell (phaseDecision).
LEMMA PhaseResultTells ==
  ASSUME NEW p, NEW commands \in SUBSET StepRecord,
         \A s \in commands : Tells(signal, s.record)
  PROVE  Telling(signal, phaseResult(p, commands))
  <1> DEFINE r       == phaseResult(p, commands)
             verdict == stopVerdict({s.record : s \in commands})
             stop    == \E s \in commands : stopReached(s.record)
             crash   == \E s \in commands : crashInside(s.record)
  <1>1. r \in PhaseResult /\ r.commands = commands /\ r.stoppedBeforeStart = FALSE
    BY PhaseResultType
  <1>2. /\ stop /\ crash  => verdict = "negative"
        /\ stop /\ ~crash => verdict = "aborted"
        /\ ~stop          => verdict = "none"
    BY DEF stopVerdict, stopVerdictWith
  <1>3. CASE allCrashed(commands)
    <2>1. r.decision = "blocked" /\ r.error = TRUE
      BY <1>3 DEF phaseResult, blockedPhase, skippedPhase
    <2>2. ~phaseStopReached(r)
      BY <1>1, <1>3, <2>1 DEF phaseStopReached, allCrashed
    <2> QED
      BY <1>1, <2>1, <2>2 DEF Telling
  <1>4. CASE ~allCrashed(commands)
    <2>1. r.decision = phaseDecision(phase[p].gate, commands)
      BY <1>4 DEF phaseResult, skippedPhase
    <2>2. /\ r.decision = "aborted" <=> verdict = "aborted"
          /\ verdict = "negative" => r.decision = "blocked"
      BY <2>1 DEF phaseDecision
    <2> HIDE DEF r, verdict, stop, crash
    <2>3. /\ r.decision = "aborted" => stop
          /\ stop /\ r.decision = "blocked" => crash
          /\ stop /\ crash => r.decision = "blocked"
      BY <1>2, <2>2
    <2>4. phaseStopReached(r) <=> stop
      BY <1>1, <2>3 DEF phaseStopReached, stop
    <2>5. crash => phaseCrashInside(r)
      BY <1>1 DEF phaseCrashInside, crash
    <2>6. commands # {} /\ (\A s \in commands : isCrashRecord(s.record)) => stop /\ crash
      BY <1>4 DEF allCrashed, crashInside, stop, crash
    <2>7. crash => r.decision \notin {"passed", "skipped"}
      <3> SUFFICES ASSUME crash PROVE phaseDecision(phase[p].gate, commands) \notin {"passed", "skipped"}
        BY <2>1
      <3>1. verdict \in {"none", "negative"}
        BY <1>2
      <3>2. negatives(commands) # {}
        BY DEF crash, Tells, negatives
      <3> QED
        BY <3>1, <3>2 DEF phaseDecision, verdict
    <2>8. phaseCrashInside(r) /\ r.decision # "blocked" => crash
      BY <1>1 DEF phaseCrashInside, crash
    <2> QED
      BY <1>1, <2>3, <2>4, <2>5, <2>6, <2>7, <2>8 DEF Telling, stop, r
  <1> QED
    BY <1>3, <1>4

\* A posture hides no stop and no crash.
LEMMA PosturedTells ==
  ASSUME NEW r \in PhaseResult, Telling(signal, r)
  PROVE  Telling(signal, postured(r))
  <1>1. CASE postured(r) = r
    BY <1>1
  <1>2. CASE postured(r) # r
    <2>1. /\ ~phaseStopReached(r) /\ r.error = FALSE
          /\ postured(r).decision = "warned"
          /\ postured(r).commands = r.commands
          /\ postured(r).stoppedBeforeStart = r.stoppedBeforeStart
      BY <1>2 DEF postured, failedItself, PhaseResult
    <2>2. /\ ~phaseStopReached(postured(r)) /\ ~postured(r).stoppedBeforeStart
          /\ ~r.error
      BY <2>1 DEF phaseStopReached
    <2>3. ~(r.commands # {} /\ \A s \in r.commands : isCrashRecord(s.record))
      BY <2>1, <2>2 DEF Telling
    <2> QED
      BY <2>1, <2>2, <2>3 DEF Telling
  <1> QED
    BY <1>1, <1>2

\* Every step preserves it.
LEMMA NextTellInv == ASSUME IInv, TellInv, [Next]_vars PROVE TellInv'
  <1>1. CASE SkipLevel
    <2>1. results' = joined(results, [p \in level |-> skippedPhase])
          /\ UNCHANGED <<signal, flight, levelResults>>
      BY <1>1 DEF SkipLevel, levelVars
    <2> QED
      BY <2>1, PlainTells DEF TellInv, joined
  <1>2. CASE StopLevel
    <2>1. /\ results' = joined(results,
               [p \in level |-> IF p \in eligible THEN stoppedPhase ELSE skippedPhase])
          /\ signal # "live"
          /\ UNCHANGED <<signal, flight, levelResults>>
      BY <1>2 DEF StopLevel, levelVars
    <2> QED
      BY <2>1, PlainTells DEF TellInv, joined
  <1>3. CASE StartLevel
    <2>1. results' = joined(results, [p \in level \ eligible |-> skippedPhase])
          /\ UNCHANGED <<signal, levelResults>>
      BY <1>3 DEF StartLevel
    <2>2. \A p \in DOMAIN flight' : flight'[p].records = {}
      BY <1>3 DEF StartLevel, started
    <2> QED
      BY <2>1, <2>2, PlainTells DEF TellInv, joined
  <1>4. ASSUME NEW p, PhaseEnds(p) PROVE TellInv'
    <2>1. /\ p \in DOMAIN flight
          /\ levelResults' = joined(levelResults, [q \in {p} \union stoppedHere |->
               IF q = p THEN phaseResult(p, flight[p].records) ELSE stoppedPhase])
          /\ flight' = [q \in (DOMAIN flight \ {p}) \union takenHere |->
                           IF q \in takenHere THEN started(q) ELSE flight[q]]
          /\ UNCHANGED <<signal, results>>
      BY <1>4 DEF PhaseEnds
    <2>2. Telling(signal, phaseResult(p, flight[p].records))
      BY <2>1, PhaseResultTells DEF IInv, TypeOK, Flight, TellInv
    <2>3. \A q \in stoppedHere : Telling(signal, stoppedPhase)
      BY PlainTells DEF stoppedHere
    <2>4. \A q \in DOMAIN levelResults' : Telling(signal, levelResults'[q])
      BY <2>1, <2>2, <2>3 DEF TellInv, joined
    <2>5. \A q \in DOMAIN flight' : \A s \in flight'[q].records : Tells(signal, s.record)
      BY <2>1 DEF TellInv, started
    <2> QED
      BY <2>1, <2>4, <2>5 DEF TellInv
  <1>5. CASE LevelOver
    <2>1. /\ results' = joined(results, [p \in DOMAIN levelResults |-> postured(levelResults[p])])
          /\ levelResults' = <<>>
          /\ UNCHANGED <<signal, flight>>
      BY <1>5 DEF LevelOver
    <2>2. \A p \in DOMAIN levelResults : Telling(signal, postured(levelResults[p]))
      BY PosturedTells DEF TellInv, IInv, TypeOK
    <2>3. \A p \in DOMAIN results' : Telling(signal, results'[p])
      BY <2>1, <2>2 DEF TellInv, joined
    <2> QED
      BY <2>1, <2>3, EmptyFunction DEF TellInv
  <1>6. CASE StepSettles
    <2>0. PICK p \in DOMAIN flight : \E s \in flight[p].pending : \E r \in Record :
            \E rejected \in BOOLEAN : settles(p, s, r, rejected) /\ Tells(signal, r)
      BY <1>6, StepSettlesRecord DEF Tells
    <2>1. PICK s \in flight[p].pending, r \in Record, rejected \in BOOLEAN :
            settles(p, s, r, rejected) /\ Tells(signal, r)
      BY <2>0
    <2>2. /\ UNCHANGED <<signal, results, levelResults>>
          /\ DOMAIN flight' = DOMAIN flight
          /\ flight'[p].records = flight[p].records \union {[step |-> s, record |-> r]}
          /\ \A q \in DOMAIN flight : q # p => flight'[q] = flight[q]
      BY <2>1 DEF settles, IInv, TypeOK
    <2>3. \A q \in DOMAIN flight' : \A t \in flight'[q].records : Tells(signal, t.record)
      BY <2>1, <2>2 DEF TellInv
    <2> QED
      BY <2>2, <2>3 DEF TellInv
  <1>7. ASSUME NEW p, PhaseThrows(p) PROVE TellInv'
    BY <1>7, EmptyFunction DEF TellInv, PhaseThrows
  <1>8. ASSUME NEW kind, SignalFires(kind) PROVE TellInv'
    <2>1. signal = "live" /\ UNCHANGED <<flight, levelResults, results>>
      BY <1>8 DEF SignalFires, levelVars
    <2>2. \A r : Tells(signal, r) => Tells(signal', r)
      BY <2>1 DEF Tells
    <2>3. \A r : Telling(signal, r) => Telling(signal', r)
      BY <2>1, <2>2 DEF Telling
    <2> QED
      BY <2>1, <2>2, <2>3 DEF TellInv
  <1>9. CASE Refuse \/ Finish \/ UNCHANGED vars
    BY <1>9 DEF TellInv, Refuse, Finish, vars, levelVars
  <1> QED
    BY <1>1, <1>2, <1>3, <1>4, <1>5, <1>6, <1>7, <1>8, <1>9 DEF Next, LoopStep, PhaseStep

\* Results tell the truth about stops in every run.
THEOREM TellInvariance == SafeSpec => [](IInv /\ TellInv)
  <1>1. Init => IInv /\ TellInv
    <2>1. Init => TellInv
      BY EmptyFunction DEF Init, TellInv
    <2> QED
      BY <2>1, InitIInv
  <1>2. IInv /\ TellInv /\ [Next]_vars => IInv' /\ TellInv'
    BY NextIInv, NextTellInv
  <1> QED
    BY <1>1, <1>2, PTL DEF SafeSpec

\* A phase all of whose steps crashed is never softened by a posture
\* (processLevelResults).
THEOREM CrashesStayBlocked == SafeSpec => []WarnNeverSoftensCrash
  <1>1. TellInv => WarnNeverSoftensCrash
    BY DEF TellInv, Telling, WarnNeverSoftensCrash
  <1> QED
    BY <1>1, TellInvariance, PTL

\* A workflow that reads ABORTED was stopped by a decision, and nothing in it
\* failed (aggregate).
LEMMA AbortedByDecision ==
  ASSUME IInv, TellInv, Decision = "ABORTED"
  PROVE  /\ signal = "aborted"
         /\ \A p \in DOMAIN results :
               /\ results[p].decision # "blocked"
               /\ phaseStopReached(results[p]) =>
                     \A s \in results[p].commands : ~crashInside(s.record)
  <1>1. anyStop /\ ~failedWithStop
    BY DEF Decision
  <1>2. \A p \in DOMAIN results :
          IF phaseStopReached(results[p]) THEN ~phaseCrashInside(results[p])
          ELSE results[p].decision # "blocked"
    BY <1>1 DEF failedWithStop
  <1>3. \A p \in DOMAIN results : Telling(signal, results[p])
    BY DEF TellInv
  <1>4. \A p \in DOMAIN results :
          /\ results[p].decision # "blocked"
          /\ phaseStopReached(results[p]) =>
                \A s \in results[p].commands : ~crashInside(s.record)
    BY <1>2, <1>3 DEF Telling, phaseCrashInside
  <1>5. PICK p \in DOMAIN results : phaseStopReached(results[p])
    BY <1>1 DEF anyStop
  <1>6. \/ results[p].stoppedBeforeStart
        \/ \E s \in results[p].commands : stopReached(s.record)
    BY <1>3, <1>5 DEF phaseStopReached, Telling
  <1>7. signal # "live" /\ signal # "deadline"
    BY <1>3, <1>4, <1>5, <1>6 DEF Telling, Tells
  <1> QED
    BY <1>4, <1>7 DEF IInv, TypeOK, Signals

\* AbortedMeansNothingFailed, in every run.
THEOREM AbortedIsNoFailure == SafeSpec => []AbortedMeansNothingFailed
  <1>1. IInv /\ TellInv => AbortedMeansNothingFailed
    BY AbortedByDecision DEF AbortedMeansNothingFailed
  <1> QED
    BY <1>1, TellInvariance, PTL

\* A workflow a stop reached gives no quality verdict (aggregate).
THEOREM StoppedIsNoVerdict == SafeSpec => []StopIsNoVerdict
  <1>1. TellInv => StopIsNoVerdict
    <2> SUFFICES ASSUME NEW p \in DOMAIN results,
                        \/ results[p].stoppedBeforeStart
                        \/ \E s \in results[p].commands : stopReached(s.record)
                 PROVE  Decision \in {"ABORTED", "BLOCK"}
      BY DEF StopIsNoVerdict
    <2>1. anyStop
      BY DEF anyStop, phaseStopReached
    <2> QED
      BY <2>1 DEF Decision
  <1> QED
    BY <1>1, TellInvariance, PTL

-----------------------------------------------------------------------------
(* The run keeps the promised schedule. *)

\* Every step moves phases as PhaseSchedule allows, or leaves them where they are.
LEMMA ScheduleStep ==
  ASSUME IInv, [Next]_vars
  PROVE  [Schedule!Next]_(Schedule!vars)
  <1> DEFINE D == [p \in Phases |-> phase[p].deps]
             active  == DOMAIN flight
             settled == DOMAIN results \union DOMAIN levelResults
             barred  == halted \/ signal # "live"
             over    == pc = "ended"
             waiting == Phases \ (active \union settled)
  <1>1. def' = def => D' = D /\ Phases' = Phases
    BY DEF phase, Phases
  <1>2. DOMAIN D = Phases /\ \A p \in Phases : D[p] = phase[p].deps
    OBVIOUS
  <1>3. ASSUME NEW ended \in SUBSET active, NEW dismissed \in SUBSET waiting,
               NEW started_ \in SUBSET (waiting \ dismissed),
               ~over, ~over', def' = def,
               \A p \in dismissed \union started_ : phase[p].deps \subseteq settled,
               started_ # {} => ~barred,
               active' = (active \ ended) \union started_,
               settled' = settled \union ended \union dismissed,
               barred => barred'
        PROVE  Schedule!Next
    <2>1. Schedule!Move(ended, dismissed, started_)
      BY <1>1, <1>2, <1>3 DEF Schedule!Move
    <2> QED
      BY <1>2, <1>3, <2>1 DEF Schedule!Next, Schedule!Waiting, Schedule!Phases
  <1>4. /\ queue \subseteq waiting /\ active \intersect settled = {}
        /\ \A q \in queue : phase[q].deps \subseteq settled
    BY DEF IInv, TypeOK, EveryPhaseAccounted, WalkInv, Busy
  <1>5. CASE SkipLevel \/ StopLevel
    <2>1. /\ DOMAIN results' = DOMAIN results \union level
          /\ pc = "loop" /\ UNCHANGED <<def, signal, pc, halted, flight, levelResults>>
      BY <1>5 DEF SkipLevel, StopLevel, AtLevel, levelVars, joined
    <2>2. /\ level \subseteq Phases \ DOMAIN results
          /\ \A p \in level : phase[p].deps \subseteq DOMAIN results
          /\ active = {} /\ DOMAIN levelResults = {}
      BY <2>1 DEF level, IInv, EveryPhaseAccounted
    <2> HIDE DEF D
    <2> QED
      <3>1. level \in SUBSET waiting /\ {} \in SUBSET active /\ {} \in SUBSET (waiting \ level)
        BY <2>2
      <3>2. ~over /\ ~over' /\ def' = def /\ (barred => barred')
        BY <2>1
      <3>3. /\ active' = (active \ {}) \union {}
            /\ settled' = settled \union {} \union level
            /\ \A p \in level \union {} : phase[p].deps \subseteq settled
        BY <2>1, <2>2
      <3> HIDE DEF active, settled, barred, over, waiting
      <3> QED
        BY <1>3, <3>1, <3>2, <3>3
  <1>6. CASE StartLevel
    <2> DEFINE first == firstPhases(concurrency(Cardinality(eligible)), eligible)
               rest  == level \ eligible
    <2>1. /\ DOMAIN results' = DOMAIN results \union rest
          /\ DOMAIN flight' = first
          /\ pc = "loop" /\ pc' # "ended" /\ ~halted /\ signal = "live"
          /\ UNCHANGED <<def, signal, halted, levelResults>>
      BY <1>6 DEF StartLevel, AtLevel, joined
    <2>2. /\ level \subseteq Phases \ DOMAIN results
          /\ \A p \in level : phase[p].deps \subseteq DOMAIN results
          /\ active = {} /\ DOMAIN levelResults = {}
          /\ first \subseteq level /\ first \intersect rest = {}
      BY <2>1, FirstPhasesType DEF level, eligible, IInv, EveryPhaseAccounted
    <2> HIDE DEF D, first
    <2>3. rest \in SUBSET waiting /\ {} \in SUBSET active /\ first \in SUBSET (waiting \ rest)
      BY <2>2
    <2>4. ~over /\ ~over' /\ def' = def /\ ~barred
      BY <2>1
    <2>5. /\ active' = (active \ {}) \union first
          /\ settled' = settled \union {} \union rest
          /\ \A p \in rest \union first : phase[p].deps \subseteq settled
      BY <2>1, <2>2
    <2> HIDE DEF active, settled, barred, over, waiting, rest
    <2> QED
      BY <1>3, <2>3, <2>4, <2>5
  <1>7. ASSUME NEW p, PhaseEnds(p) PROVE Schedule!Next
    <2>1. /\ p \in DOMAIN flight /\ pc = "await" /\ pc' = pc
          /\ DOMAIN levelResults' = DOMAIN levelResults \union ({p} \union stoppedHere)
          /\ DOMAIN flight' = (DOMAIN flight \ {p}) \union takenHere
          /\ UNCHANGED <<def, signal, halted, results>>
      BY <1>7 DEF PhaseEnds, joined
    <2>2. takenHere # {} => ~barred
      BY <2>1, TakenWhileLive DEF IInv, WalkInv
    <2>3. ~over /\ ~over' /\ def' = def /\ (barred => barred')
      BY <2>1
    <2>4. /\ {p} \in SUBSET active /\ stoppedHere \in SUBSET waiting
          /\ takenHere \in SUBSET (waiting \ stoppedHere)
          /\ \A q \in stoppedHere \union takenHere : phase[q].deps \subseteq settled
      BY <1>4, <2>1, WorkerTakes
    <2>5. /\ active' = (active \ {p}) \union takenHere
          /\ settled' = settled \union {p} \union stoppedHere
      BY <2>1
    <2> HIDE DEF D, active, settled, barred, over, waiting
    <2> QED
      BY <1>3, <2>2, <2>3, <2>4, <2>5
  <1>8. CASE LevelOver \/ SignalFires("aborted") \/ SignalFires("deadline")
    <2>1. /\ pc = "await" /\ pc' # "ended" /\ UNCHANGED <<def, flight>>
          /\ settled' = settled
          /\ barred => barred'
      <3>1. CASE LevelOver
        <4>1. DOMAIN results' = DOMAIN results \union DOMAIN levelResults /\ DOMAIN levelResults' = {}
          BY <3>1, EmptyFunction DEF LevelOver, joined
        <4> QED
          BY <3>1, <4>1 DEF LevelOver
      <3>2. CASE SignalFires("aborted") \/ SignalFires("deadline")
        BY <3>2 DEF SignalFires, levelVars
      <3> QED
        BY <1>8, <3>1, <3>2
    <2>2. /\ ~over /\ ~over' /\ def' = def /\ active' = (active \ {}) \union {}
          /\ settled' = settled \union {} \union {}
          /\ {} \in SUBSET active /\ {} \in SUBSET waiting /\ {} \in SUBSET (waiting \ {})
          /\ \A q \in {} \union {} : phase[q].deps \subseteq settled
      BY <2>1
    <2>3. barred => barred'
      BY <2>1
    <2> HIDE DEF D, active, settled, barred, over, waiting
    <2> QED
      BY <1>3, <2>2, <2>3
  <1>9. CASE Refuse
    <2>1. /\ pc = "loop" /\ pc' = "ended"
          /\ UNCHANGED <<def, signal, halted, flight, levelResults, results>>
      BY <1>9 DEF Refuse, levelVars
    <2>2. DOMAIN flight = {}
      BY <2>1 DEF IInv, EveryPhaseAccounted
    <2>3. Schedule!Fail
      BY <1>1, <2>1, <2>2 DEF Schedule!Fail
    <2> QED
      BY <2>3 DEF Schedule!Next
  <1>10. ASSUME NEW p, PhaseThrows(p) PROVE Schedule!Next
    <2>1. /\ pc = "await" /\ pc' = "ended" /\ DOMAIN flight' = {} /\ DOMAIN levelResults' = {}
          /\ UNCHANGED <<def, signal, halted, results>>
      BY <1>10, EmptyFunction DEF PhaseThrows
    <2>2. DOMAIN levelResults = {}
      BY <1>10, AloneInLevel
    <2>3. Schedule!Fail
      BY <1>1, <2>1, <2>2 DEF Schedule!Fail
    <2> QED
      BY <2>3 DEF Schedule!Next
  <1>11. CASE Finish
    <2>1. /\ pc = "loop" /\ pc' = "ended"
          /\ UNCHANGED <<def, signal, halted, flight, levelResults, results, threw>>
      BY <1>11 DEF Finish, levelVars
    <2>2. DOMAIN flight = {} /\ DOMAIN levelResults = {} /\ DOMAIN results = Phases
      BY <1>11, <2>1, FinishRecorded DEF IInv, EveryPhaseAccounted
    <2>3. Schedule!Leave
      BY <1>1, <1>2, <2>1, <2>2 DEF Schedule!Leave, Schedule!Phases
    <2> QED
      BY <2>3 DEF Schedule!Next
  <1>12. CASE StepSettles
    <2>1. PICK p \in DOMAIN flight : \E s \in flight[p].pending : \E r \in Record :
            \E rejected \in BOOLEAN : settles(p, s, r, rejected)
      BY <1>12, StepSettlesRecord
    <2>2. DOMAIN flight' = DOMAIN flight /\ UNCHANGED <<def, signal, pc, halted, levelResults, results>>
      BY <2>1 DEF settles
    <2> QED
      BY <1>1, <2>2 DEF Schedule!vars
  <1>13. CASE UNCHANGED vars
    BY <1>1, <1>13 DEF vars, levelVars, Schedule!vars
  <1> QED
    BY <1>5, <1>6, <1>7, <1>8, <1>9, <1>10, <1>11, <1>12, <1>13 DEF Next, LoopStep, PhaseStep

\* The run implements PhaseSchedule.
THEOREM Refinement == SafeSpec => KeepsSchedule
  <1>1. Init => Schedule!Init
    BY EmptyFunction DEF Init, Schedule!Init
  <1>2. IInv /\ [Next]_vars => [Schedule!Next]_(Schedule!vars)
    BY ScheduleStep
  <1> QED
    BY <1>1, <1>2, Invariance, PTL DEF SafeSpec, KeepsSchedule, Schedule!SafeSpec

-----------------------------------------------------------------------------
(* The workflow keeps the promise its callers are modelled on. *)

\* A rejection leaves the same record wherever it is classified.
LEMMA SameRejection ==
  \A code, sig : Unit!placeholderFor(Unit!rejectionKind(code, sig)) =
                    placeholderFor(rejectionKind(code, sig))
  BY DEF Unit!placeholderFor, Unit!rejectionKind, Unit!isRunStopAbort, Unit!isDeadlineSignal,
         Unit!withDeadlineMark, Unit!crashPlaceholder, Unit!abortedPlaceholder, Unit!NoScore,
         placeholderFor, rejectionKind, isRunStopAbort, isDeadlineSignal,
         withDeadlineMark, crashPlaceholder, abortedPlaceholder, NoScore

\* What a workflow's results come to is an answer its contract allows (aggregate).
LEMMA AnsweredAllowed ==
  ASSUME IInv, TellInv
  PROVE  mayAnswer(Answered, signal)
  <1> DEFINE crashed == \E p \in DOMAIN results : phaseCrashInside(results[p])
             verdict == IF ~anyStop THEN "none"
                        ELSE IF Category = "negative" THEN "negative" ELSE "aborted"
  <1>1. /\ Answered.marks = containerMarkers(verdict, crashed)
        /\ Answered.class = Category /\ ~Answered.synthesized
    BY DEF Answered, marked, answered
  <1>2. \A p \in DOMAIN results : Telling(signal, results[p])
    BY DEF TellInv
  <1>3. anyStop => signal # "live"
    <2> SUFFICES ASSUME NEW p \in DOMAIN results, phaseStopReached(results[p])
                 PROVE  signal # "live"
      BY DEF anyStop
    <2> QED
      BY <1>2 DEF phaseStopReached, Telling, Tells
  <1>4. anyStop => Decision \in {"BLOCK", "ABORTED"}
    BY DEF Decision
  <1>5. Decision = "ABORTED" => anyStop /\ signal = "aborted"
    BY AbortedByDecision DEF Decision
  <1>6. crashed => Decision # "SHIP"
    <2> SUFFICES ASSUME NEW p \in DOMAIN results, phaseCrashInside(results[p]), ~anyStop
                 PROVE  Decision # "SHIP"
      BY <1>4
    <2>1. results[p].decision \in {"blocked", "warned", "aborted"}
      BY <1>2 DEF Telling, IInv, TypeOK, PhaseResult
    <2>2. results[p].decision # "aborted"
      BY DEF anyStop, phaseStopReached
    <2>3. some("blocked") \/ some("warned")
      BY <2>1, <2>2 DEF some
    <2> QED
      BY <2>3 DEF Decision
  <1>7. /\ Category = "negative" <=> Decision = "BLOCK"
        /\ Category = "neutral" <=> Decision = "ABORTED"
        /\ Category = "positive" <=> Decision = "SHIP"
    BY DEF Category, Decision
  <1> HIDE DEF crashed
  <1>8. /\ "deadline" \notin Answered.marks
        /\ "run_stopped" \in Answered.marks => anyStop /\ Category # "negative"
        /\ "run_stopped_partial" \in Answered.marks => anyStop /\ Category = "negative"
        /\ "child_crashed" \in Answered.marks => crashed
    BY <1>1 DEF containerMarkers
  <1>9. crashInside(Answered) => Category = "negative" \/ crashed
    BY <1>1, <1>8 DEF crashInside, isCrashRecord
  <1> QED
    BY <1>1, <1>3, <1>4, <1>5, <1>6, <1>7, <1>8, <1>9 DEF mayAnswer

\* A step of a workflow is a step of a unit, or none.
LEMMA UnitStep == ASSUME IInv, TellInv, pc # "ended" => ~threw, [Next]_vars
                  PROVE  [Unit!Next]_(Unit!vars)
  <1>1. CASE Finish
    <2>1. Answered' = Answered
      BY <1>1 DEF Finish, levelVars, Answered, Category, Decision, anyStop, failedWithStop, some
    <2> QED
      BY <1>1, <2>1, AnsweredAllowed DEF Finish, Unit!Next, Unit!Replies
  <1>2. CASE Refuse
    BY <1>2, SameRejection DEF Refuse, Unit!Next, Unit!Throws
  <1>3. ASSUME NEW p, PhaseThrows(p) PROVE Unit!Next
    BY <1>3, SameRejection DEF PhaseThrows, Unit!Next, Unit!Throws
  <1>4. CASE SkipLevel \/ StopLevel \/ StartLevel \/ LevelOver
    BY <1>4 DEF SkipLevel, StopLevel, StartLevel, LevelOver, AtLevel, Unit!vars
  <1>5. ASSUME NEW p, PhaseEnds(p) PROVE UNCHANGED Unit!vars
    BY <1>5 DEF PhaseEnds, Unit!vars
  <1>6. CASE StepSettles
    <2>1. pc = "await" /\ UNCHANGED <<pc, signal>>
      BY <1>6, StepSettlesRecord DEF settles
    <2> QED
      BY <2>1 DEF Unit!vars
  <1>7. ASSUME NEW kind \in {"aborted", "deadline"}, SignalFires(kind) PROVE Unit!Next
    BY <1>7 DEF SignalFires, Unit!Next, Unit!Fires, Unit!Signals
  <1>8. CASE UNCHANGED vars
    <2>1. Answered' = Answered
      BY <1>8 DEF vars, levelVars, Answered, Category, Decision, anyStop, failedWithStop, some
    <2> QED
      BY <1>8, <2>1 DEF vars, Unit!vars
  <1> QED
    BY <1>1, <1>2, <1>3, <1>4, <1>5, <1>6, <1>7, <1>8 DEF Next, LoopStep, PhaseStep

\* KeepsUnitContract: what a pipeline assumes of a workflow it calls.
THEOREM KeepsPromise == SafeSpec => KeepsUnitContract
  <1> DEFINE Quiet == pc # "ended" => ~threw
  <1>1. Init => Unit!Init /\ Quiet
    BY SignalsAssumption DEF Init, Unit!Init, Unit!Signals, Signals
  <1>2. ASSUME IInv, Quiet, [Next]_vars PROVE Quiet'
    <2>1. CASE StepSettles
      BY <1>2, <2>1, StepSettlesRecord DEF settles
    <2> QED
      BY <1>2, <2>1 DEF Next, LoopStep, PhaseStep, Refuse, SkipLevel, StopLevel, StartLevel, Finish,
           LevelOver, PhaseThrows, PhaseEnds, SignalFires, AtLevel, vars
  <1>3. ASSUME IInv, TellInv, Quiet, [Next]_vars PROVE [Unit!Next]_(Unit!vars)
    BY <1>3, UnitStep
  <1> HIDE DEF Quiet
  <1> QED
    BY <1>1, <1>2, <1>3, TellInvariance, PTL DEF SafeSpec, KeepsUnitContract, Unit!SafeSpec

\* A stop holds (StopsHold): no phase starts after it, and no throw hides it.
THEOREM StopIsKept == SafeSpec => StopsHold
  BY NoStartAfterStop, StopIsNotThrown, PTL DEF StopsHold


-----------------------------------------------------------------------------
(***************************************************************************)
(* The workers.  That the first n phases of a set are n needs a bijection: *)
(* the rank of a phase in the set, which is injective into 0..(N - 1) and  *)
(* so, the cardinalities being equal, onto it.                             *)
(***************************************************************************)

\* The phases of a run are finitely many.
LEMMA FinitePhases == ASSUME def \in Workflows
                      PROVE  IsFiniteSet(Phases) /\ Phases \subseteq Nat
  <1>1. phase \in Seq(Phase)
    BY WorkflowsAssumption DEF Workflow, phase
  <1>2. Phases = 1..Len(phase) /\ Len(phase) \in Nat
    BY <1>1 DEF Phases
  <1> QED
    BY <1>2, FS_Interval

Rank(S, p) == Cardinality({q \in S : q < p})

\* Who comes earlier has the smaller rank, and every rank is below the size.
LEMMA RankOrder ==
  ASSUME NEW S \in SUBSET Nat, IsFiniteSet(S)
  PROVE  /\ \A p \in S : Rank(S, p) \in 0..(Cardinality(S) - 1)
         /\ \A p, q \in S : p < q => Rank(S, p) < Rank(S, q)
  <1>1. Cardinality(S) \in Nat
    BY FS_CardinalityType
  <1>2. \A p \in S : IsFiniteSet({q \in S : q < p}) /\ Rank(S, p) \in Nat
    BY FS_Subset, FS_CardinalityType DEF Rank
  <1>3. ASSUME NEW p \in S PROVE Rank(S, p) < Cardinality(S)
    <2>1. {q \in S : q < p} \in SUBSET (S \ {p})
      OBVIOUS
    <2>2. IsFiniteSet(S \ {p}) /\ Cardinality(S \ {p}) = Cardinality(S) - 1
      BY FS_RemoveElement
    <2>3. Cardinality({q \in S : q < p}) <= Cardinality(S \ {p})
      BY <2>1, <2>2, FS_Subset
    <2> QED
      BY <1>1, <1>2, <2>2, <2>3 DEF Rank
  <1>4. ASSUME NEW p \in S, NEW q \in S, p < q PROVE Rank(S, p) < Rank(S, q)
    <2> DEFINE P == {r \in S : r < p}
               Q == {r \in S : r < q}
    <2>1. P \union {p} \in SUBSET Q /\ p \notin P
      <3>1. p \in Nat /\ q \in Nat /\ \A r \in S : r \in Nat
        OBVIOUS
      <3>2. \A r \in S : r < p => r < q
        BY <1>4, <3>1
      <3>3. p \in Q /\ p \notin P
        BY <1>4, <3>1
      <3>4. P \subseteq Q
        BY <3>2
      <3> QED
        BY <3>3, <3>4
    <2>2. IsFiniteSet(P) /\ IsFiniteSet(Q)
      BY <1>2
    <2>3. Cardinality(P \union {p}) = Cardinality(P) + 1
      BY <2>1, <2>2, FS_AddElement
    <2>4. Cardinality(P \union {p}) <= Cardinality(Q)
      BY <2>1, <2>2, FS_Subset
    <2> HIDE DEF P, Q
    <2>5. Cardinality(P) + 1 <= Cardinality(Q) /\ Cardinality(P) \in Nat /\ Cardinality(Q) \in Nat
      BY <2>2, <2>3, <2>4, FS_CardinalityType
    <2> QED
      BY <2>5 DEF Rank, P, Q
  <1>5. \A p \in S : Rank(S, p) \in 0..(Cardinality(S) - 1)
    <2>1. \A N, k \in Nat : k < N => k \in 0..(N - 1)
      OBVIOUS
    <2> QED
      BY <1>1, <1>2, <1>3, <2>1
  <1> QED
    BY <1>4, <1>5

\* The first n phases of a set are n of it, or all of it when it has no more.
LEMMA FirstPhasesSize ==
  ASSUME NEW S \in SUBSET Nat, IsFiniteSet(S), NEW n \in Nat
  PROVE  /\ n >= Cardinality(S) => firstPhases(n, S) = S
         /\ n <= Cardinality(S) => Cardinality(firstPhases(n, S)) = n
         /\ IsFiniteSet(firstPhases(n, S))
  <1> DEFINE N == Cardinality(S)
             F == firstPhases(n, S)
             rank == [p \in S |-> Rank(S, p)]
  <1>1. N \in Nat
    BY FS_CardinalityType
  <1>2. F = {p \in S : Rank(S, p) < n}
    BY DEF firstPhases, Rank
  <1>3. /\ \A p \in S : Rank(S, p) \in 0..(N - 1)
        /\ \A p, q \in S : Rank(S, p) = Rank(S, q) => p = q
    <2>1. \A p, q \in S : p < q \/ q < p \/ p = q
      OBVIOUS
    <2> QED
      BY <2>1, RankOrder
  <1> HIDE DEF N, F
  <1>4. IsFiniteSet(0..(N - 1)) /\ Cardinality(0..(N - 1)) = N
    BY <1>1, FS_Interval
  <1>5. rank \in Injection(S, 0..(N - 1))
    BY <1>3 DEF Injection, IsInjective
  <1>6. \A k \in 0..(N - 1) : \E p \in S : Rank(S, p) = k
    <2>1. rank \in Surjection(S, 0..(N - 1))
      <3> HIDE DEF rank
      <3> QED
        BY <1>4, <1>5, FS_Injection DEF N
    <2> QED
      BY <2>1 DEF Surjection
  <1>7. n >= N => F = S
    <2>1. n >= N => \A p \in S : Rank(S, p) < n
      <3>1. \A k \in 0..(N - 1) : n >= N => k < n
        BY <1>1
      <3> QED
        BY <1>3, <3>1
    <2> QED
      BY <1>2, <2>1
  <1>8. ASSUME n <= N PROVE Cardinality(F) = n
    <2> DEFINE g == [p \in F |-> Rank(S, p)]
    <2>1. \A k \in 0..(n - 1) : \E p \in S : Rank(S, p) = k
      BY <1>1, <1>6, <1>8
    <2>2. g \in Injection(F, 0..(n - 1))
      <3>1. \A p \in F : Rank(S, p) \in 0..(n - 1)
        BY <1>1, <1>2, <1>3
      <3>2. \A p, q \in F : Rank(S, p) = Rank(S, q) => p = q
        BY <1>2, <1>3
      <3> QED
        BY <3>1, <3>2 DEF Injection, IsInjective
    <2>3. g \in Surjection(F, 0..(n - 1))
      BY <1>2, <2>1, <2>2 DEF Surjection, Injection
    <2>4. IsFiniteSet(0..(n - 1)) /\ Cardinality(0..(n - 1)) = n
      BY FS_Interval
    <2> HIDE DEF g
    <2> QED
      BY <2>2, <2>3, <2>4, FS_Injection
  <1>9. IsFiniteSet(F)
    BY <1>2, FS_Subset
  <1> QED
    BY <1>7, <1>8, <1>9 DEF N, F

\* The workers that start a level are as many as max_parallel allows, or as
\* there are phases.
LEMMA WorkersStart ==
  ASSUME def \in Workflows, NEW S \in SUBSET Phases
  PROVE  LET first == firstPhases(concurrency(Cardinality(S)), S)
         IN  /\ IsFiniteSet(first)
             /\ def.capped => Cardinality(first) <= limit
             /\ S \ first # {} => def.capped /\ Cardinality(first) = limit
  <1> DEFINE N == Cardinality(S)
             n == concurrency(N)
             first == firstPhases(n, S)
  <1>1. S \in SUBSET Nat /\ IsFiniteSet(S)
    BY FinitePhases, FS_Subset
  <1>2. N \in Nat
    BY <1>1, FS_CardinalityType
  <1>3. def.capped \in BOOLEAN /\ def.maxParallel \in Int
    BY WorkflowsAssumption DEF Workflow
  <1>4. /\ n \in Nat
        /\ ~def.capped => n = N
        /\ def.capped => n <= limit /\ (n = limit \/ n >= N)
    BY <1>2, <1>3 DEF concurrency, limit
  <1> HIDE DEF N, n
  <1>5. /\ n >= N => first = S
        /\ n <= N => Cardinality(first) = n
        /\ IsFiniteSet(first)
    BY <1>1, <1>4, FirstPhasesSize DEF N
  <1>6. limit \in Nat
    BY <1>3 DEF limit
  <1>7. def.capped => Cardinality(first) <= limit
    <2>1. CASE n >= N
      BY <1>2, <1>4, <1>5, <1>6, <2>1 DEF N
    <2>2. CASE n <= N
      BY <1>4, <1>5, <1>6, <2>2
    <2> QED
      BY <1>2, <1>4, <2>1, <2>2
  <1>8. S \ first # {} => def.capped /\ Cardinality(first) = limit
    <2> SUFFICES ASSUME first # S PROVE def.capped /\ Cardinality(first) = limit
      OBVIOUS
    <2>1. n < N
      BY <1>2, <1>4, <1>5
    <2> QED
      BY <1>2, <1>3, <1>4, <1>5, <2>1
  <1> QED
    BY <1>5, <1>7, <1>8 DEF n, N

\* A worker that is done with its phase takes one other, if any is queued.
LEMMA WorkersTurn ==
  ASSUME IInv, WorkersWithinLimit, NEW p, PhaseEnds(p)
  PROVE  WorkersWithinLimit'
  <1> DEFINE D == DOMAIN flight
  <1>1. /\ p \in D
        /\ flight' = [q \in (D \ {p}) \union takenHere |->
                         IF q \in takenHere THEN started(q) ELSE flight[q]]
        /\ queue' = queue \ (stoppedHere \union takenHere)
        /\ def' = def
    BY DEF PhaseEnds
  <1>2. DOMAIN flight' = (D \ {p}) \union takenHere
    BY <1>1
  <1>3. /\ def \in Workflows /\ D \subseteq Phases /\ queue \subseteq Phases
        /\ queue \intersect D = {}
    BY DEF IInv, TypeOK, EveryPhaseAccounted
  <1>4. IsFiniteSet(D) /\ IsFiniteSet(queue) /\ queue \in SUBSET Nat
    BY <1>3, FinitePhases, FS_Subset
  <1> HIDE DEF D
  <1>5. /\ Cardinality(D) \in Nat
        /\ IsFiniteSet(D \ {p}) /\ Cardinality(D \ {p}) = Cardinality(D) - 1
    BY <1>1, <1>4, FS_CardinalityType, FS_RemoveElement
  <1>6. def.maxParallel \in Int /\ limit \in Nat /\ limit' = limit
    BY <1>1, <1>3, WorkflowsAssumption DEF Workflow, limit
  <1>7. CASE takenHere = {}
    <2>1. DOMAIN flight' = D \ {p}
      BY <1>2, <1>7
    <2>2. queue' = {}
      <3>1. CASE signal = "live"
        <4>1. firstPhases(1, queue) = {}
          BY <1>7, <3>1 DEF takenHere, stoppedHere
        <4>2. /\ 1 <= Cardinality(queue) => Cardinality(firstPhases(1, queue)) = 1
              /\ 1 >= Cardinality(queue) => firstPhases(1, queue) = queue
          BY <1>4, FirstPhasesSize
        <4>3. Cardinality({}) = 0 /\ Cardinality(queue) \in Nat
          BY <1>4, FS_EmptySet, FS_CardinalityType
        <4>4. queue = {}
          BY <4>1, <4>2, <4>3
        <4> QED
          BY <1>1, <4>4
      <3>2. CASE signal # "live"
        BY <1>1, <3>2 DEF stoppedHere
      <3> QED
        BY <3>1, <3>2
    <2>3. def.capped => Cardinality(D \ {p}) <= limit
      BY <1>5, <1>6 DEF WorkersWithinLimit, D
    <2> QED
      BY <1>1, <1>6, <2>1, <2>2, <2>3 DEF WorkersWithinLimit
  <1>8. CASE takenHere # {}
    <2>1. stoppedHere = {} /\ queue # {} /\ takenHere = firstPhases(1, queue)
      <3>1. stoppedHere = {}
        BY <1>8, FirstPhasesType DEF takenHere, stoppedHere
      <3> QED
        BY <1>8, <3>1, WorkerTakes DEF takenHere
    <2>2. PICK q : takenHere = {q}
      <3>1. Cardinality(queue) \in Nat /\ Cardinality(queue) # 0
        BY <1>4, <2>1, FS_CardinalityType, FS_EmptySet
      <3>2. 1 <= Cardinality(queue) => Cardinality(firstPhases(1, queue)) = 1
        BY <1>4, FirstPhasesSize
      <3>3. IsFiniteSet(takenHere)
        BY <1>4, <2>1, FirstPhasesSize
      <3>4. Cardinality(takenHere) = 1
        BY <2>1, <3>1, <3>2
      <3> QED
        BY <3>3, <3>4, FS_Singleton
    <2>3. q \in queue /\ q \notin D
      BY <1>3, <2>2, WorkerTakes
    <2>4. DOMAIN flight' = (D \ {p}) \union {q}
      BY <1>2, <2>2
    <2>5. Cardinality((D \ {p}) \union {q}) = Cardinality(D)
      BY <1>5, <2>3, FS_AddElement
    <2>6. def.capped /\ Cardinality(D) = limit
      BY <2>1 DEF WorkersWithinLimit, D
    <2> QED
      BY <1>1, <1>6, <2>4, <2>5, <2>6 DEF WorkersWithinLimit
  <1> QED
    BY <1>7, <1>8

\* Every step keeps the workers within max_parallel, and none idle.
LEMMA NextWorkers == ASSUME IInv, WorkersWithinLimit, [Next]_vars PROVE WorkersWithinLimit'
  <1>1. CASE StartLevel
    <2> DEFINE first == firstPhases(concurrency(Cardinality(eligible)), eligible)
    <2>1. /\ flight' = [p \in first |-> started(p)] /\ queue' = eligible \ first /\ def' = def
      BY <1>1 DEF StartLevel
    <2>2. eligible \in SUBSET Phases /\ def \in Workflows
      BY DEF eligible, level, IInv, TypeOK
    <2>3. /\ def.capped => Cardinality(first) <= limit
          /\ eligible \ first # {} => def.capped /\ Cardinality(first) = limit
      BY <2>2, WorkersStart
    <2> HIDE DEF first
    <2>4. DOMAIN flight' = first /\ limit' = limit
      BY <2>1 DEF limit
    <2> QED
      BY <2>1, <2>3, <2>4 DEF WorkersWithinLimit
  <1>2. ASSUME NEW p, PhaseEnds(p) PROVE WorkersWithinLimit'
    BY <1>2, WorkersTurn
  <1>3. ASSUME NEW p, PhaseThrows(p) PROVE WorkersWithinLimit'
    <2>1. DOMAIN flight' = {} /\ queue' = {} /\ limit' = limit
      BY <1>3, EmptyFunction DEF PhaseThrows, limit
    <2>2. limit \in Nat
      BY WorkflowsAssumption DEF IInv, TypeOK, Workflow, limit
    <2>3. Cardinality({}) = 0
      BY FS_EmptySet
    <2> QED
      BY <2>1, <2>2, <2>3 DEF WorkersWithinLimit
  <1>4. CASE StepSettles
    <2>0. PICK p \in DOMAIN flight : \E s \in flight[p].pending : \E r \in Record :
            \E rejected \in BOOLEAN : settles(p, s, r, rejected)
      BY <1>4, StepSettlesRecord
    <2>1. DOMAIN flight' = DOMAIN flight /\ queue' = queue /\ def' = def
      BY <2>0 DEF settles
    <2> QED
      BY <2>1 DEF WorkersWithinLimit, limit
  <1>5. CASE \/ Refuse \/ SkipLevel \/ StopLevel \/ Finish \/ LevelOver \/ UNCHANGED vars
             \/ SignalFires("aborted") \/ SignalFires("deadline")
    <2>1. flight' = flight /\ queue' = queue /\ def' = def
      BY <1>5 DEF Refuse, SkipLevel, StopLevel, Finish, LevelOver, SignalFires, vars, levelVars
    <2> QED
      BY <2>1 DEF WorkersWithinLimit, limit
  <1> QED
    BY <1>1, <1>2, <1>3, <1>4, <1>5 DEF Next, LoopStep, PhaseStep

\* What becomes of the phases (PhaseRecords), in every run: none is lost, none
\* works on a dependency that failed, and the workers keep to max_parallel.
THEOREM PhasesRecorded == SafeSpec => []PhaseRecords
  <1>1. Init => WorkersWithinLimit
    <2> SUFFICES ASSUME Init PROVE WorkersWithinLimit
      OBVIOUS
    <2>1. DOMAIN flight = {} /\ queue = {} /\ def \in Workflows
      BY EmptyFunction DEF Init
    <2>2. limit \in Nat
      BY <2>1, WorkflowsAssumption DEF Workflow, limit
    <2> QED
      BY <2>1, <2>2, FS_EmptySet DEF WorkersWithinLimit
  <1>2. IInv /\ WorkersWithinLimit /\ [Next]_vars => WorkersWithinLimit'
    BY NextWorkers
  <1>3. IInv /\ WorkersWithinLimit => PhaseRecords
    BY DEF IInv, PhaseRecords
  <1> QED
    BY <1>1, <1>2, <1>3, Invariance, PTL DEF SafeSpec

-----------------------------------------------------------------------------
(***************************************************************************)
(* SHIP.  A phase in flight has one record per step it has behind it, and  *)
(* a sequential one leaves a step out only over a record that cannot pass; *)
(* a phase that passed has all its records; and a phase is skipped by its  *)
(* own condition, by a dependency that failed, or after a halt, which a    *)
(* blocked phase caused and left blocked.                                  *)
(***************************************************************************)
done(commands) == {c.step : c \in commands}

OneEach(commands) == \A c, d \in commands : c.step = d.step => c = d

Spoiled(commands) == \E c \in commands : stopReached(c.record) \/ crashInside(c.record)

AtWork(p, f) ==
    /\ OneEach(f.records)
    /\ f.pending \intersect done(f.records) = {}
    /\ phase[p].parallel => f.pending \union done(f.records) = 1..phase[p].steps
    /\ ~phase[p].parallel => \A s \in f.pending :
         s \in 1..phase[p].steps /\ f.pending = {s} /\ done(f.records) = 1..(s - 1)
    /\ f.pending = {} => Spoiled(f.records) \/ done(f.records) = 1..phase[p].steps

Whole(p, r) ==
    r.decision = "passed" =>
        /\ OneEach(r.commands) /\ done(r.commands) = 1..phase[p].steps
        /\ \A s \in r.commands : s.record.class # "negative"

Excused(p, res, halt) ==
    res[p].decision = "skipped" =>
        \/ phase[p].skip \/ halt
        \/ \E d \in phase[p].deps \intersect DOMAIN res : res[d].decision \in {"blocked", "aborted"}

ShipInv ==
    /\ halted => some("blocked")
    /\ \A p \in DOMAIN results : Excused(p, results, halted) /\ Whole(p, results[p])
    /\ \A p \in DOMAIN levelResults :
         levelResults[p].decision # "skipped" /\ Whole(p, levelResults[p])
    /\ \A p \in DOMAIN flight : AtWork(p, flight[p])

\* A phase that starts has all its steps before it.
LEMMA StartedAtWork == ASSUME NEW p, phase[p] \in Phase PROVE AtWork(p, started(p))
  <1> DEFINE f == started(p)
             n == phase[p].steps
  <1>1. n \in Nat /\ phase[p].parallel \in BOOLEAN
    BY DEF Phase
  <1>2. f.records = {} /\ f.pending = IF phase[p].parallel THEN 1..n ELSE {s \in 1..n : s = 1}
    BY DEF started
  <1>3. done(f.records) = {} /\ OneEach(f.records)
    BY <1>2 DEF done, OneEach
  <1> HIDE DEF f, n
  <1>4. f.pending = {} => 1..n = {}
    <2>1. \A k \in 1..n : 1 \in 1..n
      BY <1>1
    <2>2. CASE phase[p].parallel
      BY <1>2, <2>2
    <2>3. CASE ~phase[p].parallel
      <3>1. 1 \in 1..n => 1 \in f.pending
        BY <1>2, <2>3
      <3> QED
        BY <2>1, <3>1
    <2> QED
      BY <2>2, <2>3
  <1>5. ~phase[p].parallel => \A s \in f.pending : s = 1 /\ s \in 1..n /\ f.pending = {s}
    BY <1>1, <1>2
  <1>6. 1..(1 - 1) = {}
    OBVIOUS
  <1> QED
    BY <1>2, <1>3, <1>4, <1>5, <1>6 DEF AtWork, f, n

\* A step that settles is behind the phase, and the next one before it.
LEMMA SettlesAtWork ==
  ASSUME IInv, ShipInv, NEW p, NEW s, NEW r \in Record, NEW rejected \in BOOLEAN,
         settles(p, s, r, rejected), rejected => stopReached(r) \/ crashInside(r)
  PROVE  AtWork(p, flight'[p])
  <1> DEFINE f == flight[p]
             n == phase[p].steps
             c == [step |-> s, record |-> r]
             pending == IF phase[p].parallel THEN f.pending \ {s}
                        ELSE {t \in 1..n : t = s + 1 /\ ~rejected}
             records == f.records \union {c}
  <1>1. p \in DOMAIN flight /\ p \in Phases /\ s \in f.pending /\ AtWork(p, f)
    BY DEF settles, IInv, TypeOK, ShipInv
  <1>2. n \in Nat /\ phase[p].parallel \in BOOLEAN
    BY <1>1, PhaseType DEF IInv, TypeOK, Phase
  <1>3. flight'[p] = [pending |-> pending, records |-> records]
    BY <1>1 DEF settles, IInv, TypeOK
  <1> HIDE DEF f, n, pending, records
  <1>4. done(records) = done(f.records) \union {s} /\ c \in records /\ c.record = r
    <2>1. c.step = s /\ c.record = r
      OBVIOUS
    <2> HIDE DEF c
    <2> QED
      BY <2>1 DEF done, records
  <1>5. OneEach(records)
    <2>1. s \notin done(f.records) /\ OneEach(f.records)
      BY <1>1 DEF AtWork
    <2>2. \A d \in f.records : d.step # s
      BY <2>1 DEF done
    <2> QED
      BY <2>1, <2>2 DEF OneEach, records
  <1>6. pending \intersect done(records) = {}
    <2>1. CASE phase[p].parallel
      BY <1>1, <1>4, <2>1 DEF AtWork, pending
    <2>2. CASE ~phase[p].parallel
      <3>1. s \in 1..n /\ done(f.records) = 1..(s - 1)
        BY <1>1, <2>2 DEF AtWork, n
      <3>2. \A t \in 1..(s - 1) : t # s + 1
        BY <1>2, <3>1
      <3>3. s + 1 # s
        BY <1>2, <3>1
      <3> QED
        BY <1>4, <2>2, <3>1, <3>2, <3>3 DEF pending
    <2> QED
      BY <2>1, <2>2
  <1>7. phase[p].parallel => pending \union done(records) = 1..n
    BY <1>1, <1>4 DEF AtWork, pending, n
  <1>8. ASSUME ~phase[p].parallel
        PROVE  /\ \A t \in pending : t \in 1..n /\ pending = {t} /\ done(records) = 1..(t - 1)
               /\ pending = {} => rejected \/ done(records) = 1..n
    <2>1. s \in 1..n /\ done(f.records) = 1..(s - 1)
      BY <1>1, <1>8 DEF AtWork, n
    <2>2. done(records) = 1..s
      BY <1>2, <1>4, <2>1
    <2>3. pending = {t \in 1..n : t = s + 1 /\ ~rejected}
      BY <1>8 DEF pending
    <2>4. (s + 1) - 1 = s
      BY <1>2, <2>1
    <2>5. pending = {} /\ ~rejected => s = n
      BY <1>2, <2>1, <2>3
    <2> QED
      BY <2>2, <2>3, <2>4, <2>5
  <1>9. pending = {} => Spoiled(records) \/ done(records) = 1..n
    BY <1>2, <1>4, <1>7, <1>8 DEF Spoiled
  <1> QED
    BY <1>3, <1>5, <1>6, <1>7, <1>8, <1>9 DEF AtWork, n

\* A phase that ends passing has all its records, and none of them negative
\* (phaseDecision).
LEMMA PassedIsWhole ==
  ASSUME IInv, TellInv, NEW p \in DOMAIN flight, AtWork(p, flight[p]), flight[p].pending = {}
  PROVE  /\ phaseResult(p, flight[p].records).decision # "skipped"
         /\ Whole(p, phaseResult(p, flight[p].records))
  <1> DEFINE commands == flight[p].records
             r == phaseResult(p, commands)
             verdict == stopVerdict({s.record : s \in commands})
  <1>1. commands \in SUBSET StepRecord /\ \A s \in commands : Tells(signal, s.record)
    BY DEF IInv, TypeOK, Flight, TellInv
  <1>2. r.commands = commands
    BY <1>1, PhaseResultType
  <1>3. r.decision = "blocked" \/ r.decision = phaseDecision(phase[p].gate, commands)
    BY DEF phaseResult, blockedPhase, skippedPhase
  <1>4. phaseDecision(phase[p].gate, commands) \in {"passed", "warned", "blocked", "aborted"}
    BY DEF phaseDecision
  <1>5. phaseDecision(phase[p].gate, commands) = "passed" =>
          verdict \notin {"aborted", "negative"} /\ negatives(commands) = {}
    BY DEF phaseDecision
  <1>6. verdict \notin {"aborted", "negative"} => \A s \in commands : ~stopReached(s.record)
    BY DEF stopVerdict, stopVerdictWith
  <1> HIDE DEF commands, r, verdict
  <1>7. r.decision = "passed" => \A s \in commands : s.record.class # "negative"
    BY <1>3, <1>5 DEF negatives
  <1>8. r.decision = "passed" => ~Spoiled(commands)
    BY <1>1, <1>3, <1>5, <1>6, <1>7 DEF Spoiled, Tells
  <1>9. OneEach(commands) /\ (Spoiled(commands) \/ done(commands) = 1..phase[p].steps)
    BY DEF AtWork, commands
  <1>10. Whole(p, r)
    BY <1>2, <1>7, <1>8, <1>9 DEF Whole
  <1>11. r.decision # "skipped"
    BY <1>3, <1>4
  <1> QED
    BY <1>10, <1>11 DEF r, commands

\* More results excuse what they skip and leave the others as they are.
LEMMA ExcusedGrows ==
  ASSUME NEW g, DOMAIN g \intersect DOMAIN results = {}, NEW halt \in BOOLEAN,
         halted \in BOOLEAN, halted => halt,
         \A p \in DOMAIN results : Excused(p, results, halted) /\ Whole(p, results[p]),
         \A p \in DOMAIN g : /\ Whole(p, g[p])
                             /\ g[p].decision = "skipped" =>
                                  \/ phase[p].skip \/ halt
                                  \/ \E d \in phase[p].deps \intersect DOMAIN results :
                                        results[d].decision \in {"blocked", "aborted"}
  PROVE  \A p \in DOMAIN joined(results, g) :
            Excused(p, joined(results, g), halt) /\ Whole(p, joined(results, g)[p])
  <1> DEFINE res == joined(results, g)
  <1>1. /\ DOMAIN res = DOMAIN results \union DOMAIN g
        /\ \A p \in DOMAIN results : res[p] = results[p]
        /\ \A p \in DOMAIN g : res[p] = g[p]
    BY DEF joined
  <1> HIDE DEF res
  <1>2. ASSUME NEW p \in DOMAIN results PROVE Excused(p, res, halt) /\ Whole(p, res[p])
    BY <1>1, <1>2 DEF Excused
  <1>3. ASSUME NEW p \in DOMAIN g PROVE Excused(p, res, halt) /\ Whole(p, res[p])
    BY <1>1, <1>3 DEF Excused
  <1> QED
    BY <1>1, <1>2, <1>3 DEF res

\* A phase left out by the check on its dependencies is excused by one of them.
LEMMA LeftOut ==
  ASSUME NEW p \in level, p \notin eligible
  PROVE  \/ phase[p].skip
         \/ \E d \in phase[p].deps \intersect DOMAIN results :
               results[d].decision \in {"blocked", "aborted"}
  BY DEF level, eligible, checkDependencies

\* Results made without work pass nothing.
LEMMA PlainWhole ==
  \A p : Whole(p, skippedPhase) /\ Whole(p, stoppedPhase) /\ stoppedPhase.decision # "skipped"
  BY DEF Whole, skippedPhase, stoppedPhase, isDeadlineSignal

\* A posture makes nothing pass or skipped, and leaves blocked what it does not
\* soften.
LEMMA PosturedWhole ==
  ASSUME NEW p, NEW r \in PhaseResult, Whole(p, r), r.decision # "skipped"
  PROVE  /\ Whole(p, postured(r)) /\ postured(r).decision # "skipped"
         /\ def.onFailure # "warn" => postured(r) = r
  <1>1. postured(r).decision \in {r.decision, "warned"} /\ postured(r).commands = r.commands
    BY PosturedType
  <1> QED
    BY <1>1 DEF Whole, postured

\* A step that leaves the workflow and its results as they are.
LEMMA ShipKept ==
  ASSUME ShipInv, def' = def, halted' = halted, results' = results,
         \A p \in DOMAIN levelResults' :
            levelResults'[p].decision # "skipped" /\ Whole(p, levelResults'[p]),
         \A p \in DOMAIN flight' : AtWork(p, flight'[p])
  PROVE  ShipInv'
  <1>1. phase' = phase
    BY DEF phase
  <1>2. halted' => some("blocked")'
    BY DEF ShipInv, some
  <1>3. \A p \in DOMAIN results' : Excused(p, results, halted)' /\ Whole(p, results[p])'
    BY <1>1 DEF ShipInv, Excused, Whole
  <1>4. \A p \in DOMAIN levelResults' :
          levelResults'[p].decision # "skipped" /\ Whole(p, levelResults[p])'
    BY <1>1 DEF Whole
  <1>5. \A p \in DOMAIN flight' : AtWork(p, flight[p])'
    BY <1>1 DEF AtWork
  <1> QED
    BY <1>2, <1>3, <1>4, <1>5 DEF ShipInv

\* A step that adds results between two levels.
LEMMA ShipGrown ==
  ASSUME IInv, ShipInv, pc = "loop", def' = def, halted' = halted,
         NEW g, results' = joined(results, g), DOMAIN g \intersect DOMAIN results = {},
         \A p \in DOMAIN g : /\ Whole(p, g[p])
                             /\ g[p].decision = "skipped" =>
                                  \/ phase[p].skip \/ halted
                                  \/ \E d \in phase[p].deps \intersect DOMAIN results :
                                        results[d].decision \in {"blocked", "aborted"},
         DOMAIN levelResults' = {},
         \A p \in DOMAIN flight' : AtWork(p, flight'[p])
  PROVE  ShipInv'
  <1>1. phase' = phase
    BY DEF phase
  <1>2. halted' => some("blocked")'
    BY DEF ShipInv, some, joined
  <1>3. halted \in BOOLEAN
    BY DEF IInv, TypeOK
  <1>4. \A p \in DOMAIN results' : Excused(p, results', halted) /\ Whole(p, results'[p])
    BY <1>3, ExcusedGrows DEF ShipInv
  <1>5. \A p \in DOMAIN results' : Excused(p, results, halted)' /\ Whole(p, results[p])'
    BY <1>1, <1>4 DEF Excused, Whole
  <1>6. \A p \in DOMAIN flight' : AtWork(p, flight[p])'
    BY <1>1 DEF AtWork
  <1> QED
    BY <1>2, <1>5, <1>6 DEF ShipInv

\* The end of a level: what halts the walk is recorded blocked.
LEMMA LevelOverShip == ASSUME IInv, ShipInv, LevelOver PROVE ShipInv'
  <1> DEFINE g == [p \in DOMAIN levelResults |-> postured(levelResults[p])]
  <1>1. /\ results' = joined(results, g) /\ def' = def
        /\ halted' = \/ halted
                     \/ /\ def.onFailure \in {"stop", "abort"}
                        /\ \E p \in DOMAIN levelResults : failedItself(levelResults[p])
        /\ levelResults' = <<>> /\ flight' = flight /\ DOMAIN flight = {}
    BY DEF LevelOver
  <1>2. phase' = phase /\ halted \in BOOLEAN
    BY <1>1 DEF phase, IInv, TypeOK
  <1>3. DOMAIN g = DOMAIN levelResults /\ DOMAIN g \intersect DOMAIN results = {}
    BY DEF IInv, EveryPhaseAccounted
  <1>4. \A p \in DOMAIN g : Whole(p, g[p]) /\ g[p].decision # "skipped"
    BY PosturedWhole DEF ShipInv, IInv, TypeOK
  <1>5. def.onFailure \in {"stop", "abort"} =>
          \A p \in DOMAIN levelResults : g[p] = levelResults[p]
    BY PosturedWhole DEF ShipInv, IInv, TypeOK
  <1> HIDE DEF g
  <1>6. halted' => some("blocked")'
    <2>1. CASE halted
      BY <1>1, <2>1 DEF ShipInv, some, joined
    <2>2. CASE ~halted /\ halted'
      <3>1. PICK p \in DOMAIN levelResults : failedItself(levelResults[p])
        BY <1>1, <2>2
      <3>2. g[p].decision = "blocked"
        BY <1>1, <1>5, <2>2, <3>1 DEF failedItself
      <3>3. p \in DOMAIN results' /\ results'[p] = g[p]
        BY <1>1, <1>3 DEF joined
      <3> QED
        BY <3>2, <3>3 DEF some
    <2> QED
      BY <2>1, <2>2
  <1>7. halted' \in BOOLEAN /\ (halted => halted')
    BY <1>1, <1>2
  <1>8. \A p \in DOMAIN results' : Excused(p, results', halted') /\ Whole(p, results'[p])
    BY <1>1, <1>2, <1>3, <1>4, <1>7, ExcusedGrows DEF ShipInv
  <1>9. \A p \in DOMAIN results' : Excused(p, results, halted)' /\ Whole(p, results[p])'
    BY <1>2, <1>8 DEF Excused, Whole
  <1> QED
    BY <1>1, <1>6, <1>9, EmptyFunction DEF ShipInv

\* Every step preserves it.
LEMMA NextShip == ASSUME IInv, TellInv, ShipInv, [Next]_vars PROVE ShipInv'
  <1>0. pc = "loop" => DOMAIN levelResults = {} /\ DOMAIN flight = {}
    BY DEF IInv, EveryPhaseAccounted
  <1>1. CASE SkipLevel
    <2> DEFINE g == [p \in level |-> skippedPhase]
    <2>1. /\ results' = joined(results, g) /\ pc = "loop" /\ halted /\ def' = def
          /\ halted' = halted /\ levelResults' = levelResults /\ flight' = flight
      BY <1>1 DEF SkipLevel, AtLevel, levelVars
    <2>2. DOMAIN g \intersect DOMAIN results = {} /\ \A p \in DOMAIN g : Whole(p, g[p])
      BY PlainWhole DEF level
    <2> HIDE DEF g
    <2> QED
      BY <1>0, <2>1, <2>2, ShipGrown
  <1>2. CASE StopLevel
    <2> DEFINE g == [p \in level |-> IF p \in eligible THEN stoppedPhase ELSE skippedPhase]
    <2>1. /\ results' = joined(results, g) /\ pc = "loop" /\ def' = def
          /\ halted' = halted /\ levelResults' = levelResults /\ flight' = flight
      BY <1>2 DEF StopLevel, AtLevel, levelVars
    <2>2. DOMAIN g \intersect DOMAIN results = {} /\ \A p \in DOMAIN g : Whole(p, g[p])
      BY PlainWhole DEF level
    <2>3. \A p \in DOMAIN g : g[p].decision = "skipped" =>
            \/ phase[p].skip
            \/ \E d \in phase[p].deps \intersect DOMAIN results :
                  results[d].decision \in {"blocked", "aborted"}
      BY PlainWhole, LeftOut
    <2> HIDE DEF g
    <2> QED
      BY <1>0, <2>1, <2>2, <2>3, ShipGrown
  <1>3. CASE StartLevel
    <2> DEFINE g == [p \in level \ eligible |-> skippedPhase]
    <2>1. /\ results' = joined(results, g) /\ pc = "loop" /\ def' = def
          /\ halted' = halted /\ levelResults' = levelResults
      BY <1>3 DEF StartLevel, AtLevel
    <2>2. \A p \in DOMAIN flight' : flight'[p] = started(p) /\ p \in Phases
      BY <1>3, FirstPhasesType DEF StartLevel, eligible, level
    <2>3. \A p \in DOMAIN flight' : AtWork(p, flight'[p])
      BY <2>2, StartedAtWork, PhaseType DEF IInv, TypeOK
    <2>4. DOMAIN g \intersect DOMAIN results = {} /\ \A p \in DOMAIN g : Whole(p, g[p])
      BY PlainWhole DEF level
    <2>5. \A p \in DOMAIN g :
            \/ phase[p].skip
            \/ \E d \in phase[p].deps \intersect DOMAIN results :
                  results[d].decision \in {"blocked", "aborted"}
      BY LeftOut
    <2> HIDE DEF g
    <2> QED
      BY <1>0, <2>1, <2>3, <2>4, <2>5, ShipGrown
  <1>4. ASSUME NEW p, PhaseEnds(p) PROVE ShipInv'
    <2>1. /\ p \in DOMAIN flight /\ flight[p].pending = {}
          /\ levelResults' = joined(levelResults, [q \in {p} \union stoppedHere |->
               IF q = p THEN phaseResult(p, flight[p].records) ELSE stoppedPhase])
          /\ flight' = [q \in (DOMAIN flight \ {p}) \union takenHere |->
                           IF q \in takenHere THEN started(q) ELSE flight[q]]
          /\ UNCHANGED <<def, halted, results>>
      BY <1>4 DEF PhaseEnds
    <2>2. /\ phaseResult(p, flight[p].records).decision # "skipped"
          /\ Whole(p, phaseResult(p, flight[p].records))
      BY <2>1, PassedIsWhole DEF ShipInv
    <2>3. \A q \in DOMAIN levelResults' :
            levelResults'[q].decision # "skipped" /\ Whole(q, levelResults'[q])
      BY <2>1, <2>2, PlainWhole DEF ShipInv, joined
    <2>4. \A q \in takenHere : q \in Phases
      BY WorkerTakes DEF IInv, TypeOK
    <2>5. \A q \in DOMAIN flight' : AtWork(q, flight'[q])
      BY <2>1, <2>4, StartedAtWork, PhaseType DEF ShipInv, IInv, TypeOK
    <2> QED
      BY <2>1, <2>3, <2>5, ShipKept
  <1>5. CASE LevelOver
    BY <1>5, LevelOverShip
  <1>6. CASE StepSettles
    <2>0. PICK p \in DOMAIN flight : \E s \in flight[p].pending : \E r \in Record :
            \E rejected \in BOOLEAN :
              settles(p, s, r, rejected) /\ (rejected => stopReached(r) \/ crashInside(r))
      BY <1>6, StepSettlesRecord
    <2>1. PICK s \in flight[p].pending, r \in Record, rejected \in BOOLEAN :
            settles(p, s, r, rejected) /\ (rejected => stopReached(r) \/ crashInside(r))
      BY <2>0
    <2>2. AtWork(p, flight'[p])
      BY <2>1, SettlesAtWork
    <2>3. /\ UNCHANGED <<def, halted, results, levelResults>>
          /\ DOMAIN flight' = DOMAIN flight
          /\ \A q \in DOMAIN flight : q # p => flight'[q] = flight[q]
      BY <2>1 DEF settles, IInv, TypeOK
    <2>4. \A q \in DOMAIN flight' : AtWork(q, flight'[q])
      BY <2>2, <2>3 DEF ShipInv
    <2> QED
      BY <2>3, <2>4, ShipKept DEF ShipInv
  <1>7. ASSUME NEW p, PhaseThrows(p) PROVE ShipInv'
    BY <1>7, EmptyFunction, ShipKept DEF PhaseThrows
  <1>8. CASE \/ Refuse \/ Finish \/ UNCHANGED vars
             \/ SignalFires("aborted") \/ SignalFires("deadline")
    BY <1>8, ShipKept DEF ShipInv, Refuse, Finish, SignalFires, vars, levelVars
  <1> QED
    BY <1>1, <1>2, <1>3, <1>4, <1>5, <1>6, <1>7, <1>8 DEF Next, LoopStep, PhaseStep

\* One record per step makes as many records as steps.
LEMMA RecordsCounted ==
  ASSUME NEW commands, NEW n \in Nat, OneEach(commands), done(commands) = 1..n
  PROVE  Cardinality(commands) = n
  <1> DEFINE f == [c \in commands |-> c.step]
  <1>1. f \in Injection(commands, 1..n) /\ f \in Surjection(commands, 1..n)
    BY DEF OneEach, done, Injection, IsInjective, Surjection
  <1>2. IsFiniteSet(1..n) /\ Cardinality(1..n) = n
    BY FS_Interval
  <1> HIDE DEF f
  <1> QED
    BY <1>1, <1>2, FS_Injection

\* A workflow that reads SHIP left out what its author's conditions did, and
\* nothing in it failed or was stopped (aggregate).
THEOREM ShipIsVerified == SafeSpec => []ShipMeansVerified
  <1>1. Init => ShipInv
    BY EmptyFunction DEF Init, ShipInv
  <1>2. IInv /\ TellInv /\ ShipInv /\ [Next]_vars => ShipInv'
    BY NextShip
  <1>3. ASSUME IInv, TellInv, ShipInv PROVE ShipMeansVerified
    <2> SUFFICES ASSUME Decision = "SHIP", NEW p \in DOMAIN results
                 PROVE  \/ results[p].decision = "skipped" /\ phase[p].skip
                        \/ /\ results[p].decision = "passed"
                           /\ Cardinality(results[p].commands) = phase[p].steps
                           /\ \A s \in results[p].commands :
                                 /\ s.record.class # "negative"
                                 /\ ~stopReached(s.record) /\ ~crashInside(s.record)
      BY DEF ShipMeansVerified
    <2>1. ~anyStop /\ ~some("blocked") /\ ~some("warned")
      BY DEF Decision
    <2>2. \A q \in DOMAIN results : results[q].decision \in {"passed", "skipped"}
      <3>1. \A q \in DOMAIN results :
              results[q].decision \in {"passed", "warned", "blocked", "aborted", "skipped"}
        BY <1>3 DEF IInv, TypeOK, PhaseResult
      <3>2. \A q \in DOMAIN results : results[q].decision # "aborted"
        BY <2>1 DEF anyStop, phaseStopReached
      <3> QED
        BY <2>1, <3>1, <3>2 DEF some
    <2>3. CASE results[p].decision = "skipped"
      BY <1>3, <2>1, <2>2, <2>3 DEF ShipInv, Excused
    <2>4. CASE results[p].decision = "passed"
      <3>1. /\ OneEach(results[p].commands) /\ done(results[p].commands) = 1..phase[p].steps
            /\ \A s \in results[p].commands : s.record.class # "negative"
        BY <1>3, <2>4 DEF ShipInv, Whole
      <3>2. phase[p].steps \in Nat
        BY <1>3, PhaseType DEF IInv, TypeOK, Phase
      <3>3. Cardinality(results[p].commands) = phase[p].steps
        BY <3>1, <3>2, RecordsCounted
      <3>4. \A s \in results[p].commands : ~stopReached(s.record)
        BY <2>1 DEF anyStop, phaseStopReached
      <3>5. \A s \in results[p].commands : ~crashInside(s.record)
        BY <1>3, <3>1 DEF TellInv, Telling, Tells
      <3> QED
        BY <2>4, <3>1, <3>3, <3>4, <3>5
    <2> QED
      BY <2>2, <2>3, <2>4
  <1>4. IInv /\ TellInv /\ ShipInv => ShipMeansVerified
    BY <1>3
  <1> QED
    BY <1>1, <1>2, <1>4, TellInvariance, PTL DEF SafeSpec

\* The verdict of a workflow tells what happened in it (VerdictTells), in every
\* run: a stop is no verdict on quality, ABORTED hides no failure, SHIP no gap.
THEOREM VerdictIsTold == SafeSpec => []VerdictTells
  <1>1. StopIsNoVerdict /\ AbortedMeansNothingFailed /\ ShipMeansVerified
          /\ WarnNeverSoftensCrash => VerdictTells
    BY DEF VerdictTells
  <1> QED
    BY <1>1, StoppedIsNoVerdict, AbortedIsNoFailure, ShipIsVerified, CrashesStayBlocked, PTL
=============================================================================
