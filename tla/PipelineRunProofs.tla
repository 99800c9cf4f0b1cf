--------------------------- MODULE PipelineRunProofs ---------------------------
(***************************************************************************)
(* Proofs about PipelineRun, for every set of pipelines, agents, answers   *)
(* and callers that satisfies its assumptions.                             *)
(***************************************************************************)
EXTENDS PipelineRun, SequenceTheorems, TLAPS

-----------------------------------------------------------------------------
(* The records of settled units (StopVerdict). *)

\* An answer makes a record.
LEMMA AnsweredType == \A class \in Classes, score \in Int : answered(class, score) \in Record
  BY DEF answered, Record, Marks

\* So does the placeholder of a rejection, whatever it was.
LEMMA PlaceholderType == \A code, sig : placeholderFor(rejectionKind(code, sig)) \in Record
  <1>1. crashPlaceholder \in Record
    BY DEF crashPlaceholder, Record, Marks, Classes, NoScore
  <1>2. withDeadlineMark(crashPlaceholder) \in Record
    BY <1>1 DEF withDeadlineMark, Record, Marks
  <1>3. abortedPlaceholder \in Record
    BY DEF abortedPlaceholder, Record, Marks, Classes, NoScore
  <1> QED
    BY <1>1, <1>2, <1>3 DEF placeholderFor, rejectionKind

\* Marking a record gives a record.
LEMMA MarkedType == \A r \in Record, marks \in SUBSET Marks : marked(r, marks) \in Record
  BY DEF marked, Record

\* The placeholder of a crash is a record.
LEMMA CrashType == crashPlaceholder \in Record
  BY DEF crashPlaceholder, Record, Marks, Classes, NoScore

-----------------------------------------------------------------------------
(* The pipeline being run. *)

\* The pipeline being run is a sequence of stages.
LEMMA DefType == ASSUME TypeOK
                 PROVE  def \in Seq(Stage) /\ N \in Nat
  <1>1. def \in Seq(Stage)
    BY PipelinesAssumption DEF TypeOK
  <1> QED
    BY <1>1 DEF N

\* Inside the loop the current stage is one of the pipeline's.
LEMMA CurrentType == ASSUME TypeOK, stage <= N
                     PROVE  current \in Stage
  <1>1. stage \in 1..Len(def)
    BY DefType DEF TypeOK, N
  <1> QED
    BY <1>1, DefType, ElementOfSeq DEF current

\* Every gate, authored or not, has one of the three modes.
LEMMA GateModeType == \A g : gateMode(g) \in Modes
  BY DEF gateMode, Modes

-----------------------------------------------------------------------------
(* The results of the stages a loop leaves behind. *)

\* A skipped stage's result is well typed and keeps its id.
LEMMA SkippedStageType ==
  ASSUME NEW id \in Nat, NEW reason \in SkipReasons
  PROVE  skippedStage(id, reason) \in StageResult /\ skippedStage(id, reason).id = id
  BY DEF skippedStage, StageResult, Outcomes

\* The same, for the current stage.
LEMMA SkippedHere ==
  ASSUME TypeOK
  PROVE  \A reason \in SkipReasons :
            /\ skippedStage(stage, reason) \in StageResult
            /\ skippedStage(stage, reason).id = stage
  <1>1. stage \in Nat
    BY DefType DEF TypeOK
  <1> QED
    BY <1>1, SkippedStageType

\* The reasons the loop gives are reasons a result may carry.
LEMMA SkipReasonsInclude ==
  {"dependencies_not_met", "gate_abort", "condition_not_met", "gate_early_exit", "none"}
     \subseteq SkipReasons
  BY DEF SkipReasons, BenignSkips

\* The skipped tail has one result for each stage left, in order.
LEMMA SkippedType ==
  ASSUME TypeOK, NEW from \in 1..(N + 1), NEW reason \in SkipReasons
  PROVE  /\ skipped(from, reason) \in Seq(StageResult)
         /\ Len(skipped(from, reason)) = N - from + 1
         /\ \A k \in 1..(N - from + 1) : skipped(from, reason)[k].id = from + k - 1
  <1> DEFINE n == N - from + 1
  <1>1. n \in Nat /\ \A k \in 1..n : from + k - 1 \in Nat
    BY DefType
  <1>2. \A k \in 1..n : skippedStage(from + k - 1, reason) \in StageResult
    BY <1>1, SkippedStageType
  <1>3. skipped(from, reason) \in [1..n -> StageResult]
    BY <1>2 DEF skipped
  <1>4. skipped(from, reason) \in Seq(StageResult)
    BY <1>1, <1>3, SeqDef
  <1>5. Len(skipped(from, reason)) = n
    BY <1>1, <1>3, <1>4, LenProperties
  <1>6. \A k \in 1..n : skipped(from, reason)[k].id = from + k - 1
    BY <1>1, SkippedStageType DEF skipped
  <1> QED
    BY <1>4, <1>5, <1>6

\* The label of a stop is a reason a result may carry.
LEMMA StopLabelType == ASSUME TypeOK PROVE stopLabel \in SkipReasons
  BY DEF TypeOK, stopLabel, SkipReasons, BenignSkips

\* A stage whose condition was E leaves a well typed result.
LEMMA ConditionErrorType ==
  ASSUME TypeOK, NEW gate
  PROVE  /\ conditionErrorStage(stage, gate) \in StageResult
         /\ conditionErrorStage(stage, gate).id = stage
  <1>1. stage \in Nat
    BY DefType DEF TypeOK
  <1> QED
    BY <1>1, GateModeType DEF conditionErrorStage, StageResult, Outcomes, SkipReasons, ErroredReasons

\* Judging the current stage gives a well typed result with its id.
LEMMA JudgedType ==
  ASSUME TypeOK
  PROVE  judgedStage \in StageResult /\ judgedStage.id = stage
  <1>1. stage \in Nat
    BY DefType DEF TypeOK
  <1>2. CASE allAgentsSkipped
    BY <1>1, <1>2, SkippedStageType DEF judgedStage, SkipReasons, BenignSkips
  <1>3. CASE ~allAgentsSkipped
    <2> DEFINE m == gateMode(current.gate)
               o == IF erroredReasons # {} THEN "ERRORED" ELSE judgedOutcome(gateFailed, m)
    <2>1. judgedStage = [id |-> stage, mode |-> m, reasons |-> erroredReasons,
                         outcome |-> o, skipReason |-> "none", records |-> records]
      BY <1>3 DEF judgedStage
    <2>2. m \in Modes
      BY GateModeType
    <2>3. o \in Outcomes
      BY DEF judgedOutcome, Outcomes
    <2>4. erroredReasons \subseteq ErroredReasons
      BY DEF erroredReasons, ErroredReasons
    <2>5. records \subseteq Settled
      BY DEF TypeOK
    <2> HIDE DEF m, o
    <2>6. judgedStage \in [id : Nat, outcome : Outcomes, mode : Modes \union {"none"},
                           reasons : SUBSET ErroredReasons, skipReason : {"none"},
                           records : SUBSET Settled]
      BY <1>1, <2>1, <2>2, <2>3, <2>4, <2>5
    <2> QED
      BY <2>1, <2>6 DEF StageResult, SkipReasons
  <1> QED
    BY <1>2, <1>3

\* What Judge records after a stage: the whole tail if it leaves, else nothing.
LEMMA RestType ==
  ASSUME TypeOK, stage <= N, NEW r
  PROVE  /\ restAfter(r) \in Seq(StageResult)
         /\ \A k \in 1..Len(restAfter(r)) : restAfter(r)[k].id = stage + k
         /\ Len(restAfter(r)) = IF stoppedNow \/ earlyExit(r) THEN N - stage ELSE 0
  <1>1. stage + 1 \in 1..(N + 1) /\ stage \in Nat
    BY DefType DEF TypeOK
  <1>2. "gate_early_exit" \in SkipReasons
    BY DEF SkipReasons, BenignSkips
  <1>3. \A reason \in SkipReasons :
          /\ skipped(stage + 1, reason) \in Seq(StageResult)
          /\ Len(skipped(stage + 1, reason)) = N - stage
          /\ \A k \in 1..(N - stage) : skipped(stage + 1, reason)[k].id = stage + k
    <2> SUFFICES ASSUME NEW reason \in SkipReasons
                 PROVE  /\ skipped(stage + 1, reason) \in Seq(StageResult)
                        /\ Len(skipped(stage + 1, reason)) = N - stage
                        /\ \A k \in 1..(N - stage) : skipped(stage + 1, reason)[k].id = stage + k
      OBVIOUS
    <2>1. N - (stage + 1) + 1 = N - stage /\ \A k \in Int : stage + 1 + k - 1 = stage + k
      BY <1>1, DefType
    <2> QED
      BY <1>1, <2>1, SkippedType
  <1>4. CASE stoppedNow
    BY <1>3, <1>4, StopLabelType DEF restAfter
  <1>5. CASE ~stoppedNow /\ earlyExit(r)
    BY <1>2, <1>3, <1>5 DEF restAfter
  <1>6. CASE ~stoppedNow /\ ~earlyExit(r)
    BY <1>6, EmptySeq DEF restAfter
  <1> QED
    BY <1>4, <1>5, <1>6

-----------------------------------------------------------------------------
(***************************************************************************)
(* The inductive invariant: types, the accounting of stages, and how the   *)
(* loop, the units, the signal and the status go together.                 *)
(***************************************************************************)
LoopInv ==
    /\ pc = "await" => stage <= N
    /\ pc # "await" => running = {} /\ records = {}
    /\ pc = "ended" => status # "running"
    /\ pc # "ended" => status # "completed"
    /\ signal # "live" => status # "running"
    /\ settled => pc = "ended"
    /\ threw => pc = "ended"

IInv == TypeOK /\ EveryStageAccounted /\ LoopInv

\* The invariant holds of the state start() leaves.
LEMMA InitIInv == Init => IInv
  <1> SUFFICES ASSUME Init PROVE IInv
    OBVIOUS
  <1>1. def \in Seq(Stage) /\ N \in Nat
    BY PipelinesAssumption DEF Init, N
  <1>2. results \in Seq(StageResult) /\ Len(results) = 0 /\ DOMAIN results = {}
    <2>1. results \in Seq(StageResult) /\ Len(results) = 0
      BY EmptySeq DEF Init
    <2> QED
      BY <2>1, LenProperties
  <1>3. TypeOK
    <2>1. caller \in {"none", "live", "aborted", "deadline"}
      BY CallerAssumption DEF Init
    <2>2. /\ status \in {"running", "completed", "failed", "cancelled"}
          /\ label \in {"none", "credit", "deadline"}
          /\ error \in {"none", "user", "caller", "credit", "deadline", "threw"}
          /\ signal \in Signals
      BY <2>1 DEF Init, Signals
    <2>3. stage \in 1..(N + 1)
      BY <1>1 DEF Init
    <2> QED
      BY <1>2, <2>1, <2>2, <2>3 DEF Init, TypeOK
  <1>4. EveryStageAccounted
    BY <1>1, <1>2 DEF Init, EveryStageAccounted
  <1>5. LoopInv
    BY <1>1 DEF Init, LoopInv
  <1> QED
    BY <1>3, <1>4, <1>5 DEF IInv

\* One more result: what Append does to the accounting.
LEMMA AppendType ==
  ASSUME IInv, NEW r \in StageResult, r.id = stage, pc # "ended"
  PROVE  /\ Append(results, r) \in Seq(StageResult)
         /\ Len(Append(results, r)) = stage
         /\ \A k \in DOMAIN Append(results, r) : Append(results, r)[k].id = k
  <1>1. results \in Seq(StageResult) /\ Len(results) = stage - 1 /\ stage \in Nat
    BY DefType DEF IInv, TypeOK, EveryStageAccounted
  <1>2. DOMAIN results = 1..Len(results)
    BY <1>1, LenProperties
  <1>3. /\ Append(results, r) \in Seq(StageResult)
        /\ Len(Append(results, r)) = Len(results) + 1
        /\ \A k \in 1..Len(results) : Append(results, r)[k] = results[k]
        /\ Append(results, r)[Len(results) + 1] = r
    BY <1>1, AppendProperties
  <1>4. DOMAIN Append(results, r) = 1..(Len(results) + 1)
    BY <1>3, LenProperties
  <1> QED
    BY <1>1, <1>2, <1>3, <1>4 DEF IInv, EveryStageAccounted

\* The rest of the results, after the first ones.
LEMMA ConcatType ==
  ASSUME NEW s \in Seq(StageResult), NEW t \in Seq(StageResult),
         \A k \in DOMAIN s : s[k].id = k,
         \A k \in 1..Len(t) : t[k].id = Len(s) + k
  PROVE  /\ s \o t \in Seq(StageResult)
         /\ Len(s \o t) = Len(s) + Len(t)
         /\ \A k \in DOMAIN (s \o t) : (s \o t)[k].id = k
  <1>1. /\ s \o t \in Seq(StageResult)
        /\ Len(s \o t) = Len(s) + Len(t)
        /\ \A k \in 1..(Len(s) + Len(t)) :
              (s \o t)[k] = IF k <= Len(s) THEN s[k] ELSE t[k - Len(s)]
    BY ConcatProperties
  <1>2. /\ DOMAIN s = 1..Len(s) /\ Len(s) \in Nat /\ Len(t) \in Nat
        /\ DOMAIN (s \o t) = 1..(Len(s) + Len(t))
    BY <1>1, LenProperties
  <1>3. SUFFICES ASSUME NEW k \in 1..(Len(s) + Len(t))
                 PROVE  (s \o t)[k].id = k
    BY <1>1, <1>2
  <1>4. CASE k <= Len(s)
    BY <1>1, <1>2, <1>4
  <1>5. CASE ~(k <= Len(s))
    <2>1. k - Len(s) \in 1..Len(t) /\ Len(s) + (k - Len(s)) = k
      BY <1>2, <1>5
    <2> QED
      BY <1>1, <1>5, <2>1
  <1> QED
    BY <1>4, <1>5

-----------------------------------------------------------------------------
(* Steps of the loop that launch nothing. *)

\* The action of a stage that ended without launching, from what it records.
LEMMA EndWithoutLaunchInv ==
  ASSUME IInv, AtStage, ~stoppedNow,
         NEW r \in StageResult, r.id = stage,
         NEW newAborted \in SUBSET (1..N),
         EndWithoutLaunch(r, newAborted)
  PROVE  IInv'
  <1> USE DEF IInv
  <1>1. /\ Append(results, r) \in Seq(StageResult)
        /\ Len(Append(results, r)) = stage
        /\ \A k \in DOMAIN Append(results, r) : Append(results, r)[k].id = k
    BY AppendType DEF AtStage
  <1>2. stage + 1 \in 1..(N + 1) /\ N' = N
    BY DefType DEF TypeOK, AtStage, EndWithoutLaunch, N
  <1>3. TypeOK'
    BY <1>1, <1>2 DEF TypeOK, EndWithoutLaunch, stopVars, workVars
  <1>4. EveryStageAccounted'
    BY <1>1, <1>2 DEF EveryStageAccounted, EndWithoutLaunch, AtStage, TypeOK
  <1>5. LoopInv'
    BY <1>2 DEF LoopInv, EndWithoutLaunch, AtStage, stopVars, workVars
  <1> QED
    BY <1>3, <1>4, <1>5

\* A stage skipped for its dependencies preserves the invariant.
LEMMA SkipUnmetInv == ASSUME IInv, SkipUnmet PROVE IInv'
  <1>1. /\ skippedStage(stage, "dependencies_not_met") \in StageResult
        /\ skippedStage(stage, "dependencies_not_met").id = stage
    BY SkippedHere, SkipReasonsInclude DEF IInv
  <1>2. aborted \in SUBSET (1..N)
    BY DEF IInv, TypeOK
  <1> QED
    BY <1>1, <1>2, EndWithoutLaunchInv DEF SkipUnmet

\* So does one skipped by the abort cascade.
LEMMA SkipDownstreamInv == ASSUME IInv, SkipDownstream PROVE IInv'
  <1>1. /\ skippedStage(stage, "gate_abort") \in StageResult
        /\ skippedStage(stage, "gate_abort").id = stage
    BY SkippedHere, SkipReasonsInclude DEF IInv
  <1>2. aborted \union {stage} \in SUBSET (1..N)
    BY DefType DEF IInv, TypeOK, SkipDownstream, AtStage
  <1> QED
    BY <1>1, <1>2, EndWithoutLaunchInv DEF SkipDownstream

\* So does one whose condition is false.
LEMMA ConditionFalseInv == ASSUME IInv, ConditionFalse PROVE IInv'
  <1>1. /\ skippedStage(stage, "condition_not_met") \in StageResult
        /\ skippedStage(stage, "condition_not_met").id = stage
    BY SkippedHere, SkipReasonsInclude DEF IInv
  <1>2. aborted \in SUBSET (1..N)
    BY DEF IInv, TypeOK
  <1> QED
    BY <1>1, <1>2, EndWithoutLaunchInv DEF ConditionFalse, Reached

\* The stages that abort their dependents are stages.
LEMMA AbortedAfterType ==
  ASSUME TypeOK, stage <= N, NEW r, r.id = stage
  PROVE  abortedAfter(r) \in SUBSET (1..N)
  BY DefType DEF TypeOK, abortedAfter

\* So does one whose condition is E.
LEMMA ConditionErrorInv == ASSUME IInv, ConditionError PROVE IInv'
  <1> DEFINE r == conditionErrorStage(stage, current.gate)
  <1>1. r \in StageResult /\ r.id = stage
    BY ConditionErrorType DEF IInv
  <1>2. abortedAfter(r) \in SUBSET (1..N)
    BY <1>1, AbortedAfterType DEF IInv, ConditionError, Reached, AtStage
  <1>3. AtStage /\ ~stoppedNow /\ EndWithoutLaunch(r, abortedAfter(r))
    BY DEF ConditionError, Reached
  <1> HIDE DEF r
  <1> QED
    BY <1>1, <1>2, <1>3, EndWithoutLaunchInv

\* Leaving the loop because the run was stopped preserves the invariant.
LEMMA LoopStoppedInv == ASSUME IInv, LoopStopped PROVE IInv'
  <1> USE DEF IInv
  <1>1. /\ skipped(stage, stopLabel) \in Seq(StageResult)
        /\ Len(skipped(stage, stopLabel)) = N - stage + 1
        /\ \A k \in 1..(N - stage + 1) : skipped(stage, stopLabel)[k].id = stage + k - 1
    BY SkippedType, StopLabelType DEF TypeOK
  <1>2. stage \in Nat /\ N \in Nat /\ Len(results) = stage - 1 /\ stage <= N
    BY DefType DEF TypeOK, EveryStageAccounted, LoopStopped, AtStage
  <1>3. \A k \in 1..Len(skipped(stage, stopLabel)) :
          skipped(stage, stopLabel)[k].id = Len(results) + k
    BY <1>1, <1>2
  <1>4. /\ results' \in Seq(StageResult)
        /\ Len(results') = N
        /\ \A k \in DOMAIN results' : results'[k].id = k
    <2>1. results \in Seq(StageResult) /\ \A k \in DOMAIN results : results[k].id = k
      BY DEF TypeOK, EveryStageAccounted
    <2>2. results' = results \o skipped(stage, stopLabel)
      BY DEF LoopStopped
    <2>3. /\ results' \in Seq(StageResult)
          /\ Len(results') = Len(results) + Len(skipped(stage, stopLabel))
          /\ \A k \in DOMAIN results' : results'[k].id = k
      BY <1>1, <1>3, <2>1, <2>2, ConcatType
    <2> QED
      BY <1>1, <1>2, <2>3
  <1>5. N' = N
    BY DEF LoopStopped, N
  <1>6. TypeOK'
    BY <1>4, <1>5 DEF TypeOK, LoopStopped, stopVars, workVars
  <1>7. EveryStageAccounted'
    BY <1>4, <1>5 DEF EveryStageAccounted, LoopStopped
  <1>8. LoopInv'
    BY <1>5 DEF LoopInv, LoopStopped, AtStage, stoppedNow, stopVars, workVars
  <1> QED
    BY <1>6, <1>7, <1>8

\* Running off the end of the pipeline preserves the invariant.
LEMMA FinishInv == ASSUME IInv, Finish PROVE IInv'
  <1> USE DEF IInv
  <1>1. N' = N /\ N \in Nat /\ stage = N + 1
    BY DefType DEF Finish, N, TypeOK
  <1>2. TypeOK'
    BY <1>1 DEF TypeOK, Finish, workVars
  <1>3. EveryStageAccounted'
    BY <1>1 DEF EveryStageAccounted, Finish
  <1>4. LoopInv'
    BY <1>1 DEF LoopInv, Finish, workVars
  <1> QED
    BY <1>2, <1>3, <1>4

-----------------------------------------------------------------------------
(* A stage is launched, its units settle, it is judged. *)

\* Launching a stage preserves the invariant.
LEMMA LaunchInv == ASSUME IInv, Launch PROVE IInv'
  <1> USE DEF IInv
  <1>1. N' = N /\ current \in Stage
    BY CurrentType DEF Launch, Reached, AtStage, N
  <1>2. PICK errs \in SUBSET current.conditional :
          \E off \in SUBSET (current.conditional \ errs) :
             condErrs' = errs /\ running' = dispatched(errs, off)
    BY DEF Launch
  <1>3. condErrs' \subseteq Agents
    BY <1>1, <1>2 DEF Stage
  <1>4. running' \subseteq Units
    <2>1. \A off : dispatched(errs, off) \subseteq Units
      BY <1>1 DEF Stage, dispatched, Units
    <2> QED
      BY <1>2, <2>1
  <1>5. records' \subseteq Settled
    <2>1. answered("positive", NoScore) \in Record
      BY AnsweredType DEF Classes, NoScore
    <2>2. [unit |-> "steps", record |-> answered("positive", NoScore)] \in Settled
      BY <2>1 DEF Settled, Units
    <2> QED
      BY <2>2 DEF Launch, passedThrough
  <1>6. TypeOK'
    BY <1>1, <1>3, <1>4, <1>5 DEF TypeOK, Launch, stopVars
  <1>7. EveryStageAccounted'
    BY <1>1 DEF EveryStageAccounted, Launch, Reached, AtStage
  <1>8. LoopInv'
    BY <1>1 DEF LoopInv, Launch, Reached, AtStage, stopVars
  <1> QED
    BY <1>6, <1>7, <1>8

\* A unit that settles preserves the invariant.
LEMMA SettlesInv ==
  ASSUME IInv, NEW u, NEW r \in Record, settles(u, r),
         \/ UNCHANGED stopVars
         \/ /\ status' = "failed" /\ label' \in {"none", "credit", "deadline"}
            /\ error' \in {"none", "user", "caller", "credit", "deadline", "threw"}
            /\ signal' \in Signals /\ status = "running"
  PROVE  IInv'
  <1> USE DEF IInv
  <1>1. N' = N
    BY DEF settles, N
  <1>2. records' \subseteq Settled
    <2>1. u \in Units
      BY DEF settles, TypeOK
    <2>2. [unit |-> u, record |-> r] \in Settled
      BY <2>1 DEF Settled
    <2> QED
      BY <2>2 DEF settles, TypeOK
  <1>3. TypeOK'
    BY <1>1, <1>2 DEF TypeOK, settles, stopVars, loopVars
  <1>4. EveryStageAccounted'
    BY <1>1 DEF EveryStageAccounted, settles, loopVars
  <1>5. LoopInv'
    BY <1>1 DEF LoopInv, settles, stopVars, loopVars
  <1> QED
    BY <1>3, <1>4, <1>5

\* However a unit settles, the invariant is preserved.
LEMMA UnitSettlesInv == ASSUME IInv, UnitSettles PROVE IInv'
  <1>1. ASSUME NEW u \in running, Answer(u) PROVE IInv'
    <2>1. PICK x \in Answers : settles(u, answered(x.class, x.score))
      BY <1>1 DEF Answer
    <2>2. x.class \in Classes /\ x.score \in Int
      BY AnswersAssumption DEF NoScore
    <2>3. answered(x.class, x.score) \in Record
      BY <2>2, AnsweredType
    <2> QED
      BY <1>1, <2>1, <2>3, SettlesInv DEF Answer
  <1>2. ASSUME NEW u \in running, NEW code, Reject(u, code) PROVE IInv'
    <2>1. placeholderFor(rejectionKind(code, signal)) \in Record
      BY PlaceholderType
    <2> QED
      BY <1>2, <2>1, SettlesInv DEF Reject
  <1>3. CASE AnswerEmpty
    <2>1. \A x \in Record : executedNothing(x) \in Record
      BY DEF executedNothing, Record
    <2>2. PICK class \in {"positive", "neutral"} :
            settles("ref", executedNothing(answered(class, NoScore)))
      BY <1>3 DEF AnswerEmpty
    <2>3. answered(class, NoScore) \in Record
      BY AnsweredType DEF Classes, NoScore
    <2> QED
      BY <1>3, <2>1, <2>2, <2>3, SettlesInv DEF AnswerEmpty
  <1>4. CASE AnswerStopped
    <2>1. PICK class \in Classes, marks \in SUBSET Marks :
            settles("ref", marked(answered(class, NoScore), marks))
      BY <1>4 DEF AnswerStopped
    <2>2. answered(class, NoScore) \in Record
      BY AnsweredType DEF NoScore
    <2>3. marked(answered(class, NoScore), marks) \in Record
      BY <2>2, MarkedType
    <2> QED
      BY <1>4, <2>1, <2>3, SettlesInv DEF AnswerStopped
  <1>5. CASE StepsOver
    <2>1. PICK class \in {"positive", "negative"} : settles("steps", answered(class, NoScore))
      BY <1>5 DEF StepsOver
    <2>2. answered(class, NoScore) \in Record
      BY AnsweredType DEF Classes, NoScore
    <2> QED
      BY <1>5, <2>1, <2>2, SettlesInv DEF StepsOver
  <1> QED
    BY <1>1, <1>2, <1>3, <1>4, <1>5 DEF UnitSettles

\* Judging a stage, and leaving or going on, preserves the invariant.
LEMMA JudgeInv == ASSUME IInv, Judge PROVE IInv'
  <1> USE DEF IInv
  <1> DEFINE r == judgedStage
             s == Append(results, r)
             t == restAfter(r)
  <1>1. r \in StageResult /\ r.id = stage
    BY JudgedType
  <1>2. pc = "await" /\ stage <= N /\ stage \in Nat /\ N \in Nat /\ stage >= 1 /\ N' = N
    BY DefType DEF Judge, allSettled, LoopInv, TypeOK, N
  <1>3. results' = s \o t /\ aborted' = abortedAfter(r)
    BY DEF Judge
  <1>4. abortedAfter(r) \in SUBSET (1..N)
    BY <1>1, <1>2, AbortedAfterType
  <1>5. IF stoppedNow \/ earlyExit(r)
        THEN /\ pc' = "ended" /\ stage' = stage
             /\ status' = IF status = "running" THEN "completed" ELSE status
        ELSE pc' = "loop" /\ stage' = stage + 1 /\ status' = status
    BY DEF Judge
  <1> HIDE DEF r
  <1>6. s \in Seq(StageResult) /\ Len(s) = stage /\ \A k \in DOMAIN s : s[k].id = k
    BY <1>1, <1>2, AppendType
  <1>7. /\ t \in Seq(StageResult)
        /\ \A k \in 1..Len(t) : t[k].id = stage + k
        /\ Len(t) = IF stoppedNow \/ earlyExit(r) THEN N - stage ELSE 0
    BY <1>2, RestType
  <1> HIDE DEF s, t
  <1>8. s \o t \in Seq(StageResult) /\ Len(s \o t) = Len(s) + Len(t)
        /\ \A k \in DOMAIN (s \o t) : (s \o t)[k].id = k
    BY <1>6, <1>7, ConcatType
  <1>9. TypeOK'
    <2>1. stage' \in 1..(N + 1) /\ pc' \in {"loop", "await", "ended"}
          /\ status' \in {"running", "completed", "failed", "cancelled"}
      BY <1>2, <1>5 DEF TypeOK
    <2>2. accepted' \subseteq 1..N
      BY <1>2 DEF Judge, TypeOK
    <2> QED
      BY <1>2, <1>3, <1>4, <1>8, <2>1, <2>2 DEF TypeOK, Judge
  <1>10. EveryStageAccounted'
    <2>1. pc' = "ended" => Len(results') = N
      BY <1>2, <1>3, <1>5, <1>6, <1>7, <1>8
    <2>2. pc' # "ended" => Len(results') = stage' - 1
      BY <1>2, <1>3, <1>5, <1>6, <1>7, <1>8
    <2> QED
      BY <1>2, <1>3, <1>8, <2>1, <2>2 DEF EveryStageAccounted
  <1>11. LoopInv'
    <2>1. running' = {} /\ records' = {} /\ signal' = signal /\ settled' = settled /\ threw' = threw
      BY DEF Judge
    <2>2. pc' \in {"loop", "ended"} /\ (pc' = "ended" => status' # "running")
          /\ (pc' # "ended" => status' = status)
          /\ (status # "running" => status' # "running")
      BY <1>5
    <2> QED
      BY <1>2, <2>1, <2>2 DEF LoopInv
  <1> QED
    BY <1>9, <1>10, <1>11

\* The loop's catch preserves the invariant.
LEMMA LoopThrowsInv == ASSUME IInv, LoopThrows PROVE IInv'
  <1> USE DEF IInv
  <1>1. N' = N
    BY DEF LoopThrows, N
  <1>2. TypeOK'
    BY <1>1 DEF TypeOK, LoopThrows
  <1>3. EveryStageAccounted'
    BY <1>1 DEF EveryStageAccounted, LoopThrows
  <1>4. LoopInv'
    BY <1>1 DEF LoopInv, LoopThrows
  <1> QED
    BY <1>2, <1>3, <1>4

-----------------------------------------------------------------------------
(* The stops, and the end. *)

\* A 402 met by an agent preserves the invariant.
LEMMA CreditTripInv == ASSUME IInv, NEW u \in running, CreditTrip(u) PROVE IInv'
  BY CrashType, SettlesInv DEF CreditTrip, stopRun, Signals, IInv, TypeOK

\* A 402 met inside a reference preserves the invariant.
LEMMA CreditTripInsideInv == ASSUME IInv, CreditTripInside PROVE IInv'
  <1> USE DEF IInv
  <1>1. N' = N
    BY DEF CreditTripInside, N
  <1>2. TypeOK'
    BY <1>1 DEF TypeOK, CreditTripInside, stopRun, workVars, loopVars, Signals
  <1>3. EveryStageAccounted'
    BY <1>1 DEF EveryStageAccounted, CreditTripInside, loopVars
  <1>4. LoopInv'
    BY <1>1 DEF LoopInv, CreditTripInside, stopRun, workVars, loopVars
  <1> QED
    BY <1>2, <1>3, <1>4

\* handle.cancel() preserves the invariant.
LEMMA CancelInv == ASSUME IInv, Cancel PROVE IInv'
  <1> USE DEF IInv
  <1>1. N' = N
    BY DEF Cancel, N
  <1>2. TypeOK'
    BY <1>1 DEF TypeOK, Cancel, stopRun, stopVars, workVars, loopVars, Signals
  <1>3. EveryStageAccounted'
    BY <1>1 DEF EveryStageAccounted, Cancel, loopVars
  <1>4. LoopInv'
    BY <1>1 DEF LoopInv, Cancel, stopRun, stopVars, workVars, loopVars
  <1> QED
    BY <1>2, <1>3, <1>4

\* The caller's abort and the caller's deadline preserve the invariant.
LEMMA CallerAbortsInv ==
  ASSUME IInv, NEW kind \in {"aborted", "deadline"}, CallerAborts(kind)
  PROVE  IInv'
  <1> USE DEF IInv
  <1>1. N' = N
    BY DEF CallerAborts, N
  <1>2. TypeOK'
    BY <1>1 DEF TypeOK, CallerAborts, workVars, loopVars, Signals
  <1>3. EveryStageAccounted'
    BY <1>1 DEF EveryStageAccounted, CallerAborts, loopVars
  <1>4. LoopInv'
    BY <1>1 DEF LoopInv, CallerAborts, workVars, loopVars
  <1> QED
    BY <1>2, <1>3, <1>4

\* The callback of the execution promise preserves the invariant.
LEMMA SettleInv == ASSUME IInv, Settle PROVE IInv'
  <1> USE DEF IInv
  <1>1. N' = N
    BY DEF Settle, N
  <1>2. TypeOK'
    BY <1>1 DEF TypeOK, Settle, stopVars, workVars, loopVars
  <1>3. EveryStageAccounted'
    BY <1>1 DEF EveryStageAccounted, Settle, loopVars
  <1>4. LoopInv'
    BY <1>1 DEF LoopInv, Settle, stopVars, workVars, loopVars
  <1> QED
    BY <1>2, <1>3, <1>4

\* A step that changes nothing preserves the invariant.
LEMMA StutterInv == ASSUME IInv, UNCHANGED vars PROVE IInv'
  <1>1. N' = N
    BY DEF vars, N
  <1> QED
    BY <1>1 DEF IInv, TypeOK, EveryStageAccounted, LoopInv, vars

\* Every step preserves the invariant.
LEMMA NextInv == ASSUME IInv, [Next]_vars PROVE IInv'
  BY LoopStoppedInv, SkipUnmetInv, SkipDownstreamInv, ConditionFalseInv, ConditionErrorInv,
     LaunchInv, JudgeInv, FinishInv, LoopThrowsInv, UnitSettlesInv, CreditTripInv,
     CreditTripInsideInv, CancelInv, CallerAbortsInv, SettleInv, StutterInv
  DEF Next, LoopStep

\* The invariant holds in every reachable state.
LEMMA Invariance == SafeSpec => []IInv
  BY InitIInv, NextInv, PTL DEF SafeSpec

-----------------------------------------------------------------------------
(* The theorems. *)

\* The variables always hold what the code could put there (TypeOK).
THEOREM TypeCorrect == SafeSpec => []TypeOK
  BY Invariance, PTL DEF IInv

\* Every authored stage is accounted for in order (EveryStageAccounted), for
\* every pipeline: what skipRemaining promises.
THEOREM Accounting == SafeSpec => []EveryStageAccounted
  BY Invariance, PTL DEF IInv

\* Once the run is not running, no step changes its status, the reason or the label.
LEMMA StatusKept == ASSUME [Next]_vars, status # "running"
                    PROVE  UNCHANGED <<status, error, label>>
  <1>1. CASE LoopStep
    BY <1>1 DEF LoopStep, LoopStopped, SkipUnmet, SkipDownstream, ConditionFalse,
          ConditionError, EndWithoutLaunch, Launch, Judge, Finish, stopVars
  <1>2. CASE LoopThrows
    BY <1>2 DEF LoopThrows
  <1>3. CASE UnitSettles
    BY <1>3 DEF UnitSettles, Answer, Reject, AnswerEmpty, AnswerStopped, StepsOver, stopVars
  <1>4. ASSUME NEW u \in running, CreditTrip(u) PROVE FALSE
    BY <1>4 DEF CreditTrip
  <1>5. CASE CreditTripInside
    BY <1>5 DEF CreditTripInside
  <1>6. CASE Cancel
    BY <1>6 DEF Cancel, stopVars
  <1>7. CASE CallerAborts("aborted") \/ CallerAborts("deadline")
    BY <1>7 DEF CallerAborts
  <1>8. CASE Settle \/ UNCHANGED vars
    BY <1>8 DEF Settle, stopVars, vars
  <1> QED
    BY <1>1, <1>2, <1>3, <1>4, <1>5, <1>6, <1>7, <1>8 DEF Next

\* Whatever stops a run first decides how it ends (FirstStopWins).
THEOREM FirstStopDecides == SafeSpec => FirstStopWins
  <1>1. [Next]_vars => [status # "running" => UNCHANGED <<status, error, label>>]_vars
    BY StatusKept
  <1> QED
    BY <1>1, PTL DEF SafeSpec, FirstStopWins

\* Nothing is put in flight once the run was stopped or its signal has fired
\* (NothingLaunchesAfterStop): only Launch adds to what is running, the loop
\* reaches it only when no stop is recorded, and no signal fires without one.
THEOREM NoLaunchAfterStop == SafeSpec => NothingLaunchesAfterStop
  <1>1. ASSUME IInv, [Next]_vars, ~(running' \subseteq running)
        PROVE  status = "running" /\ signal = "live"
    <2>1. CASE Launch
      BY <1>1, <2>1 DEF Launch, Reached, AtStage, stoppedNow, IInv, TypeOK, LoopInv
    <2>2. CASE LoopStep /\ ~Launch
      BY <1>1, <2>2 DEF LoopStep, LoopStopped, SkipUnmet, SkipDownstream, ConditionFalse,
            ConditionError, EndWithoutLaunch, Judge, Finish, workVars
    <2>3. CASE UnitSettles
      BY <1>1, <2>3 DEF UnitSettles, Answer, Reject, AnswerEmpty, AnswerStopped, StepsOver, settles
    <2>4. ASSUME NEW u \in running, CreditTrip(u) PROVE FALSE
      BY <1>1, <2>4 DEF CreditTrip, settles
    <2>5. CASE LoopThrows \/ CreditTripInside \/ Cancel \/ Settle \/ UNCHANGED vars
      BY <1>1, <2>5 DEF LoopThrows, CreditTripInside, Cancel, Settle, vars, workVars
    <2>6. CASE CallerAborts("aborted") \/ CallerAborts("deadline")
      BY <1>1, <2>6 DEF CallerAborts, workVars
    <2> QED
      BY <1>1, <2>1, <2>2, <2>3, <2>4, <2>5, <2>6 DEF Next
  <1>2. IInv /\ [Next]_vars
          => [~(running' \subseteq running) => status = "running" /\ signal = "live"]_vars
    BY <1>1
  <1> QED
    BY <1>2, Invariance, PTL DEF SafeSpec, NothingLaunchesAfterStop

-----------------------------------------------------------------------------
(***************************************************************************)
(* The run keeps the contract of its handle (KeepsContract): every step of *)
(* PipelineRun is a step of RunContract or changes nothing it mentions.    *)
(***************************************************************************)
\* A run starts as its contract does.
LEMMA ContractInit == Init => Contract!Init
  <1> SUFFICES ASSUME Init PROVE Contract!Init
    OBVIOUS
  <1>1. IInv
    BY InitIInv
  <1>2. N \in Nat /\ Len(results) = 0
    BY <1>1, DefType, EmptySeq DEF IInv, Init
  <1>3. status \in {"running"} \union Contract!Stopped
    <2>1. status \in {"running", "completed", "failed", "cancelled"} /\ status # "completed"
      BY <1>1 DEF IInv, TypeOK, LoopInv, Init
    <2> QED
      BY <2>1 DEF Contract!Stopped
  <1> QED
    BY <1>2, <1>3 DEF Contract!Init, Init

\* A stage that ends without launching is one the contract records.
LEMMA ContractSkips ==
  ASSUME IInv, AtStage, ~stoppedNow, NEW r, NEW newAborted, EndWithoutLaunch(r, newAborted)
  PROVE  Contract!Record
  <1>1. status = "running" /\ N' = N /\ stage \in Nat /\ stage <= N
    BY DefType DEF AtStage, stoppedNow, IInv, TypeOK, LoopInv, EndWithoutLaunch, N
  <1>2. Len(results') = Len(results) + 1 /\ Len(results) = stage - 1
    BY AppendProperties DEF EndWithoutLaunch, AtStage, IInv, TypeOK, EveryStageAccounted
  <1>3. pc = "loop" /\ pc' = "loop" /\ status' = status
    BY DEF EndWithoutLaunch, AtStage, stopVars
  <1>4. N \in Nat /\ Len(results) < N
    BY <1>1, <1>2, DefType DEF IInv
  <1> QED
    BY <1>1, <1>2, <1>3, <1>4 DEF Contract!Record

\* Every step of a run is a step of its contract, or none.
LEMMA ContractNext == ASSUME IInv, [Next]_vars PROVE [Contract!Next]_(Contract!vars)
  <1>1. IInv'
    BY NextInv
  <1>2. N' = N
    BY DEF Next, LoopStep, LoopStopped, SkipUnmet, SkipDownstream, ConditionFalse, ConditionError,
       EndWithoutLaunch, Launch, Judge, Finish, LoopThrows, UnitSettles, Answer, Reject,
       AnswerEmpty, AnswerStopped, StepsOver, settles, CreditTrip, CreditTripInside, Cancel,
       CallerAborts, Settle, vars, N
  <1>3. CASE LoopStopped
    <2>1. pc = "loop" /\ pc' = "ended" /\ status # "running" /\ status' = status /\ threw' = threw
      BY <1>3 DEF LoopStopped, AtStage, stoppedNow, stopVars
    <2>2. Len(results') = N
      BY <1>1, <1>2, <2>1 DEF IInv, EveryStageAccounted, LoopInv
    <2> QED
      BY <1>2, <2>1, <2>2 DEF Contract!Next, Contract!Progress, Contract!Leave
  <1>4. CASE SkipUnmet \/ SkipDownstream \/ ConditionFalse \/ ConditionError
    BY <1>4, ContractSkips DEF SkipUnmet, SkipDownstream, ConditionFalse, ConditionError, Reached,
       Contract!Next, Contract!Progress
  <1>5. CASE Launch
    <2>1. /\ pc = "loop" /\ pc' = "await" /\ status = "running" /\ status' = status
          /\ results' = results
      BY <1>5 DEF Launch, Reached, AtStage, stoppedNow, stopVars, IInv, TypeOK, LoopInv
    <2>2. Len(results) < N
      BY <1>5, DefType DEF Launch, Reached, AtStage, IInv, TypeOK, EveryStageAccounted
    <2> QED
      BY <1>2, <2>1, <2>2 DEF Contract!Next, Contract!Progress, Contract!Begin
  <1>6. CASE Judge
    <2>1. pc = "await" /\ threw' = threw /\ threw = FALSE
      BY <1>6 DEF Judge, allSettled, IInv, TypeOK, LoopInv
    <2>2. CASE stoppedNow \/ earlyExit(judgedStage)
      <3>1. pc' = "ended" /\ status' = IF status = "running" THEN "completed" ELSE status
        BY <1>6, <2>2 DEF Judge
      <3>2. Len(results') = N
        BY <1>1, <1>2, <2>1, <3>1 DEF IInv, EveryStageAccounted
      <3> QED
        BY <1>2, <2>1, <3>1, <3>2 DEF Contract!Next, Contract!Progress, Contract!Leave
    <2>3. CASE ~(stoppedNow \/ earlyExit(judgedStage))
      <3>1. pc' = "loop" /\ stage' = stage + 1 /\ status' = status /\ status = "running"
        BY <1>6, <2>1, <2>3 DEF Judge, stoppedNow, IInv, TypeOK, LoopInv
      <3>2. Len(results') = Len(results) + 1 /\ Len(results) < N
        BY <1>1, <1>2, <2>1, <3>1, DefType DEF IInv, TypeOK, EveryStageAccounted, LoopInv
      <3> QED
        BY <1>2, <2>1, <3>1, <3>2 DEF Contract!Next, Contract!Progress, Contract!Record
    <2> QED
      BY <2>2, <2>3
  <1>7. CASE Finish
    <2>1. /\ pc = "loop" /\ pc' = "ended" /\ results' = results
          /\ status' = IF status = "running" THEN "completed" ELSE status
      BY <1>7 DEF Finish
    <2>2. Len(results) = N
      BY <1>7, DefType DEF Finish, IInv, TypeOK, EveryStageAccounted
    <2> QED
      BY <1>2, <2>1, <2>2 DEF Contract!Next, Contract!Progress, Contract!Leave
  <1>8. CASE LoopThrows
    BY <1>2, <1>8 DEF LoopThrows, AtStage, allSettled, Contract!Next, Contract!Progress, Contract!Fail
  <1>9. ASSUME NEW u \in running, CreditTrip(u) \/ CreditTripInside PROVE Contract!Stop
    <2>1. pc # "ended"
      BY <1>9 DEF IInv, LoopInv
    <2> QED
      BY <1>2, <1>9, <2>1 DEF CreditTrip, CreditTripInside, stopRun, settles, loopVars, Contract!Stop,
         Contract!Stopped
  <1>10. CASE UnitSettles
    BY <1>2, <1>10 DEF UnitSettles, Answer, Reject, AnswerEmpty, AnswerStopped, StepsOver, settles,
       stopVars, loopVars, Contract!vars
  <1>11. CASE Cancel \/ CallerAborts("aborted") \/ CallerAborts("deadline")
    <2>1. pc' = pc /\ results' = results
      BY <1>11 DEF Cancel, CallerAborts, loopVars
    <2>2. CASE status' = status
      BY <1>2, <2>1, <2>2 DEF Contract!vars
    <2>3. CASE status' # status
      <3>1. status = "running" /\ status' \in Contract!Stopped
        BY <1>11, <2>3 DEF Cancel, CallerAborts, stopRun, stopVars, Contract!Stopped
      <3>2. pc # "ended"
        BY <3>1 DEF IInv, LoopInv
      <3> QED
        BY <1>2, <2>1, <3>1, <3>2 DEF Contract!Next, Contract!Stop
    <2> QED
      BY <2>2, <2>3
  <1>12. CASE Settle \/ UNCHANGED vars
    BY <1>2, <1>12 DEF Settle, vars, loopVars, stopVars, Contract!vars
  <1>13. CreditTripInside => "ref" \in running
    BY DEF CreditTripInside
  <1> QED
    BY <1>3, <1>4, <1>5, <1>6, <1>7, <1>8, <1>9, <1>10, <1>11, <1>12, <1>13
    DEF Next, LoopStep, Contract!Next

\* The run implements the contract of its handle (KeepsContract): one status that
\* moves once, all stages recorded by the end, no work begun after a stop.
THEOREM Refinement == SafeSpec => KeepsContract
  BY ContractInit, ContractNext, Invariance, PTL DEF SafeSpec, KeepsContract, Contract!SafeSpec

\* A stop holds (StopsHold): the first one decides for good, and nothing launches
\* after it.
THEOREM StopIsKept == SafeSpec => StopsHold
  BY FirstStopDecides, NoLaunchAfterStop, PTL DEF StopsHold

\* The run is what its handle promises (RunKeepsItsWord): it keeps the contract, and
\* a stop holds.
THEOREM KeepsWord == SafeSpec => RunKeepsItsWord
  BY Refinement, StopIsKept, PTL DEF RunKeepsItsWord

-----------------------------------------------------------------------------
(***************************************************************************)
(* What the results and the records of a run tell of its stops             *)
(* (StopIsTold), and what a stage that reads PASSED rests on               *)
(* (StageRecords).  The invariant of the loop is strengthened by what each *)
(* record and each result can be.                                          *)
(***************************************************************************)
\* What StopStory says of one record.
toldOf(r) ==
    /\ isAbortedRecord(r) => status = "cancelled" \/ label = "credit"
    /\ "deadline" \in r.marks => status = "failed" /\ label = "deadline"
    /\ stopReached(r) => stoppedNow /\ error # "threw"

\* While the loop is at work, its signal says what stopped it.
SignalTells ==
    pc # "ended" => /\ signal = "live" <=> status = "running"
                    /\ signal = "deadline" => status = "failed" /\ label = "deadline"
                    /\ signal = "aborted" => status = "cancelled" \/ label = "credit"
                    /\ error # "threw"

\* A stage that never launched says why, and the reasons are true.
SkipsTell ==
    \A k \in DOMAIN results :
        /\ results[k].outcome = "SKIPPED" =>
              /\ results[k].records = {}
              /\ \/ results[k].skipReason \in BenignSkips \union {"gate_abort"}
                 \/ stoppedNow /\ results[k].skipReason = stopLabel
        /\ results[k].skipReason = "gate_early_exit" => status = "completed"
        /\ results[k].skipReason = "gate_abort" =>
              \E j \in DOMAIN results : failedBehindAbort(results[j])

\* The stages whose dependents are skipped failed, or were skipped for one that did.
AbortedTell ==
    /\ \A d \in aborted :
          /\ d \in DOMAIN results
          /\ failedBehindAbort(results[d]) \/ results[d].skipReason = "gate_abort"
    /\ \A d \in DOMAIN results : failedBehindAbort(results[d]) => d \in aborted

\* A blocking gate that let a conditional answer pass has left its warning.
reserved(k) ==
    /\ results[k].outcome = "PASSED" /\ isBlocking(results[k].mode)
    /\ \E s \in results[k].records :
          s.record.class = "conditional" /\ decisionKey(def[k].gate) # "ignore"
AcceptedTell == \A k \in DOMAIN results : reserved(k) => accepted # {}

\* What is in flight at a stage, and what it has left.
FlightInv ==
    pc = "await" =>
        /\ ~downstreamOfAbort
        /\ current.kind = "ref" => "ref" \in running \/ records # {}
        /\ current.kind = "steps" =>
              /\ running \subseteq {"steps"}
              /\ "steps" \in running \/ records # {}
              /\ \A s \in records : ~s.record.synthesized
        /\ \A s \in records : s.record.score \in Nat \union {NoScore}

-----------------------------------------------------------------------------
(* What a step does to the results. *)

\* What the result of stage k, recorded by this step, can be.
NewResult(k) ==
    \/ stoppedNow /\ pc' = "ended" /\ results'[k] = skippedStage(k, stopLabel)
    \/ Judge /\ k = stage /\ results'[k] = judgedStage
    \/ /\ Judge /\ ~stoppedNow /\ earlyExit(judgedStage) /\ pc' = "ended"
       /\ results'[k] = skippedStage(k, "gate_early_exit")
    \/ SkipDownstream /\ k = stage /\ results'[k] = skippedStage(k, "gate_abort")
    \/ SkipUnmet /\ k = stage /\ results'[k] = skippedStage(k, "dependencies_not_met")
    \/ ConditionFalse /\ k = stage /\ results'[k] = skippedStage(k, "condition_not_met")
    \/ /\ ConditionError /\ k = stage
       /\ results'[k] = conditionErrorStage(k, current.gate)

\* A stage that ended without launching leaves one more result.
LEMMA EndWithoutLaunchResults ==
  ASSUME IInv, AtStage, NEW r \in StageResult, NEW na, EndWithoutLaunch(r, na)
  PROVE  /\ DOMAIN results = 1..(stage - 1) /\ DOMAIN results' = 1..stage
         /\ \A k \in 1..(stage - 1) : results'[k] = results[k]
         /\ results'[stage] = r
  <1>1. results \in Seq(StageResult) /\ Len(results) = stage - 1 /\ stage \in Nat
    BY DefType DEF IInv, TypeOK, EveryStageAccounted, AtStage
  <1>2. DOMAIN results = 1..(stage - 1)
    BY <1>1, LenProperties
  <1>3. /\ results' \in Seq(StageResult) /\ Len(results') = Len(results) + 1
        /\ \A k \in 1..Len(results) : results'[k] = results[k]
        /\ results'[Len(results) + 1] = r
    BY <1>1, AppendProperties DEF EndWithoutLaunch
  <1>4. DOMAIN results' = 1..Len(results')
    BY <1>3, LenProperties
  <1>5. Len(results) + 1 = stage
    BY <1>1
  <1> QED
    BY <1>1, <1>2, <1>3, <1>4, <1>5

\* Leaving the loop at a stop leaves one for every stage left.
LEMMA LoopStoppedResults ==
  ASSUME IInv, LoopStopped
  PROVE  /\ DOMAIN results = 1..(stage - 1) /\ DOMAIN results' = 1..N
         /\ \A k \in 1..(stage - 1) : results'[k] = results[k]
         /\ \A k \in stage..N : results'[k] = skippedStage(k, stopLabel)
  <1>1. /\ results \in Seq(StageResult) /\ Len(results) = stage - 1
        /\ stage \in 1..N /\ N \in Nat
    BY DefType DEF IInv, TypeOK, EveryStageAccounted, LoopStopped, AtStage
  <1>2. stage \in 1..(N + 1)
    BY <1>1
  <1> DEFINE t == skipped(stage, stopLabel)
  <1>3. t \in Seq(StageResult) /\ Len(t) = N - stage + 1
    BY <1>2, SkippedType, StopLabelType DEF IInv
  <1>4. \A i \in 1..(N - stage + 1) : t[i] = skippedStage(stage + i - 1, stopLabel)
    BY DEF skipped
  <1>5. results' = results \o t
    BY DEF LoopStopped
  <1> HIDE DEF t
  <1>6. /\ results' \in Seq(StageResult) /\ Len(results') = Len(results) + Len(t)
        /\ \A k \in 1..(Len(results) + Len(t)) :
              results'[k] = IF k <= Len(results) THEN results[k] ELSE t[k - Len(results)]
    BY <1>1, <1>3, <1>5, ConcatProperties
  <1>7. Len(results) + Len(t) = N
    BY <1>1, <1>3
  <1>8. DOMAIN results = 1..(stage - 1) /\ DOMAIN results' = 1..N
    BY <1>1, <1>6, <1>7, LenProperties
  <1>9. \A k \in 1..(stage - 1) : results'[k] = results[k]
    BY <1>1, <1>6, <1>7
  <1>10. ASSUME NEW k \in stage..N PROVE results'[k] = skippedStage(k, stopLabel)
    <2>1. k - Len(results) \in 1..(N - stage + 1) /\ stage + (k - Len(results)) - 1 = k
      BY <1>1
    <2>2. results'[k] = t[k - Len(results)]
      BY <1>1, <1>6, <1>7
    <2>3. t[k - Len(results)] = skippedStage(stage + (k - Len(results)) - 1, stopLabel)
      BY <1>4, <2>1
    <2> QED
      BY <2>1, <2>2, <2>3
  <1> QED
    BY <1>8, <1>9, <1>10

\* Judging a stage leaves its result, and one for every stage left if the loop ends.
LEMMA JudgeResults ==
  ASSUME IInv, Judge
  PROVE  /\ DOMAIN results = 1..(stage - 1) /\ stage \in DOMAIN results'
         /\ \A k \in 1..(stage - 1) : k \in DOMAIN results' /\ results'[k] = results[k]
         /\ results'[stage] = judgedStage
         /\ \A k \in DOMAIN results' : k > stage =>
               /\ stoppedNow \/ earlyExit(judgedStage)
               /\ results'[k] = skippedStage(k, IF stoppedNow THEN stopLabel ELSE "gate_early_exit")
  <1> DEFINE r == judgedStage
             reason == IF stoppedNow THEN stopLabel ELSE "gate_early_exit"
             s == Append(results, r)
             t == restAfter(r)
  <1>1. /\ results \in Seq(StageResult) /\ Len(results) = stage - 1
        /\ stage \in 1..N /\ N \in Nat
    BY DefType DEF IInv, TypeOK, EveryStageAccounted, LoopInv, Judge, allSettled
  <1>2. r \in StageResult
    BY JudgedType DEF IInv
  <1>3. results' = s \o t
    BY DEF Judge
  <1>4. /\ t \in Seq(StageResult)
        /\ Len(t) = IF stoppedNow \/ earlyExit(r) THEN N - stage ELSE 0
    BY <1>1, RestType DEF IInv
  <1>5. stoppedNow \/ earlyExit(r) => t = skipped(stage + 1, reason)
    BY DEF restAfter
  <1>6. \A i \in 1..(N - stage) : skipped(stage + 1, reason)[i] = skippedStage(stage + i, reason)
    <2>1. N - (stage + 1) + 1 = N - stage /\ \A i \in Int : stage + 1 + i - 1 = stage + i
      BY <1>1
    <2>2. \A i \in 1..(N - stage) :
            skipped(stage + 1, reason)[i] = skippedStage(stage + 1 + i - 1, reason)
      BY <2>1 DEF skipped
    <2> QED
      BY <2>1, <2>2
  <1> HIDE DEF r, reason, t
  <1>7. /\ s \in Seq(StageResult) /\ Len(s) = stage
        /\ \A k \in 1..(stage - 1) : s[k] = results[k]
        /\ s[stage] = r
    <2>1. /\ s \in Seq(StageResult) /\ Len(s) = Len(results) + 1
          /\ \A k \in 1..Len(results) : s[k] = results[k]
          /\ s[Len(results) + 1] = r
      BY <1>1, <1>2, AppendProperties
    <2>2. Len(results) + 1 = stage
      BY <1>1
    <2> QED
      BY <1>1, <2>1, <2>2
  <1> HIDE DEF s
  <1>8. /\ results' \in Seq(StageResult) /\ Len(results') = stage + Len(t)
        /\ \A k \in 1..(stage + Len(t)) :
              results'[k] = IF k <= stage THEN s[k] ELSE t[k - stage]
    BY <1>3, <1>4, <1>7, ConcatProperties
  <1>9. /\ DOMAIN results = 1..(stage - 1) /\ DOMAIN results' = 1..(stage + Len(t))
        /\ Len(t) \in Nat
    BY <1>1, <1>4, <1>8, LenProperties
  <1>10. ASSUME NEW k \in DOMAIN results', k > stage
         PROVE  /\ stoppedNow \/ earlyExit(r)
                /\ results'[k] = skippedStage(k, reason)
    <2>1. k \in 1..(stage + Len(t)) /\ Len(t) > 0
      BY <1>1, <1>9, <1>10
    <2>2. (stoppedNow \/ earlyExit(r)) /\ Len(t) = N - stage
      BY <1>4, <2>1
    <2>3. k - stage \in 1..(N - stage) /\ stage + (k - stage) = k
      BY <1>1, <1>10, <2>1, <2>2
    <2>4. results'[k] = t[k - stage]
      BY <1>1, <1>8, <1>10, <2>1
    <2>5. t[k - stage] = skippedStage(stage + (k - stage), reason)
      BY <1>5, <1>6, <2>2, <2>3
    <2> QED
      BY <2>2, <2>3, <2>4, <2>5
  <1>11. /\ stage \in DOMAIN results' /\ results'[stage] = r
         /\ \A k \in 1..(stage - 1) : k \in DOMAIN results' /\ results'[k] = results[k]
    BY <1>1, <1>7, <1>8, <1>9
  <1> QED
    BY <1>9, <1>10, <1>11 DEF r, reason

\* The pipeline being run stays the one it is.
LEMMA DefKept == ASSUME [Next]_vars PROVE def' = def
  BY DEF Next, LoopStep, LoopStopped, SkipUnmet, SkipDownstream, ConditionFalse, ConditionError,
     EndWithoutLaunch, Launch, Judge, Finish, LoopThrows, UnitSettles, Answer, Reject, AnswerEmpty,
     AnswerStopped, StepsOver, settles, CreditTrip, CreditTripInside, Cancel, CallerAborts, Settle,
     vars

\* Nothing else touches the results.
LEMMA OtherResults ==
  ASSUME [Next]_vars, ~LoopStopped, ~SkipUnmet, ~SkipDownstream, ~ConditionFalse,
         ~ConditionError, ~Judge
  PROVE  results' = results
  BY DEF Next, LoopStep, Launch, Finish, LoopThrows, UnitSettles, Answer, Reject, AnswerEmpty,
     AnswerStopped, StepsOver, settles, CreditTrip, CreditTripInside, Cancel, CallerAborts, Settle,
     vars, loopVars

\* A result stays as it is, and a new one is one the loop records.
LEMMA ResultsStep ==
  ASSUME IInv, [Next]_vars
  PROVE  /\ \A k \in DOMAIN results : k \in DOMAIN results' /\ results'[k] = results[k]
         /\ \A k \in DOMAIN results' : k \in DOMAIN results \/ NewResult(k)
  <1>0. stage \in Nat /\ N \in Nat
    BY DefType DEF IInv, TypeOK
  <1>1. ASSUME NEW r \in StageResult, NEW na, AtStage, EndWithoutLaunch(r, na)
        PROVE  /\ \A k \in DOMAIN results : k \in DOMAIN results' /\ results'[k] = results[k]
               /\ \A k \in DOMAIN results' :
                     k \in DOMAIN results \/ (k = stage /\ results'[k] = r)
    BY <1>0, <1>1, EndWithoutLaunchResults
  <1>2. CASE LoopStopped
    <2>1. /\ stoppedNow /\ pc' = "ended" /\ stage <= N
          /\ \A k \in stage..N : results'[k] = skippedStage(k, stopLabel)
      BY <1>2, LoopStoppedResults DEF LoopStopped, AtStage
    <2> QED
      BY <1>0, <1>2, <2>1, LoopStoppedResults DEF NewResult
  <1>3. CASE SkipUnmet
    <2>1. skippedStage(stage, "dependencies_not_met") \in StageResult
      BY SkippedHere, SkipReasonsInclude DEF IInv
    <2> QED
      BY <1>1, <1>3, <2>1 DEF SkipUnmet, NewResult
  <1>4. CASE SkipDownstream
    <2>1. skippedStage(stage, "gate_abort") \in StageResult
      BY SkippedHere, SkipReasonsInclude DEF IInv
    <2> QED
      BY <1>1, <1>4, <2>1 DEF SkipDownstream, NewResult
  <1>5. CASE ConditionFalse
    <2>1. skippedStage(stage, "condition_not_met") \in StageResult
      BY SkippedHere, SkipReasonsInclude DEF IInv
    <2> QED
      BY <1>1, <1>5, <2>1 DEF ConditionFalse, Reached, NewResult
  <1>6. CASE ConditionError
    <2>1. conditionErrorStage(stage, current.gate) \in StageResult
      BY ConditionErrorType DEF IInv
    <2>2. /\ AtStage
          /\ \E na : EndWithoutLaunch(conditionErrorStage(stage, current.gate), na)
      BY <1>6 DEF ConditionError, Reached
    <2> QED
      BY <1>1, <1>6, <2>1, <2>2 DEF NewResult
  <1>7. CASE Judge
    <2>1. /\ stoppedNow \/ earlyExit(judgedStage) => pc' = "ended"
      BY <1>7 DEF Judge
    <2>2. ASSUME NEW k \in DOMAIN results', k \notin DOMAIN results PROVE NewResult(k)
      <3>1. k \in Nat /\ k >= 1
        <4>1. results' \in Seq(StageResult)
          BY <1>7, JudgeInv DEF IInv, TypeOK
        <4> QED
          BY <4>1, LenProperties
      <3>2. k = stage \/ k > stage
        BY <1>0, <1>7, <2>2, <3>1, JudgeResults
      <3>3. CASE k = stage
        BY <1>7, <3>3, JudgeResults DEF NewResult
      <3>4. CASE k > stage
        BY <1>7, <2>1, <2>2, <3>4, JudgeResults DEF NewResult
      <3> QED
        BY <3>2, <3>3, <3>4
    <2> QED
      BY <1>7, <2>2, JudgeResults
  <1>8. CASE ~(LoopStopped \/ SkipUnmet \/ SkipDownstream \/ ConditionFalse \/ ConditionError \/ Judge)
    BY <1>8, OtherResults
  <1> QED
    BY <1>2, <1>3, <1>4, <1>5, <1>6, <1>7, <1>8

-----------------------------------------------------------------------------
(* What a unit leaves when it settles. *)

\* A record a unit may leave at this moment.
leftBy(u, r) ==
    /\ toldOf(r) /\ r.score \in Nat \union {NoScore}
    /\ u = "steps" => ~r.synthesized

\* What was said of a record stays true.
LEMMA ToldStays ==
  ASSUME [Next]_vars, NEW r, toldOf(r)
  PROVE  toldOf(r)'
  <1>1. CASE stopReached(r)
    <2>1. status # "running" /\ stoppedNow
      BY <1>1 DEF toldOf, stoppedNow
    <2>2. UNCHANGED <<status, error, label>>
      BY <2>1, StatusKept
    <2> QED
      BY <2>2 DEF toldOf, stoppedNow
  <1>2. CASE ~stopReached(r)
    <2>1. ~isAbortedRecord(r) /\ "deadline" \notin r.marks
      BY <1>2 DEF stopReached
    <2> QED
      BY <1>2, <2>1 DEF toldOf
  <1> QED
    BY <1>1, <1>2

\* However a unit settles, the record it leaves tells of a stop only if there was one.
LEMMA UnitLeaves ==
  ASSUME IInv, SignalTells, UnitSettles
  PROVE  \E u \in running : \E r : settles(u, r) /\ leftBy(u, r)
  <1>1. ASSUME NEW u \in running, Answer(u)
        PROVE  \E r : settles(u, r) /\ leftBy(u, r)
    <2>1. PICK x \in Answers : settles(u, answered(x.class, x.score))
      BY <1>1 DEF Answer
    <2>2. x.score \in Nat \union {NoScore}
      BY AnswersAssumption
    <2>3. leftBy(u, answered(x.class, x.score))
      BY <2>2 DEF leftBy, toldOf, answered, isAbortedRecord, stopReached
    <2> QED
      BY <2>1, <2>3
  <1>2. ASSUME NEW u \in running, NEW code, Reject(u, code)
        PROVE  \E r : settles(u, r) /\ leftBy(u, r)
    <2> DEFINE kind == rejectionKind(code, signal)
    <2>1. /\ u # "steps" /\ pc = "await" /\ settles(u, placeholderFor(kind))
      BY <1>2 DEF Reject, settles
    <2>2. /\ kind = "stopped" => signal = "aborted"
          /\ kind = "deadline" => signal = "deadline"
          /\ kind \in {"stopped", "deadline", "crash"}
      BY DEF rejectionKind, isRunStopAbort, isDeadlineSignal, Signals, IInv, TypeOK
    <2>3. /\ signal = "aborted" => stoppedNow /\ error # "threw"
                                   /\ (status = "cancelled" \/ label = "credit")
          /\ signal = "deadline" => stoppedNow /\ error # "threw"
                                   /\ status = "failed" /\ label = "deadline"
      BY <2>1 DEF SignalTells, stoppedNow, IInv, LoopInv, TypeOK
    <2> HIDE DEF kind
    <2>4. placeholderFor(kind).score = NoScore
      BY <2>2 DEF placeholderFor, abortedPlaceholder, crashPlaceholder, withDeadlineMark
    <2>5. toldOf(placeholderFor(kind))
      <3>1. CASE kind = "stopped"
        BY <2>2, <2>3, <3>1 DEF toldOf, placeholderFor, abortedPlaceholder, isAbortedRecord, stopReached
      <3>2. CASE kind = "deadline"
        BY <2>2, <2>3, <3>2
           DEF toldOf, placeholderFor, withDeadlineMark, crashPlaceholder, isAbortedRecord, stopReached
      <3>3. CASE kind = "crash"
        BY <3>3 DEF toldOf, placeholderFor, crashPlaceholder, isAbortedRecord, stopReached
      <3> QED
        BY <2>2, <3>1, <3>2, <3>3
    <2> QED
      BY <2>1, <2>4, <2>5 DEF leftBy
  <1>3. ASSUME AnswerEmpty PROVE \E r : settles("ref", r) /\ leftBy("ref", r)
    <2>1. PICK class \in {"positive", "neutral"} :
            settles("ref", executedNothing(answered(class, NoScore)))
      BY <1>3 DEF AnswerEmpty
    <2>2. leftBy("ref", executedNothing(answered(class, NoScore)))
      BY DEF leftBy, toldOf, executedNothing, answered, isAbortedRecord, stopReached
    <2> QED
      BY <2>1, <2>2
  <1>4. ASSUME AnswerStopped PROVE \E r : settles("ref", r) /\ leftBy("ref", r)
    <2>1. PICK class \in Classes :
            \E marks \in SUBSET Marks :
              LET r == marked(answered(class, NoScore), marks)
              IN  mayAnswer(r, signal) /\ stopReached(r) /\ settles("ref", r)
      BY <1>4 DEF AnswerStopped
    <2>2. PICK marks \in SUBSET Marks :
            LET r == marked(answered(class, NoScore), marks)
            IN  mayAnswer(r, signal) /\ stopReached(r) /\ settles("ref", r)
      BY <2>1
    <2> DEFINE r == marked(answered(class, NoScore), marks)
    <2>3. /\ mayAnswer(r, signal) /\ stopReached(r) /\ settles("ref", r)
          /\ r.score = NoScore /\ ~r.aborted /\ r.marks = marks
      BY <2>2 DEF marked, answered
    <2> HIDE DEF r
    <2>4. signal # "live" /\ "deadline" \notin r.marks
      BY <2>3 DEF mayAnswer, stopReached, isAbortedRecord
    <2>5. stoppedNow /\ error # "threw"
      BY <2>3, <2>4 DEF settles, SignalTells, stoppedNow, IInv, LoopInv, TypeOK
    <2>6. leftBy("ref", r)
      BY <2>3, <2>4, <2>5 DEF leftBy, toldOf, isAbortedRecord
    <2> QED
      BY <2>3, <2>6
  <1>5. ASSUME StepsOver PROVE \E r : settles("steps", r) /\ leftBy("steps", r)
    <2>1. PICK class \in {"positive", "negative"} : settles("steps", answered(class, NoScore))
      BY <1>5 DEF StepsOver
    <2>2. leftBy("steps", answered(class, NoScore))
      BY DEF leftBy, toldOf, answered, isAbortedRecord, stopReached
    <2> QED
      BY <2>1, <2>2
  <1>6. \A u, r : settles(u, r) => u \in running
    BY DEF settles
  <1> QED
    BY <1>1, <1>2, <1>3, <1>4, <1>5, <1>6 DEF UnitSettles

\* A 402 leaves a crash, which tells of no stop.
LEMMA TripLeaves ==
  ASSUME IInv, NEW u \in running, CreditTrip(u)
  PROVE  settles(u, crashPlaceholder) /\ leftBy(u, crashPlaceholder)
  BY UnitsAssumption DEF CreditTrip, leftBy, toldOf, crashPlaceholder, isAbortedRecord, stopReached

-----------------------------------------------------------------------------
(* Stops are told. *)

\* The signal says what stopped the loop, after every step.
LEMMA SignalTellsStep == ASSUME IInv, SignalTells, [Next]_vars PROVE SignalTells'
  <1>1. CASE LoopStep
    <2>1. /\ signal' = signal /\ label' = label /\ error' = error
          /\ pc' = "ended" \/ (pc # "ended" /\ status' = status)
      BY <1>1 DEF LoopStep, LoopStopped, SkipUnmet, SkipDownstream, ConditionFalse, ConditionError,
         Reached, AtStage, EndWithoutLaunch, Launch, Judge, allSettled, Finish, stopVars
    <2> QED
      BY <2>1 DEF SignalTells
  <1>2. CASE LoopThrows
    BY <1>2 DEF LoopThrows, SignalTells
  <1>3. CASE UnitSettles
    <2>1. UNCHANGED <<status, label, error, signal>> /\ pc' = pc
      BY <1>3 DEF UnitSettles, Answer, Reject, AnswerEmpty, AnswerStopped, StepsOver, settles,
         stopVars, loopVars
    <2> QED
      BY <2>1 DEF SignalTells
  <1>4. ASSUME NEW u \in running, CreditTrip(u) \/ CreditTripInside PROVE SignalTells'
    <2>1. /\ status = "running" /\ stopRun("failed", "credit", "credit") /\ pc' = pc
      BY <1>4 DEF CreditTrip, CreditTripInside, settles, loopVars
    <2>2. pc # "ended"
      BY <2>1 DEF IInv, LoopInv
    <2> QED
      BY <2>1, <2>2 DEF SignalTells, stopRun
  <1>5. CASE Cancel
    <2>1. pc' = pc
      BY <1>5 DEF Cancel, loopVars
    <2>2. CASE ~CancelIsNoop /\ status = "running"
      BY <1>5, <2>1, <2>2 DEF Cancel, stopRun, SignalTells
    <2>3. CASE ~(~CancelIsNoop /\ status = "running")
      BY <1>5, <2>1, <2>3 DEF Cancel, stopVars, SignalTells
    <2> QED
      BY <2>2, <2>3
  <1>6. ASSUME NEW kind \in {"aborted", "deadline"}, CallerAborts(kind) PROVE SignalTells'
    <2>1. pc' = pc /\ signal' = IF signal = "live" THEN kind ELSE signal
      BY <1>6 DEF CallerAborts, loopVars
    <2>2. CASE pc # "ended" /\ status # "running"
      BY <1>6, <2>1, <2>2 DEF CallerAborts, SignalTells
    <2>3. CASE pc # "ended" /\ status = "running"
      <3>1. ~settled
        BY <2>3 DEF IInv, LoopInv
      <3> QED
        BY <1>6, <2>1, <2>3, <3>1 DEF CallerAborts, SignalTells, isDeadlineSignal
    <2>4. CASE pc = "ended"
      BY <2>1, <2>4 DEF SignalTells
    <2> QED
      BY <2>2, <2>3, <2>4
  <1>7. CASE Settle \/ UNCHANGED vars
    BY <1>7 DEF Settle, SignalTells, stopVars, loopVars, vars
  <1>8. CreditTripInside => "ref" \in running
    BY DEF CreditTripInside
  <1> QED
    BY <1>1, <1>2, <1>3, <1>4, <1>5, <1>6, <1>7, <1>8 DEF Next

\* A record of the run was one before the step, or is the one its unit just left.
LEMMA RecordsStep ==
  ASSUME IInv, SignalTells, [Next]_vars
  PROVE  \A s \in allRecords' : s \in allRecords \/ toldOf(s.record)
  <1>1. \A k \in DOMAIN results' :
          results'[k].records \subseteq records \union UNION {results[i].records : i \in DOMAIN results}
    <2>1. ASSUME NEW k \in DOMAIN results', NewResult(k)
          PROVE  results'[k].records \in {{}, records}
      BY <2>1 DEF NewResult, skippedStage, judgedStage, conditionErrorStage
    <2> QED
      BY <2>1, ResultsStep
  <1>2. \A s \in records' : s \in records \/ toldOf(s.record)
    <2>1. ASSUME NEW u, NEW r, settles(u, r), leftBy(u, r)
          PROVE  \A s \in records' : s \in records \/ toldOf(s.record)
      BY <2>1 DEF settles, leftBy
    <2>2. CASE UnitSettles
      BY <2>1, <2>2, UnitLeaves
    <2>3. ASSUME NEW u \in running, CreditTrip(u)
          PROVE  \A s \in records' : s \in records \/ toldOf(s.record)
      BY <2>1, <2>3, TripLeaves
    <2>4. CASE Launch
      BY <2>4 DEF Launch, passedThrough, answered, toldOf, isAbortedRecord, stopReached
    <2>5. CASE Judge \/ LoopThrows
      BY <2>5 DEF Judge, LoopThrows
    <2>6. CASE LoopStep /\ ~Launch /\ ~Judge
      BY <2>6 DEF LoopStep, LoopStopped, SkipUnmet, SkipDownstream, ConditionFalse, ConditionError,
         EndWithoutLaunch, Finish, workVars
    <2>7. CASE CreditTripInside \/ Cancel \/ CallerAborts("aborted") \/ CallerAborts("deadline")
               \/ Settle \/ UNCHANGED vars
      BY <2>7 DEF CreditTripInside, Cancel, CallerAborts, Settle, vars, workVars
    <2> QED
      BY <2>2, <2>3, <2>4, <2>5, <2>6, <2>7 DEF Next
  <1> QED
    BY <1>1, <1>2 DEF allRecords

\* Records tell of stops that happened, after every step.
LEMMA StopStoryStep == ASSUME IInv, SignalTells, StopStory, [Next]_vars PROVE StopStory'
  <1>1. \A s \in allRecords : toldOf(s.record)
    BY DEF StopStory, toldOf
  <1>2. \A s \in allRecords' : toldOf(s.record)
    BY <1>1, RecordsStep
  <1>3. ASSUME NEW s \in allRecords' PROVE toldOf(s.record)'
    <2>1. toldOf(s.record)
      BY <1>2
    <2> QED
      BY <2>1, ToldStays
  <1> QED
    BY <1>3 DEF StopStory, toldOf

\* The reasons of stages that never launched are true, after every step.
LEMMA SkipsTellStep ==
  ASSUME IInv, SkipsTell, AbortedTell, [Next]_vars
  PROVE  SkipsTell'
  <1> DEFINE says(r) ==
        /\ r.outcome = "SKIPPED" =>
              /\ r.records = {}
              /\ \/ r.skipReason \in BenignSkips \union {"gate_abort"}
                 \/ stoppedNow /\ r.skipReason = stopLabel
        /\ r.skipReason = "gate_early_exit" => status = "completed"
        /\ r.skipReason = "gate_abort" =>
              \E j \in DOMAIN results : failedBehindAbort(results[j])
  <1>1. \A j \in DOMAIN results : failedBehindAbort(results[j]) =>
          j \in DOMAIN results' /\ failedBehindAbort(results'[j])
    BY ResultsStep
  <1>2. ASSUME stoppedNow PROVE stoppedNow' /\ stopLabel' = stopLabel
    <2>1. UNCHANGED <<status, error, label>>
      BY <1>2, StatusKept DEF stoppedNow
    <2> QED
      BY <1>2, <2>1 DEF stoppedNow, stopLabel
  <1>3. status = "completed" => status' = "completed"
    BY StatusKept
  <1>4. stopLabel \notin {"gate_early_exit", "gate_abort", "none"}
    BY DEF stopLabel, IInv, TypeOK
  <1>5. ASSUME NEW k \in DOMAIN results'
        PROVE  LET r == results'[k]
               IN  /\ r.outcome = "SKIPPED" =>
                         /\ r.records = {}
                         /\ \/ r.skipReason \in BenignSkips \union {"gate_abort"}
                            \/ stoppedNow' /\ r.skipReason = stopLabel'
                   /\ r.skipReason = "gate_early_exit" => status' = "completed"
                   /\ r.skipReason = "gate_abort" =>
                         \E j \in DOMAIN results' : failedBehindAbort(results'[j])
    <2>1. CASE k \in DOMAIN results
      <3>1. results'[k] = results[k] /\ says(results[k])
        BY <2>1, ResultsStep DEF SkipsTell
      <3> QED
        BY <1>1, <1>2, <1>3, <3>1
    <2>2. CASE NewResult(k)
      <3>1. CASE stoppedNow /\ results'[k] = skippedStage(k, stopLabel)
        BY <1>2, <1>4, <3>1 DEF skippedStage
      <3>2. CASE Judge /\ k = stage /\ results'[k] = judgedStage
        <4>1. judgedStage.outcome = "SKIPPED" => judgedStage = skippedStage(stage, "condition_not_met")
          BY DEF judgedStage, judgedOutcome
        <4>2. judgedStage.skipReason \in {"none", "condition_not_met"}
          BY DEF judgedStage, skippedStage
        <4> QED
          BY <3>2, <4>1, <4>2 DEF skippedStage, BenignSkips
      <3>3. CASE /\ Judge /\ ~stoppedNow /\ earlyExit(judgedStage)
                 /\ results'[k] = skippedStage(k, "gate_early_exit")
        <4>1. status = "running"
          BY <3>3 DEF stoppedNow, Judge, allSettled, IInv, TypeOK, LoopInv
        <4>2. status' = "completed"
          BY <3>3, <4>1 DEF Judge
        <4> QED
          BY <3>3, <4>2 DEF skippedStage, BenignSkips
      <3>4. CASE SkipDownstream /\ results'[k] = skippedStage(k, "gate_abort")
        <4>1. PICK d \in aborted : TRUE
          BY <3>4 DEF SkipDownstream, downstreamOfAbort
        <4>2. \E j \in DOMAIN results : failedBehindAbort(results[j])
          BY <4>1 DEF AbortedTell, SkipsTell
        <4> QED
          BY <1>1, <3>4, <4>2 DEF skippedStage
      <3>5. CASE \E reason \in {"dependencies_not_met", "condition_not_met"} :
                   results'[k] = skippedStage(k, reason)
        BY <3>5 DEF skippedStage, BenignSkips
      <3>6. CASE results'[k] = conditionErrorStage(k, current.gate)
        BY <3>6 DEF conditionErrorStage
      <3> QED
        BY <2>2, <3>1, <3>2, <3>3, <3>4, <3>5, <3>6 DEF NewResult
    <2> QED
      BY <2>1, <2>2, ResultsStep
  <1> QED
    BY <1>5 DEF SkipsTell

\* Whose dependents are skipped, and only those, after every step.
LEMMA AbortedTellStep == ASSUME IInv, AbortedTell, [Next]_vars PROVE AbortedTell'
  <1>1. \A k \in DOMAIN results : k \in DOMAIN results' /\ results'[k] = results[k]
    BY ResultsStep
  <1>2. ASSUME NEW d \in aborted
        PROVE  /\ d \in DOMAIN results'
               /\ failedBehindAbort(results'[d]) \/ results'[d].skipReason = "gate_abort"
    BY <1>1 DEF AbortedTell
  <1>3. \A id, reason : ~failedBehindAbort(skippedStage(id, reason))
    BY DEF failedBehindAbort, skippedStage
  <1>4. stage \in Nat
    BY DefType DEF IInv, TypeOK
  <1>5. ASSUME NEW r \in StageResult, NEW na, AtStage, r.id = stage, EndWithoutLaunch(r, na),
               \/ na = aborted /\ ~failedBehindAbort(r)
               \/ na = abortedAfter(r)
               \/ na = aborted \union {stage} /\ ~failedBehindAbort(r) /\ r.skipReason = "gate_abort"
        PROVE  AbortedTell'
    <2>1. /\ DOMAIN results' = DOMAIN results \union {stage} /\ results'[stage] = r
          /\ aborted' = na
      BY <1>4, <1>5, EndWithoutLaunchResults DEF EndWithoutLaunch
    <2>2. \A d \in DOMAIN results : failedBehindAbort(results'[d]) => d \in aborted
      BY <1>1 DEF AbortedTell
    <2> QED
      BY <1>2, <1>5, <2>1, <2>2 DEF AbortedTell, abortedAfter
  <1>6. CASE SkipUnmet
    BY <1>3, <1>5, <1>6, SkippedHere, SkipReasonsInclude DEF SkipUnmet, IInv
  <1>7. CASE ConditionFalse
    BY <1>3, <1>5, <1>7, SkippedHere, SkipReasonsInclude DEF ConditionFalse, Reached, IInv
  <1>8. CASE SkipDownstream
    <2>1. skippedStage(stage, "gate_abort").skipReason = "gate_abort"
      BY DEF skippedStage
    <2> QED
      BY <1>3, <1>5, <1>8, <2>1, SkippedHere, SkipReasonsInclude DEF SkipDownstream, IInv
  <1>9. CASE ConditionError
    <2> DEFINE r == conditionErrorStage(stage, current.gate)
    <2>1. r \in StageResult /\ r.id = stage
      BY ConditionErrorType DEF IInv
    <2>2. AtStage /\ EndWithoutLaunch(r, abortedAfter(r))
      BY <1>9 DEF ConditionError, Reached
    <2> HIDE DEF r
    <2> QED
      BY <1>5, <2>1, <2>2
  <1>10. CASE Judge
    <2> DEFINE r == judgedStage
    <2>1. r.id = stage /\ aborted' = abortedAfter(r) /\ results'[stage] = r
      BY <1>10, JudgedType, JudgeResults DEF IInv, Judge
    <2>2. ASSUME NEW k \in DOMAIN results' PROVE k \in DOMAIN results \/ k = stage \/ ~failedBehindAbort(results'[k])
      BY <1>3, <1>10, ResultsStep DEF NewResult, Judge, SkipDownstream, SkipUnmet, ConditionFalse,
         ConditionError, Reached, AtStage, allSettled
    <2>3. stage \in DOMAIN results'
      BY <1>10, JudgeResults
    <2> HIDE DEF r
    <2>4. \A d \in DOMAIN results : failedBehindAbort(results'[d]) => d \in aborted
      BY <1>1 DEF AbortedTell
    <2> QED
      BY <1>2, <2>1, <2>2, <2>3, <2>4 DEF AbortedTell, abortedAfter
  <1>11. CASE LoopStopped
    <2>1. aborted' = aborted
      BY <1>11 DEF LoopStopped
    <2>2. ASSUME NEW k \in DOMAIN results' PROVE k \in DOMAIN results \/ ~failedBehindAbort(results'[k])
      BY <1>3, <1>4, <1>11, DefType, LoopStoppedResults DEF IInv
    <2> QED
      BY <1>1, <1>2, <2>1, <2>2 DEF AbortedTell
  <1>12. CASE ~(LoopStopped \/ SkipUnmet \/ SkipDownstream \/ ConditionFalse \/ ConditionError \/ Judge)
    <2>1. results' = results
      BY <1>12, OtherResults
    <2>2. aborted' = aborted
      BY <1>12 DEF Next, LoopStep, Launch, Finish, LoopThrows, UnitSettles, Answer, Reject,
         AnswerEmpty, AnswerStopped, StepsOver, settles, CreditTrip, CreditTripInside, Cancel,
         CallerAborts, Settle, vars, loopVars
    <2> QED
      BY <2>1, <2>2 DEF AbortedTell
  <1> QED
    BY <1>6, <1>7, <1>8, <1>9, <1>10, <1>11, <1>12

\* A conditional answer that passed a blocking gate has its warning, after every step.
LEMMA AcceptedTellStep == ASSUME IInv, AcceptedTell, [Next]_vars PROVE AcceptedTell'
  <1>1. def' = def
    BY DefKept
  <1>2. accepted \subseteq accepted'
    BY DEF Next, LoopStep, LoopStopped, SkipUnmet, SkipDownstream, ConditionFalse, ConditionError,
       EndWithoutLaunch, Launch, Judge, Finish, LoopThrows, UnitSettles, Answer, Reject,
       AnswerEmpty, AnswerStopped, StepsOver, settles, CreditTrip, CreditTripInside, Cancel,
       CallerAborts, Settle, vars, loopVars
  <1>3. ASSUME NEW k \in DOMAIN results', reserved(k)' PROVE accepted' # {}
    <2>1. CASE k \in DOMAIN results
      <3>1. results'[k] = results[k]
        BY <2>1, ResultsStep
      <3>2. reserved(k)
        BY <1>1, <1>3, <3>1 DEF reserved
      <3> QED
        BY <1>2, <2>1, <3>2 DEF AcceptedTell
    <2>2. CASE Judge /\ k = stage /\ results'[k] = judgedStage
      <3> DEFINE mode == gateMode(current.gate)
      <3>1. /\ judgedStage.outcome = "PASSED" /\ isBlocking(judgedStage.mode)
            /\ \E s \in judgedStage.records :
                  s.record.class = "conditional" /\ decisionKey(current.gate) # "ignore"
        BY <1>1, <1>3, <2>2 DEF reserved, current
      <3>2. ~allAgentsSkipped
        BY <3>1 DEF judgedStage, skippedStage
      <3>3. judgedStage.records = records /\ judgedStage.mode = mode
        BY <3>2 DEF judgedStage
      <3>4. ~gateFailed
        BY <3>1, <3>2 DEF judgedStage, judgedOutcome, isBlocking
      <3>5. ~gateFails(current.gate, members, perAgentMode)
        BY <3>4 DEF gateFailed
      <3>6. PICK s \in records : s.record.class = "conditional" /\ decisionKey(current.gate) # "ignore"
        BY <3>1, <3>3
      <3> DEFINE m == [name |-> s.unit, class |-> s.record.class, score |-> s.record.score,
                       threshold |-> IF s.unit \in current.agents
                                     THEN current.threshold[s.unit] ELSE Absent]
      <3>7. m \in members /\ m.class = "conditional"
        BY <3>6 DEF members
      <3> HIDE DEF m
      <3>8. decisionKey(current.gate) # "positive"
        BY <3>5, <3>7 DEF gateFails, failsOnDecision
      <3>9. decisionKey(current.gate) \in {"not_negative", "positive", "ignore"}
        <4>1. current.gate.decision \in {"absent", "not_negative", "positive", "ignore"}
          BY <2>2, CurrentType DEF Judge, allSettled, IInv, LoopInv, Stage, Gate
        <4> QED
          BY <4>1 DEF decisionKey
      <3>10. m \in conditionalAccepted(current.gate, members, perAgentMode)
        BY <3>1, <3>3, <3>5, <3>6, <3>7, <3>8, <3>9 DEF conditionalAccepted
      <3>11. acceptedConditional
        BY <3>1, <3>10 DEF acceptedConditional
      <3> QED
        BY <2>2, <3>11 DEF Judge
    <2>3. CASE k \notin DOMAIN results /\ ~(Judge /\ k = stage /\ results'[k] = judgedStage)
      <3>1. results'[k].outcome \in {"SKIPPED", "ERRORED"}
        BY <2>3, ResultsStep DEF NewResult, skippedStage, conditionErrorStage
      <3> QED
        BY <1>3, <3>1 DEF reserved
    <2> QED
      BY <2>1, <2>2, <2>3
  <1> QED
    BY <1>3 DEF AcceptedTell

-----------------------------------------------------------------------------
(* What is in flight, and what a stage that passed rests on. *)

\* The same holds of what is in flight after a unit settled.
LEMMA FlightSettles ==
  ASSUME IInv, FlightInv, NEW u \in running, NEW r, settles(u, r), leftBy(u, r)
  PROVE  FlightInv'
  <1>1. /\ pc = "await" /\ pc' = "await" /\ current' = current
        /\ downstreamOfAbort' = downstreamOfAbort
    BY DEF settles, loopVars, current, downstreamOfAbort
  <1>2. running' = running \ {u} /\ records' = records \union {[unit |-> u, record |-> r]}
    BY DEF settles
  <1>3. \A s \in records' : s.record.score \in Nat \union {NoScore}
    BY <1>1, <1>2 DEF FlightInv, leftBy
  <1>4. current.kind = "steps" =>
          running' \subseteq {"steps"} /\ \A s \in records' : ~s.record.synthesized
    BY <1>1, <1>2 DEF FlightInv, leftBy
  <1> QED
    BY <1>1, <1>2, <1>3, <1>4 DEF FlightInv

\* And after every step.
LEMMA FlightStep == ASSUME IInv, SignalTells, FlightInv, [Next]_vars PROVE FlightInv'
  <1>1. CASE UnitSettles
    BY <1>1, UnitLeaves, FlightSettles
  <1>2. ASSUME NEW u \in running, CreditTrip(u) PROVE FlightInv'
    BY <1>2, TripLeaves, FlightSettles
  <1>3. CASE Launch
    <2>1. ~downstreamOfAbort' /\ current' = current
      BY <1>3 DEF Launch, Reached, downstreamOfAbort, current
    <2>2. current.kind = "ref" => "ref" \in running'
      BY <1>3 DEF Launch, dispatched
    <2>3. current.kind = "steps" =>
            /\ running' \subseteq {"steps"}
            /\ "steps" \in running' \/ records' # {}
      BY <1>3 DEF Launch, dispatched, passedThrough
    <2>4. \A s \in records' : ~s.record.synthesized /\ s.record.score = NoScore
      BY <1>3 DEF Launch, passedThrough, answered
    <2> QED
      BY <2>1, <2>2, <2>3, <2>4 DEF FlightInv
  <1>4. CASE LoopStep /\ ~Launch
    <2>1. pc' # "await"
      BY <1>4 DEF LoopStep, LoopStopped, SkipUnmet, SkipDownstream, ConditionFalse, ConditionError,
         Reached, AtStage, EndWithoutLaunch, Judge, Finish
    <2> QED
      BY <2>1 DEF FlightInv
  <1>5. CASE LoopThrows
    BY <1>5 DEF LoopThrows, FlightInv
  <1>6. CASE CreditTripInside \/ Cancel \/ CallerAborts("aborted") \/ CallerAborts("deadline")
             \/ Settle \/ UNCHANGED vars
    <2>1. UNCHANGED <<def, pc, stage, aborted, running, records>>
      BY <1>6 DEF CreditTripInside, Cancel, CallerAborts, Settle, vars, workVars, loopVars
    <2> QED
      BY <2>1 DEF FlightInv, current, downstreamOfAbort
  <1> QED
    BY <1>1, <1>2, <1>3, <1>4, <1>5, <1>6 DEF Next

\* A score under an authored threshold fails the gate that must look at it.
LEMMA ScoresOfPassed ==
  ASSUME NEW gate \in Gate, NEW members0, NEW perAgent \in BOOLEAN,
         ~gateFails(gate, members0, perAgent),
         NEW m \in members0, m.score \in Nat, m.threshold \in Int
  PROVE  /\ perAgent /\ m.threshold # Absent => m.score >= m.threshold
         /\ ~perAgent /\ gate.aggregate = "min" => m.score >= gate.threshold
  <1>1. gate.threshold \in Int /\ m.score # NoScore
    BY DEF Gate, NoScore
  <1>2. ASSUME perAgent, m.threshold # Absent PROVE m.score >= m.threshold
    <2>1. ~failsOnOwnScore(gate, m)
      BY <1>2 DEF gateFails
    <2> QED
      BY <1>1, <1>2, <2>1 DEF failsOnOwnScore, memberThreshold
  <1>3. ASSUME ~perAgent, gate.aggregate = "min" PROVE m.score >= gate.threshold
    <2>1. ~failsOnAggregate(gate, members0)
      BY <1>3 DEF gateFails
    <2>2. CASE gate.threshold = Absent
      BY <1>1, <2>2 DEF Absent
    <2>3. CASE gate.threshold # Absent
      <3> DEFINE scored == {x \in members0 : x.score # NoScore}
      <3>1. m \in scored
        BY <1>1
      <3>2. ~scoresBelow(gate.aggregate, gate.threshold, scored)
        BY <2>1, <2>3, <3>1 DEF failsOnAggregate
      <3> HIDE DEF scored
      <3>3. ~(m.score < gate.threshold)
        BY <1>3, <3>1, <3>2 DEF scoresBelow
      <3> QED
        BY <1>1, <3>3
    <2> QED
      BY <2>2, <2>3
  <1> QED
    BY <1>2, <1>3

\* A stage judged PASSED rests on work that ran and passed.
LEMMA JudgedPassed ==
  ASSUME IInv, FlightInv, allSettled, judgedStage.outcome = "PASSED"
  PROVE  LET g == current.gate
             own(u) == IF u \in current.agents THEN current.threshold[u] ELSE Absent
             perAgent == \E a \in current.agents : current.threshold[a] # Absent
         IN  /\ judgedStage.records = records
             /\ g.gated => records # {} /\ \A s \in records : ~s.record.empty
             /\ \A s \in records :
                   /\ ~stopReached(s.record) /\ ~isCrashRecord(s.record)
                   /\ s.record.class = "negative" => decisionKey(g) = "ignore"
                   /\ s.record.score # NoScore =>
                         /\ own(s.unit) # Absent => s.record.score >= own(s.unit)
                         /\ g.aggregate = "min" /\ ~perAgent => s.record.score >= g.threshold
  <1>1. ~allAgentsSkipped
    BY DEF judgedStage, skippedStage
  <1>2. judgedStage.records = records /\ erroredReasons = {} /\ ~gateFailed
    BY <1>1 DEF judgedStage, judgedOutcome
  <1>3. ~reachedByStop /\ ~unjudgeable
    BY <1>2 DEF erroredReasons
  <1>4. /\ ~(current.kind = "ref" /\ \E s \in records : isCrashRecord(s.record))
        /\ ~(current.gate.gated /\ verifiedNothing)
        /\ ~gateFails(current.gate, members, perAgentMode)
    BY <1>2 DEF gateFailed
  <1>5. pc = "await" /\ running = {} /\ current \in Stage
    BY CurrentType DEF allSettled, IInv, LoopInv
  <1>6. current.kind \in {"agents", "steps", "ref"} /\ current.gate \in Gate
        /\ current.threshold \in [Agents -> Int] /\ current.agents \subseteq Agents
    BY <1>5 DEF Stage
  <1>7. current.gate.gated => records # {} /\ \A s \in records : ~s.record.empty
    BY <1>4, <1>5, <1>6 DEF verifiedNothing, FlightInv
  <1>8. ASSUME NEW s \in records PROVE ~stopReached(s.record) /\ ~isCrashRecord(s.record)
    <2>1. ~stopReached(s.record)
      BY <1>3 DEF reachedByStop
    <2>2. current.kind # "ref" => ~s.record.synthesized
      BY <1>3, <1>5, <1>6, <2>1 DEF unjudgeable, FlightInv
    <2> QED
      BY <1>4, <2>1, <2>2 DEF isCrashRecord
  <1>9. ASSUME NEW s \in records
        PROVE  /\ s.record.class = "negative" => decisionKey(current.gate) = "ignore"
               /\ s.record.score # NoScore =>
                    /\ s.unit \in current.agents /\ current.threshold[s.unit] # Absent =>
                          s.record.score >= current.threshold[s.unit]
                    /\ current.gate.aggregate = "min" /\ ~perAgentMode =>
                          s.record.score >= current.gate.threshold
    <2> DEFINE m == [name |-> s.unit, class |-> s.record.class, score |-> s.record.score,
                     threshold |-> IF s.unit \in current.agents
                                   THEN current.threshold[s.unit] ELSE Absent]
    <2>1. m \in members
      BY DEF members
    <2>2. m.class = s.record.class /\ m.score = s.record.score
          /\ (s.unit \in current.agents => m.threshold = current.threshold[s.unit])
          /\ m.threshold \in Int
      BY <1>6 DEF Absent
    <2> HIDE DEF m
    <2>3. s.record.class = "negative" => decisionKey(current.gate) = "ignore"
      BY <1>4, <2>1, <2>2 DEF gateFails, failsOnDecision
    <2>4. ASSUME s.record.score # NoScore PROVE s.record.score \in Nat
      BY <1>5, <2>4 DEF FlightInv
    <2>5. perAgentMode \in BOOLEAN
      BY DEF perAgentMode
    <2>6. ASSUME s.record.score # NoScore
          PROVE  /\ perAgentMode /\ m.threshold # Absent => m.score >= m.threshold
                 /\ ~perAgentMode /\ current.gate.aggregate = "min" =>
                       m.score >= current.gate.threshold
      BY <1>4, <1>6, <2>1, <2>2, <2>4, <2>5, <2>6, ScoresOfPassed
    <2>7. s.unit \in current.agents /\ current.threshold[s.unit] # Absent => perAgentMode
      BY DEF perAgentMode
    <2> QED
      BY <2>2, <2>3, <2>6, <2>7
  <1> QED
    BY <1>2, <1>7, <1>8, <1>9 DEF perAgentMode

\* Every stage that reads PASSED rests on work that passed, after every step.
LEMMA PassedStep ==
  ASSUME IInv, FlightInv, PassedStageIsSound, [Next]_vars
  PROVE  PassedStageIsSound'
  <1>1. def' = def
    BY DefKept
  <1>2. ASSUME NEW k \in DOMAIN results', results'[k].outcome = "PASSED" PROVE passedOnWork(k)'
    <2>1. CASE k \in DOMAIN results
      <3>1. results'[k] = results[k]
        BY <2>1, ResultsStep
      <3>2. passedOnWork(k)
        BY <1>2, <2>1, <3>1 DEF PassedStageIsSound
      <3> QED
        BY <1>1, <3>1, <3>2 DEF passedOnWork
    <2>2. CASE Judge /\ k = stage /\ results'[k] = judgedStage
      <3>1. allSettled /\ judgedStage.outcome = "PASSED"
        BY <1>2, <2>2 DEF Judge
      <3>2. current = def'[k]
        BY <1>1, <2>2 DEF current
      <3> QED
        BY <2>2, <3>1, <3>2, JudgedPassed DEF passedOnWork
    <2>3. CASE k \notin DOMAIN results /\ ~(Judge /\ k = stage /\ results'[k] = judgedStage)
      <3>1. results'[k].outcome \in {"SKIPPED", "ERRORED"}
        BY <2>3, ResultsStep DEF NewResult, skippedStage, conditionErrorStage
      <3> QED
        BY <1>2, <3>1
    <2> QED
      BY <2>1, <2>2, <2>3
  <1> QED
    BY <1>2 DEF PassedStageIsSound

-----------------------------------------------------------------------------
(***************************************************************************)
(* The abort cascade, for pipelines whose dependencies are all declared.   *)
(* An unknown one between a failed stage and a dependent breaks it:        *)
(* PipelineRunGhost.cfg shows how.                                         *)
(***************************************************************************)
DependenciesDeclared == \A p \in Pipelines : \A i \in DOMAIN p : Unknown \notin p[i].deps

\* A stage that never launched for a reason which holds for its dependents as well.
cutOff(k) ==
    /\ results[k].outcome = "SKIPPED"
    /\ results[k].skipReason \in
         {"gate_abort", "gate_early_exit", "cancelled", "credit", "deadline", "run stopped"}
behind(k) == \E d \in def[k].deps : d \in aborted \/ (d \in DOMAIN results /\ cutOff(d))

CascadeInv ==
    /\ Len(results) <= N
    /\ \A k \in DOMAIN results : /\ behind(k) => cutOff(k)
                                 /\ cutOff(k) => k \in aborted \/ pc = "ended"

\* A stage's dependencies come before it.
LEMMA DepsBefore ==
  ASSUME TypeOK, DependenciesDeclared, NEW k \in 1..N
  PROVE  def[k].deps \subseteq 1..(k - 1)
  <1>1. def \in Pipelines /\ def \in Seq(Stage) /\ N \in Nat
    BY DefType DEF TypeOK
  <1>2. k \in DOMAIN def /\ def[k] \in Stage
    BY <1>1, ElementOfSeq, LenProperties DEF N
  <1>3. def[k].deps \subseteq Nat /\ \A d \in def[k].deps : d < k /\ d # Unknown
    BY <1>1, <1>2, PipelinesAssumption DEF Stage, Launchable, DependenciesDeclared
  <1> QED
    BY <1>1, <1>3 DEF Unknown

\* A step adds to the stages whose dependents are skipped only one that it records.
LEMMA AbortedGrows ==
  ASSUME IInv, [Next]_vars
  PROVE  \A d \in aborted' : d \in aborted \/ d \notin DOMAIN results
  <1>1. aborted' \subseteq aborted \union {stage} \/ aborted' = aborted
    <2>1. CASE Judge
      <3>1. judgedStage.id = stage /\ aborted' = abortedAfter(judgedStage)
        BY <2>1, JudgedType DEF Judge, IInv
      <3> QED
        BY <3>1 DEF abortedAfter
    <2>2. CASE ConditionError
      <3>1. /\ conditionErrorStage(stage, current.gate).id = stage
            /\ aborted' = abortedAfter(conditionErrorStage(stage, current.gate))
        BY <2>2, ConditionErrorType DEF ConditionError, EndWithoutLaunch, IInv
      <3> QED
        BY <3>1 DEF abortedAfter
    <2>3. CASE ~Judge /\ ~ConditionError
      BY <2>3 DEF Next, LoopStep, LoopStopped, SkipUnmet, SkipDownstream, ConditionFalse,
         EndWithoutLaunch, Launch, Finish, LoopThrows, UnitSettles, Answer, Reject, AnswerEmpty,
         AnswerStopped, StepsOver, settles, CreditTrip, CreditTripInside, Cancel, CallerAborts,
         Settle, vars, loopVars
    <2> QED
      BY <2>1, <2>2, <2>3
  <1>2. pc # "ended" => stage \notin DOMAIN results
    <2>1. results \in Seq(StageResult) /\ stage \in Nat
      BY DefType DEF IInv, TypeOK
    <2> QED
      BY <2>1, LenProperties DEF IInv, EveryStageAccounted
  <1>3. pc = "ended" => aborted' = aborted
    BY DEF Next, LoopStep, LoopStopped, SkipUnmet, SkipDownstream, ConditionFalse, ConditionError,
       Reached, AtStage, EndWithoutLaunch, Launch, Judge, allSettled, Finish, LoopThrows,
       UnitSettles, Answer, Reject, AnswerEmpty, AnswerStopped, StepsOver, settles, CreditTrip,
       CreditTripInside, Cancel, CallerAborts, Settle, vars, loopVars
  <1> QED
    BY <1>1, <1>2, <1>3

\* A stage that has been reached has nothing behind it that was cut off.
LEMMA ReachedIsFree ==
  ASSUME IInv, CascadeInv, DependenciesDeclared, [Next]_vars,
         pc # "ended", stage <= N, ~downstreamOfAbort
  PROVE  ~\E d \in def[stage].deps : d \in aborted' \/ (d \in DOMAIN results /\ cutOff(d))
  <1>1. stage \in 1..N /\ def[stage] = current
    BY DefType DEF IInv, TypeOK, current
  <1>2. DOMAIN results = 1..(stage - 1)
    <2>1. results \in Seq(StageResult) /\ Len(results) = stage - 1
      BY DEF IInv, TypeOK, EveryStageAccounted
    <2> QED
      BY <2>1, LenProperties
  <1>3. current.deps \subseteq DOMAIN results
    BY <1>1, <1>2, DepsBefore DEF IInv
  <1>4. current.deps \intersect aborted = {}
    BY DEF downstreamOfAbort
  <1> QED
    BY <1>1, <1>3, <1>4, AbortedGrows DEF CascadeInv

\* No more results than stages, after every step.
LEMMA RecordedStep ==
  ASSUME IInv, Len(results) <= N, [Next]_vars
  PROVE  Len(results') <= N'
  <1>1. def' = def /\ N' = N /\ IInv'
    BY DefKept, NextInv DEF N
  <1>2. CASE LoopStopped \/ SkipUnmet \/ SkipDownstream \/ ConditionFalse \/ ConditionError \/ Judge
    <2>1. pc # "ended" /\ threw' = threw
      BY <1>2 DEF LoopStopped, SkipUnmet, SkipDownstream, ConditionFalse, ConditionError, Judge,
         EndWithoutLaunch, Reached, AtStage, allSettled
    <2>2. threw' = FALSE
      BY <2>1 DEF IInv, LoopInv, TypeOK
    <2>3. Len(results') = N \/ Len(results') = stage' - 1
      BY <1>1, <2>2 DEF IInv, EveryStageAccounted
    <2>4. stage' \in 1..(N + 1) /\ N \in Nat
      <3>1. stage' \in 1..(N' + 1)
        BY <1>1 DEF IInv, TypeOK
      <3> QED
        BY <1>1, <3>1, DefType DEF IInv
    <2>5. Len(results') <= N
      <3>1. N \in Nat
        BY <2>4
      <3>2. N <= N /\ \A i \in 1..(N + 1) : i - 1 <= N
        BY <3>1
      <3> QED
        BY <2>3, <2>4, <3>2
    <2> QED
      BY <1>1, <2>5
  <1>3. CASE ~(LoopStopped \/ SkipUnmet \/ SkipDownstream \/ ConditionFalse \/ ConditionError \/ Judge)
    <2>1. results' = results
      BY <1>3, OtherResults
    <2> QED
      BY <1>1, <2>1
  <1> QED
    BY <1>2, <1>3

\* The cascade goes on, after every step.
LEMMA CascadeStep ==
  ASSUME IInv, FlightInv, CascadeInv, DependenciesDeclared, [Next]_vars
  PROVE  CascadeInv'
  <1>1. def' = def /\ IInv'
    BY DefKept, NextInv
  <1>2. \A k \in DOMAIN results : k \in DOMAIN results' /\ results'[k] = results[k]
    BY ResultsStep
  <1>3. \A k \in DOMAIN results : cutOff(k)' <=> cutOff(k)
    BY <1>2 DEF cutOff
  <1>4. pc = "ended" => pc' = "ended"
    BY DEF Next, LoopStep, LoopStopped, SkipUnmet, SkipDownstream, ConditionFalse, ConditionError,
       Reached, AtStage, EndWithoutLaunch, Launch, Judge, allSettled, Finish, LoopThrows,
       UnitSettles, Answer, Reject, AnswerEmpty, AnswerStopped, StepsOver, settles, CreditTrip,
       CreditTripInside, Cancel, CallerAborts, Settle, vars, loopVars
  <1>5. aborted \subseteq aborted'
    BY DEF Next, LoopStep, LoopStopped, SkipUnmet, SkipDownstream, ConditionFalse, ConditionError,
       EndWithoutLaunch, Launch, Judge, Finish, LoopThrows, UnitSettles, Answer, Reject, AnswerEmpty,
       AnswerStopped, StepsOver, settles, CreditTrip, CreditTripInside, Cancel, CallerAborts, Settle,
       vars, loopVars, abortedAfter
  <1>6. \A k \in DOMAIN results : k \in 1..N /\ def[k].deps \subseteq DOMAIN results
    <2>1. results \in Seq(StageResult) /\ N \in Nat
      BY DefType DEF IInv, TypeOK
    <2>2. DOMAIN results = 1..Len(results) /\ Len(results) \in Nat
      BY <2>1, LenProperties
    <2>3. Len(results) <= N
      BY DEF CascadeInv
    <2>4. ASSUME NEW k \in DOMAIN results
          PROVE  k \in 1..N /\ def[k].deps \subseteq DOMAIN results
      <3>1. k \in 1..N
        BY <2>1, <2>2, <2>3
      <3>2. def[k].deps \subseteq 1..(k - 1)
        BY <3>1, DepsBefore DEF IInv
      <3> QED
        BY <2>2, <3>1, <3>2
    <2> QED
      BY <2>4
  <1>7. ASSUME NEW k \in DOMAIN results
        PROVE  (behind(k)' => cutOff(k)') /\ (cutOff(k)' => k \in aborted' \/ pc' = "ended")
    <2>1. behind(k)' => behind(k)
      BY <1>1, <1>3, <1>6, AbortedGrows DEF behind
    <2>2. (behind(k) => cutOff(k)) /\ (cutOff(k) => k \in aborted \/ pc = "ended")
      BY DEF CascadeInv
    <2> QED
      BY <1>3, <1>4, <1>5, <2>1, <2>2
  <1>8. ASSUME NEW k \in DOMAIN results', NewResult(k), k \notin DOMAIN results
        PROVE  (behind(k)' => cutOff(k)') /\ (cutOff(k)' => k \in aborted' \/ pc' = "ended")
    <2>1. ASSUME NEW reason, results'[k] = skippedStage(k, reason),
                 reason \in {"gate_abort", "gate_early_exit", "cancelled", "credit", "deadline",
                            "run stopped"}
          PROVE  cutOff(k)'
      <3>1. /\ skippedStage(k, reason).outcome = "SKIPPED"
            /\ skippedStage(k, reason).skipReason = reason
        BY DEF skippedStage
      <3> QED
        BY <2>1, <3>1 DEF cutOff
    <2>2. ASSUME k = stage, ~cutOff(k)', pc # "ended", stage <= N, ~downstreamOfAbort
          PROVE  ~behind(k)'
      <3>1. def[k].deps \subseteq DOMAIN results
        <4>1. stage \in 1..N
          BY <2>2, DefType DEF IInv, TypeOK
        <4>2. DOMAIN results = 1..(stage - 1)
          <5>1. results \in Seq(StageResult) /\ Len(results) = stage - 1
            BY <2>2 DEF IInv, TypeOK, EveryStageAccounted
          <5> QED
            BY <5>1, LenProperties
        <4> QED
          BY <2>2, <4>1, <4>2, DepsBefore DEF IInv
      <3> QED
        BY <1>1, <1>3, <2>2, <3>1, ReachedIsFree DEF behind
    <2>3. CASE stoppedNow /\ pc' = "ended" /\ results'[k] = skippedStage(k, stopLabel)
      <3>1. stopLabel \in {"cancelled", "credit", "deadline", "run stopped"}
        BY DEF stopLabel, IInv, TypeOK
      <3> QED
        BY <2>1, <2>3, <3>1
    <2>4. CASE Judge /\ k = stage /\ results'[k] = judgedStage
      <3>1. ~cutOff(k)'
        BY <2>4 DEF cutOff, judgedStage, judgedOutcome, skippedStage
      <3>2. pc # "ended" /\ stage <= N /\ ~downstreamOfAbort
        BY <2>4 DEF Judge, allSettled, IInv, LoopInv, FlightInv
      <3> QED
        BY <2>2, <2>4, <3>1, <3>2
    <2>5. CASE pc' = "ended" /\ results'[k] = skippedStage(k, "gate_early_exit")
      BY <2>1, <2>5
    <2>6. CASE SkipDownstream /\ k = stage /\ results'[k] = skippedStage(k, "gate_abort")
      BY <2>1, <2>6 DEF SkipDownstream, EndWithoutLaunch
    <2>7. CASE SkipUnmet
      <3>1. stage \in 1..N
        BY <2>7, DefType DEF SkipUnmet, AtStage, IInv, TypeOK
      <3>2. /\ DOMAIN results = 1..(stage - 1)
            /\ \A i \in DOMAIN results : results[i].id = i
        <4>1. results \in Seq(StageResult) /\ Len(results) = stage - 1
          BY <2>7 DEF SkipUnmet, AtStage, IInv, TypeOK, EveryStageAccounted
        <4> QED
          BY <4>1, LenProperties DEF IInv, EveryStageAccounted
      <3>3. current.deps \subseteq DOMAIN results
        BY <3>1, <3>2, DepsBefore DEF IInv, current
      <3> QED
        BY <2>7, <3>2, <3>3 DEF SkipUnmet, dependenciesMet
    <2>8. CASE ConditionFalse /\ k = stage /\ results'[k] = skippedStage(k, "condition_not_met")
      <3>1. ~cutOff(k)'
        BY <2>8 DEF cutOff, skippedStage
      <3> QED
        BY <2>2, <2>8, <3>1 DEF ConditionFalse, Reached, AtStage
    <2>9. CASE ConditionError /\ k = stage /\ results'[k] = conditionErrorStage(k, current.gate)
      <3>1. ~cutOff(k)'
        BY <2>9 DEF cutOff, conditionErrorStage
      <3> QED
        BY <2>2, <2>9, <3>1 DEF ConditionError, Reached, AtStage
    <2> QED
      BY <1>8, <2>3, <2>4, <2>5, <2>6, <2>7, <2>8, <2>9 DEF NewResult
  <1>9. Len(results') <= N'
    BY RecordedStep DEF CascadeInv
  <1> QED
    BY <1>7, <1>8, <1>9, ResultsStep DEF CascadeInv

-----------------------------------------------------------------------------
(* The theorems about results and records. *)

TellInv ==
    /\ SignalTells /\ StopStory /\ SkipsTell /\ AbortedTell /\ AcceptedTell
    /\ FlightInv /\ PassedStageIsSound

\* All of it holds of the state start() leaves.
LEMMA InitTell == Init => TellInv
  <1> SUFFICES ASSUME Init PROVE TellInv
    OBVIOUS
  <1>1. DOMAIN results = {} /\ records = {} /\ aborted = {} /\ pc = "loop" /\ error # "threw"
    BY EmptySeq, CallerAssumption DEF Init
  <1>2. SignalTells
    BY <1>1, CallerAssumption DEF Init, SignalTells
  <1>3. StopStory
    BY <1>1 DEF StopStory, allRecords
  <1> QED
    BY <1>1, <1>2, <1>3 DEF TellInv, SkipsTell, AbortedTell, AcceptedTell, FlightInv, PassedStageIsSound

\* All of it holds in every reachable state.
LEMMA TellInvariance == SafeSpec => []TellInv
  <1>1. ASSUME IInv, TellInv, [Next]_vars PROVE TellInv'
    BY <1>1, SignalTellsStep, StopStoryStep, SkipsTellStep, AbortedTellStep, AcceptedTellStep,
       FlightStep, PassedStep DEF TellInv
  <1> QED
    BY <1>1, InitTell, Invariance, PTL DEF SafeSpec

\* A run that reports PASS hides no stop, no failure and no reservation.
LEMMA PassIsVerified == ASSUME IInv, TellInv PROVE PassMeansVerified
  <1> SUFFICES ASSUME Decision = "PASS", NEW k \in DOMAIN results
               PROVE  \/ results[k].outcome = "SKIPPED" /\ results[k].skipReason \in BenignSkips
                      \/ /\ results[k].outcome = "PASSED"
                         /\ isBlocking(results[k].mode) =>
                              \A s \in results[k].records :
                                s.record.class = "conditional" => decisionKey(def[k].gate) = "ignore"
    BY DEF PassMeansVerified
  <1>1. /\ allGatesPassed
        /\ ~\E j \in judgedStages : \/ j.outcome = "WARNED"
                                    \/ j.outcome = "ERRORED" /\ j.mode = "warn"
    BY DEF Decision, runDecision
  <1>2. /\ ~stopReachedAnyStage /\ accepted = {}
        /\ \A j \in judgedStages : j.outcome # "FAILED" /\ (j.outcome = "ERRORED" => j.mode = "warn")
    BY <1>1 DEF allGatesPassed, computeAllGatesPassed
  <1>3. \A i \in DOMAIN results :
          [outcome |-> results[i].outcome, mode |-> results[i].mode] \in judgedStages
    BY DEF judgedStages
  <1>4. \A i \in DOMAIN results : results[i].outcome \in {"PASSED", "SKIPPED"}
    <2>1. \A i \in DOMAIN results : results[i] \in StageResult
      <3>1. results \in Seq(StageResult)
        BY DEF IInv, TypeOK
      <3> QED
        BY <3>1, ElementOfSeq, LenProperties
    <2>2. ASSUME NEW i \in DOMAIN results PROVE results[i].outcome \notin {"WARNED", "FAILED", "ERRORED"}
      BY <1>1, <1>2, <1>3
    <2> QED
      BY <2>1, <2>2 DEF StageResult, Outcomes
  <1>5. CASE results[k].outcome = "SKIPPED"
    <2>1. results[k].skipReason # "gate_abort"
      BY <1>4 DEF TellInv, SkipsTell, failedBehindAbort
    <2>2. ~(results[k].skipReason = stopLabel)
      BY <1>2, <1>5 DEF stopReachedAnyStage
    <2> QED
      BY <1>5, <2>1, <2>2 DEF TellInv, SkipsTell
  <1>6. CASE results[k].outcome = "PASSED"
    BY <1>2, <1>6 DEF TellInv, AcceptedTell, reserved
  <1> QED
    BY <1>4, <1>5, <1>6

\* What a run says of how it ended is true (StopIsTold): its records and skips tell of
\* a stop where there was one, and a PASS hides none.
THEOREM StopTold == SafeSpec => []StopIsTold
  <1>1. ASSUME IInv, TellInv PROVE StopIsTold
    BY <1>1, PassIsVerified DEF StopIsTold, TellInv, SkipsTell, EarlyExitNeverMasksStop
  <1> QED
    BY <1>1, Invariance, TellInvariance, PTL

\* A stage downstream of a failure behind abort was cut off.
LEMMA CascadeReaches ==
  ASSUME IInv, TellInv, CascadeInv, DependenciesDeclared
  PROVE  AbortCascade
  <1> SUFFICES ASSUME NEW j \in DOMAIN results, NEW k \in DOMAIN results,
                      failedBehindAbort(results[j]), downstream(k, j), ~cutOff(k)
               PROVE  FALSE
    BY DEF AbortCascade, cutOff, TellInv, SkipsTell
  <1> DEFINE free == {d \in 1..N : d \in DOMAIN results /\ d \notin aborted /\ ~cutOff(d)}
  <1>1. /\ DOMAIN results = 1..Len(results) /\ Len(results) \in Nat /\ Len(results) <= N
        /\ N \in Nat
    <2>1. results \in Seq(StageResult) /\ N \in Nat
      BY DefType DEF IInv, TypeOK
    <2> QED
      BY <2>1, LenProperties DEF CascadeInv
  <1>2. ASSUME NEW d \in DOMAIN results, ~cutOff(d) PROVE declaredDeps(d) \subseteq free
    <2>1. d \in 1..N
      BY <1>1
    <2>2. def[d].deps \subseteq 1..(d - 1)
      BY <2>1, DepsBefore DEF IInv
    <2>3. def[d].deps \subseteq DOMAIN results
      BY <1>1, <2>1, <2>2
    <2>4. ~behind(d)
      BY <1>2 DEF CascadeInv
    <2> QED
      BY <2>3, <2>4 DEF declaredDeps, behind
  <1>3. declaredDeps(k) \subseteq free /\ \A d \in free : declaredDeps(d) \subseteq free
    BY <1>2
  <1>4. j \in free
    <2>1. free \in SUBSET (1..N)
      OBVIOUS
    <2> HIDE DEF free
    <2> QED
      BY <1>3, <2>1 DEF downstream
  <1> QED
    BY <1>4 DEF TellInv, AbortedTell

\* What the results say of the stages is true (StageRecords), for pipelines whose
\* dependencies are all declared: each stage is there once and in order, a failure
\* behind abort stops what is downstream, and a PASSED stage rests on work that passed.
THEOREM StagesRecorded ==
  ASSUME DependenciesDeclared
  PROVE  SafeSpec => []StageRecords
  <1>1. Init => CascadeInv
    <2> SUFFICES ASSUME Init PROVE CascadeInv
      OBVIOUS
    <2>1. Len(results) = 0 /\ DOMAIN results = {} /\ N \in Nat
      BY EmptySeq, InitIInv, DefType DEF Init, IInv
    <2> QED
      BY <2>1 DEF CascadeInv
  <1>2. ASSUME IInv, TellInv, CascadeInv, [Next]_vars PROVE CascadeInv'
    BY <1>2, DependenciesDeclared, CascadeStep DEF TellInv
  <1>3. ASSUME IInv, TellInv, CascadeInv PROVE StageRecords
    BY <1>3, DependenciesDeclared, CascadeReaches DEF StageRecords, IInv, TellInv
  <1> QED
    BY <1>1, <1>2, <1>3, Invariance, TellInvariance, PTL DEF SafeSpec

=============================================================================
