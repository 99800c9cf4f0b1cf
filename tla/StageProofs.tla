---------------------------- MODULE StageProofs ----------------------------
(***************************************************************************)
(* Proofs about what a stage runs by: its steps (StepsRun) and its         *)
(* condition (PipelineLoad).                                               *)
(*                                                                         *)
(* The first part is about StepsRun: for every stage, every authored       *)
(* bound, every set of parameters and every end of an attempt, the types,  *)
(* the bound on the time of a stage, what its results say and the values   *)
(* its commands get.  The second is about PipelineLoad: for every text,    *)
(* every graph of stages and every result of a step, what an accepted      *)
(* condition reads, and that the output of a step that did not pass        *)
(* decides nothing.  Between them stand the lemmas about the parser and    *)
(* the evaluator of conditions: the parser returns a tree whose references *)
(* are those it met and whose subtrees have ranks, and along the ranks the *)
(* evaluator has one value for each.                                       *)
(***************************************************************************)
EXTENDS StepsRun, PipelineLoad, SequenceTheorems, FiniteSetTheorems, WellFoundedInduction, TLAPS

under == {"running", "retrying"}

\* Where a stage stands: the attempt is one the step has left, a step under way is
\* not one to skip, and hardFailed remembers the failures so far.
Shape ==
    /\ pc = "running" => attempt \in 1 .. maxAttempts(step)
    /\ pc = "retrying" => attempt \in 1 .. maxAttempts(step) - 1
    /\ pc \notin under => attempt = 0
    /\ pc \in {"load", "refused"} => results = <<>>
    /\ pc \in under => ~skips(step)
    /\ pc \notin {"load", "refused"} => checked
    /\ hardFailed <=> hardFailedBefore(current)
    /\ \A s \in 1 .. Count : s > current => succeeded[s] = 0

\* While an attempt runs its own time is still to come.
TimeLeft ==
    pc = "running" /\ heedful =>
        elapsed + DEFAULT_STEP_TIMEOUT <= Len(results) * StepBound + spent(attempt)

IInv == TypeOK /\ Shape /\ StageTimeIsBounded /\ TimeLeft /\ ResultsTellEffects
          /\ DeclaredValuesArrive

-----------------------------------------------------------------------------
(* The authored bounds. *)

\* A clamped integer is within a range that is not empty.
LEMMA Clamped ==
  ASSUME NEW n \in Int, NEW min \in Int, NEW max \in Int, min <= max
  PROVE  clampToRange(n, min, max) \in min .. max
  BY DEF clampToRange

\* Whatever is authored, the bound read from it is within its range.
LEMMA ExternalInRange ==
  ASSUME NEW value \in Authored, NEW min \in Int, NEW max \in Int, NEW fallback \in Int, min <= max
  PROVE  externalInt(value, min, max, fallback) \in min .. max
  BY Clamped DEF externalInt

LEMMA BoundsInRange ==
  ASSUME NEW d \in StepDefinition
  PROVE  /\ clampModelBound(d.timeout) \in 1 .. DEFAULT_STEP_TIMEOUT
         /\ maxAttempts(d) \in 1 .. 1 + MAX_STEP_RETRIES
         /\ retryDelay(d) \in 0 .. MAX_RETRY_DELAY
  <1>1. d.timeout \in Authored /\ d.retries \in Authored /\ d.retry_delay \in Authored
    BY DEF StepDefinition
  <1>2. clampModelBound(d.timeout) \in 1 .. DEFAULT_STEP_TIMEOUT
    BY <1>1, ExternalInRange, BoundsAssumption DEF clampModelBound
  <1>3. externalInt(d.retries, 0, MAX_STEP_RETRIES, 0) \in 0 .. MAX_STEP_RETRIES
    BY <1>1, ExternalInRange, BoundsAssumption
  <1>4. externalInt(d.retry_delay, 0, MAX_RETRY_DELAY, 0) \in 0 .. MAX_RETRY_DELAY
    BY <1>1, ExternalInRange, BoundsAssumption
  <1> QED
    BY <1>2, <1>3, <1>4, BoundsAssumption DEF maxAttempts, retryDelay

\* The step under way has a definition.
LEMMA StepDefined ==
  ASSUME TypeOK, Len(results) < Count
  PROVE  step \in StepDefinition /\ current \in 1 .. Count
  <1>1. current \in 1 .. Count
    BY CountAssumption DEF TypeOK, current
  <1> QED
    BY <1>1, DefinitionsAssumption DEF TypeOK, step

LEMMA ProductGrows ==
  ASSUME NEW a \in Nat, NEW b \in Nat, NEW c \in Nat, a <= b
  PROVE  a * c <= b * c
  <1>1. PICK k \in Nat : b = a + k
    BY b - a \in Nat
  <1>2. b * c = a * c + k * c /\ k * c \in Nat /\ a * c \in Nat
    BY <1>1
  <1> QED
    BY <1>2

LEMMA BoundIsNat == StepBound \in Nat
  BY BoundsAssumption DEF StepBound

\* The attempts that a step may have take no longer than its bound.
LEMMA SpentWithinBound ==
  ASSUME NEW n \in 0 .. 1 + MAX_STEP_RETRIES
  PROVE  spent(n) \in Nat /\ spent(n) <= StepBound
  <1>1. CASE n = 0
    BY <1>1, BoundIsNat DEF spent
  <1>2. CASE n # 0
    <2>1. n \in Nat /\ n - 1 \in Nat /\ n <= 1 + MAX_STEP_RETRIES /\ n - 1 <= MAX_STEP_RETRIES
      BY <1>2, BoundsAssumption
    <2>2. n * DEFAULT_STEP_TIMEOUT <= (1 + MAX_STEP_RETRIES) * DEFAULT_STEP_TIMEOUT
      BY <2>1, ProductGrows, BoundsAssumption, 1 + MAX_STEP_RETRIES \in Nat
    <2>3. (n - 1) * MAX_RETRY_DELAY <= MAX_STEP_RETRIES * MAX_RETRY_DELAY
      BY <2>1, ProductGrows, BoundsAssumption
    <2>4. /\ n * DEFAULT_STEP_TIMEOUT \in Nat /\ (n - 1) * MAX_RETRY_DELAY \in Nat
          /\ (1 + MAX_STEP_RETRIES) * DEFAULT_STEP_TIMEOUT \in Nat
          /\ MAX_STEP_RETRIES * MAX_RETRY_DELAY \in Nat
      BY <2>1, BoundsAssumption
    <2> QED
      BY <1>2, <2>2, <2>3, <2>4 DEF spent, StepBound
  <1> QED
    BY <1>1, <1>2

\* One attempt more takes the limit of an attempt and the longest delay.
LEMMA SpentGrows ==
  ASSUME NEW n \in Nat \ {0}
  PROVE  spent(n + 1) = spent(n) + DEFAULT_STEP_TIMEOUT + MAX_RETRY_DELAY
  <1>1. (n + 1) * DEFAULT_STEP_TIMEOUT = n * DEFAULT_STEP_TIMEOUT + DEFAULT_STEP_TIMEOUT
    BY BoundsAssumption
  <1>2. n * MAX_RETRY_DELAY = (n - 1) * MAX_RETRY_DELAY + MAX_RETRY_DELAY
    BY BoundsAssumption
  <1>3. (n + 1) - 1 = n /\ n + 1 # 0
    OBVIOUS
  <1>4. /\ n * DEFAULT_STEP_TIMEOUT \in Nat /\ n * MAX_RETRY_DELAY \in Nat
        /\ (n - 1) * MAX_RETRY_DELAY \in Nat
    BY n - 1 \in Nat, BoundsAssumption
  <1> QED
    BY <1>1, <1>2, <1>3, <1>4, BoundsAssumption DEF spent

-----------------------------------------------------------------------------
(* What a step that ends leaves behind. *)

\* The record of a step counts its failure, and moves on to the next.
LEMMA Recorded ==
  ASSUME IInv, NEW status \in Statuses, record(status), Len(results) < Count, steps' = steps
  PROVE  /\ results' \in Seq(Statuses) /\ Len(results') = Len(results) + 1
         /\ \A s \in 1 .. Len(results) : results'[s] = results[s]
         /\ results'[current] = status
         /\ attempt' = 0 /\ pc' \in {"over", "next"}
         /\ pc' = "next" => Len(results') < Count
         /\ hardFailed' \in BOOLEAN
         /\ \A s \in 1 .. current : hardFailedBefore(s)' <=> hardFailedBefore(s)
         /\ (hardFailed <=> hardFailedBefore(current))'
  <1>1. results \in Seq(Statuses) /\ hardFailed \in BOOLEAN
    BY DEF IInv, TypeOK
  <1>2. /\ results' \in Seq(Statuses) /\ Len(results') = Len(results) + 1
        /\ \A s \in 1 .. Len(results) : results'[s] = results[s]
        /\ results'[current] = status
    BY <1>1 DEF record, current
  <1>3. /\ attempt' = 0 /\ pc' \in {"over", "next"}
        /\ pc' = "next" => Len(results') < Count
    BY <1>1, <1>2, CountAssumption DEF record
  <1>4. Len(results) \in Nat /\ current = Len(results) + 1 /\ current' = Len(results) + 2
    BY <1>1, <1>2 DEF current
  <1>5. \A s \in 1 .. current : hardFailedBefore(s)' <=> hardFailedBefore(s)
    <2> SUFFICES ASSUME NEW s \in 1 .. current PROVE hardFailedBefore(s)' <=> hardFailedBefore(s)
      OBVIOUS
    <2>1. \A r \in 1 .. s - 1 : r \in 1 .. Len(results) /\ results'[r] = results[r]
      BY <1>2, <1>4
    <2> QED
      BY <2>1 DEF hardFailedBefore
  <1>6. (hardFailed <=> hardFailedBefore(current))'
    <2>1. hardFailed <=> hardFailedBefore(current)
      BY DEF IInv, Shape
    <2>2. hardFailed' <=> (hardFailed \/ (status = "failed" /\ ~steps[current].continue_on_error))
      BY DEF record, hardFail, step
    <2>3. hardFailedBefore(current)' <=>
            \E r \in 1 .. Len(results) + 1 : results'[r] = "failed" /\ ~steps[r].continue_on_error
      BY <1>4, (Len(results) + 2) - 1 = Len(results) + 1 DEF hardFailedBefore
    <2>4. hardFailedBefore(current) <=>
            \E r \in 1 .. Len(results) : results[r] = "failed" /\ ~steps[r].continue_on_error
      BY <1>4, (Len(results) + 1) - 1 = Len(results) DEF hardFailedBefore
    <2>5. \A r : r \in 1 .. Len(results) + 1 <=> (r \in 1 .. Len(results) \/ r = current)
      BY <1>4
    <2> QED
      BY <1>2, <2>1, <2>2, <2>3, <2>4, <2>5
  <1>7. hardFailed' \in BOOLEAN
    BY <1>1 DEF record, hardFail
  <1> QED
    BY <1>2, <1>3, <1>5, <1>6, <1>7


\* What a step that ends owes: its record is added, its time is paid, and what the
\* results say of it is so.
LEMMA StepEnds ==
  ASSUME IInv, NEW status \in Statuses, record(status), Len(results) < Count,
         pc \notin {"load", "refused"},
         UNCHANGED <<steps, declared, given, environment>>,
         elapsed' \in Nat, heedful => elapsed' <= Len(results) * StepBound + spent(attempt),
         attempt \in 0 .. 1 + MAX_STEP_RETRIES,
         launched' = launched, succeeded' \in [1 .. Count -> Nat],
         \A s \in 1 .. Count : s # current => succeeded'[s] = succeeded[s],
         status = "passed" => launched[current] \in 1 .. maxAttempts(step)
                                /\ succeeded'[current] = 1,
         status = "failed" => launched[current] \in {0, maxAttempts(step)}
                                /\ succeeded'[current] = 0,
         status = "skipped" => launched[current] = 0,
         status = "skipped" <=> skips(step)
  PROVE  IInv'
  <1>1. /\ results' \in Seq(Statuses) /\ Len(results') = Len(results) + 1
        /\ \A s \in 1 .. Len(results) : results'[s] = results[s]
        /\ results'[current] = status
        /\ attempt' = 0 /\ pc' \in {"over", "next"}
        /\ pc' = "next" => Len(results') < Count
        /\ hardFailed' \in BOOLEAN
        /\ \A s \in 1 .. current : hardFailedBefore(s)' <=> hardFailedBefore(s)
        /\ (hardFailed <=> hardFailedBefore(current))'
    BY Recorded
  <1>2. Len(results) \in Nat /\ current = Len(results) + 1 /\ current' = Len(results) + 2
    BY <1>1 DEF current, IInv, TypeOK
  <1>3. TypeOK'
    <2>1. Len(results') <= Count /\ Len(results') \in Nat
      BY <1>1, <1>2, CountAssumption
    <2>2. pc' \notin {"running", "retrying"} /\ attempt' \in Nat
      BY <1>1
    <2>3. /\ steps' \in [1 .. Count -> Definitions]
          /\ declared' \in SUBSET Params /\ given' \in SUBSET Params
          /\ environment' \in [Variables -> Origins]
          /\ launched' \in [1 .. Count -> Nat]
      BY DEF IInv, TypeOK
    <2> QED
      BY <1>1, <2>1, <2>2, <2>3 DEF TypeOK
  <1>4. Shape'
    <2>1. checked'
      BY DEF IInv, Shape, checked, collides
    <2>2. \A s \in 1 .. Count : s > current' => succeeded'[s] = 0
      BY <1>2 DEF IInv, Shape
    <2> QED
      BY <1>1, <2>1, <2>2 DEF Shape, under
  <1>5. StageTimeIsBounded'
    <2>1. spent(attempt) <= StepBound /\ spent(attempt) \in Nat
      BY SpentWithinBound
    <2>2. (Len(results) + 1) * StepBound = Len(results) * StepBound + StepBound
      BY <1>2, BoundIsNat
    <2>3. Len(results) * StepBound \in Nat
      BY <1>2, BoundIsNat
    <2>4. spent(attempt') = 0
      BY <1>1 DEF spent
    <2>5. heedful => elapsed' <= (Len(results) + 1) * StepBound
      BY <2>1, <2>2, <2>3, BoundIsNat
    <2>6. heedful => elapsed' <= Len(results') * StepBound + 0
      BY <1>1, <2>2, <2>3, <2>5, BoundIsNat
    <2>7. /\ StepBound' = StepBound /\ spent(attempt)' = spent(attempt')
          /\ heedful' = heedful
      BY DEF StepBound, spent, heedful
    <2> QED
      BY <2>4, <2>6, <2>7 DEF StageTimeIsBounded
  <1>6. TimeLeft'
    BY <1>1 DEF TimeLeft
  <1>7. ResultsTellEffects'
    <2> SUFFICES ASSUME NEW s \in 1 .. Count
                 PROVE  /\ s > current' => launched'[s] = 0
                        /\ s = current' => launched'[s] = attempt' /\ succeeded'[s] = 0
                        /\ s < current' =>
                             /\ results'[s] = "passed" =>
                                  launched'[s] \in 1 .. maxAttempts(steps[s]) /\ succeeded'[s] = 1
                             /\ results'[s] = "failed" =>
                                  launched'[s] \in {0, maxAttempts(steps[s])} /\ succeeded'[s] = 0
                             /\ results'[s] = "skipped" => launched'[s] = 0
                             /\ results'[s] = "skipped" <=>
                                  hardFailedBefore(s)' /\ ~steps[s].always_run
      BY DEF ResultsTellEffects, maxAttempts, externalInt, clampToRange
    <2>1. CASE s < current
      <3>1. s \in 1 .. Len(results)
        BY <1>2, <2>1
      <3> QED
        BY <1>1, <1>2, <2>1, <3>1 DEF IInv, ResultsTellEffects
    <2>2. CASE s = current
      <3>1. hardFailed <=> hardFailedBefore(current)
        BY DEF IInv, Shape
      <3>2. hardFailedBefore(s)' <=> hardFailedBefore(s)
        BY <1>1, <1>2, <2>2
      <3> QED
        BY <1>1, <1>2, <2>2, <3>1, <3>2 DEF step, skips
    <2>3. CASE s > current
      <3>1. launched[s] = 0 /\ s # current
        BY <2>3, <1>2 DEF IInv, ResultsTellEffects
      <3>2. succeeded[s] = 0
        BY <2>3 DEF IInv, Shape
      <3> QED
        BY <1>1, <1>2, <2>3, <3>1, <3>2
    <2> QED
      BY <1>2, <2>1, <2>2, <2>3
  <1>8. DeclaredValuesArrive'
    BY <1>1 DEF DeclaredValuesArrive
  <1> QED
    BY <1>3, <1>4, <1>5, <1>6, <1>7, <1>8 DEF IInv


-----------------------------------------------------------------------------
(* Launching a command. *)

\* A declared parameter that has a value has its variable in a command that names
\* declared parameters only: nothing else is passed in it.
LEMMA ValueArrives ==
  ASSUME NEW d \in StepDefinition, TypeOK, checked, NEW f \in paramEnvs(d),
         NEW p \in declared \intersect (given \union {Target}), d.uses[p] # "no",
         \A q \in Params \ declared : d.uses[q] = "no"
  PROVE  overlay(d, f)[EnvName[p]] = IF p = Target THEN "target" ELSE p
  <1> DEFINE here(v) == {q \in Params : d.uses[q] # "no" /\ EnvName[q] = v}
  <1>1. p \in Params /\ EnvName[p] \in Variables /\ p \notin {"target", "fallback", "own", "unset"}
    BY NamesAssumption DEF TypeOK
  <1>2. here(EnvName[p]) = {p}
    BY <1>1 DEF checked, collides
  <1>3. here(EnvName[p]) # {} => \E q \in here(EnvName[p]) : f[EnvName[p]] = boundValue(q)
    BY <1>1 DEF paramEnvs
  <1>4. f[EnvName[p]] = IF p = Target THEN "target" ELSE p
    BY <1>2, <1>3 DEF boundValue
  <1> QED
    BY <1>1, <1>4 DEF overlay

\* The variables of a command are from where a variable may be from.
LEMMA EnvironmentTyped ==
  ASSUME NEW d \in StepDefinition, NEW f \in paramEnvs(d)
  PROVE  overlay(d, f) \in [Variables -> Origins]
  <1>1. f \in [Variables -> Origins \ {"own"}]
    BY DEF paramEnvs
  <1> QED
    BY <1>1 DEF overlay, Origins

\* A command that is launched, as an attempt that the step has left.
LEMMA Launches ==
  ASSUME IInv, launch, pc \in {"next", "retrying"}, ~skips(step),
         UNCHANGED <<steps, declared, given, results, hardFailed, succeeded>>,
         attempt' = attempt + 1, attempt + 1 \in 1 .. maxAttempts(step),
         elapsed' \in Nat,
         heedful =>
           elapsed' + DEFAULT_STEP_TIMEOUT <= Len(results) * StepBound + spent(attempt + 1)
  PROVE  IInv'
  <1>1. Len(results) < Count /\ step \in StepDefinition /\ current \in 1 .. Count
    BY StepDefined DEF IInv, TypeOK
  <1>2. PICK f \in paramEnvs(step) : environment' = overlay(step, f)
    BY DEF launch
  <1>3. pc' = "running" /\ launched' = [launched EXCEPT ![current] = @ + 1]
    BY DEF launch
  <1>4. current' = current /\ step' = step
    BY DEF current, step
  <1>5. maxAttempts(step)' = maxAttempts(step)
    BY <1>4 DEF maxAttempts
  <1>6. TypeOK'
    <2>1. environment' \in [Variables -> Origins]
      BY <1>1, <1>2, EnvironmentTyped
    <2>2. attempt' \in Nat
      BY DEF IInv, TypeOK
    <2>3. launched' \in [1 .. Count -> Nat]
      BY <1>1, <1>3 DEF IInv, TypeOK
    <2> QED
      BY <1>1, <1>3, <2>1, <2>2, <2>3 DEF IInv, TypeOK
  <1>7. Shape'
    <2>1. skips(step)' <=> skips(step)
      BY <1>4 DEF skips
    <2>2. checked' /\ (hardFailedBefore(current)' <=> hardFailedBefore(current))
      BY <1>4 DEF IInv, Shape, checked, collides, hardFailedBefore
    <2>3. attempt' \in 1 .. maxAttempts(step)'
      BY <1>5
    <2> QED
      BY <1>3, <1>4, <2>1, <2>2, <2>3 DEF IInv, Shape, under
  <1>8. StageTimeIsBounded' /\ TimeLeft'
    <2>1. /\ StepBound' = StepBound /\ spent(attempt)' = spent(attempt + 1)
          /\ heedful' = heedful
      BY DEF StepBound, spent, heedful
    <2>2. Len(results) * StepBound \in Nat
      BY <1>1, BoundIsNat DEF IInv, TypeOK
    <2>3. spent(attempt + 1) \in Nat
      BY <1>1, BoundsInRange, SpentWithinBound, BoundsAssumption
    <2> QED
      BY <2>1, <2>2, <2>3, BoundsAssumption DEF StageTimeIsBounded, TimeLeft
  <1>9. ResultsTellEffects'
    <2>1. \A s \in 1 .. Count : launched'[s] = IF s = current THEN launched[s] + 1 ELSE launched[s]
      BY <1>3 DEF IInv, TypeOK
    <2>2. \A s : hardFailedBefore(s)' <=> hardFailedBefore(s)
      BY DEF hardFailedBefore
    <2>3. \A d : maxAttempts(d)' = maxAttempts(d)
      BY DEF maxAttempts, externalInt, clampToRange
    <2>4. \A s \in 1 .. Count : s \in Int
      BY CountAssumption
    <2> SUFFICES ASSUME NEW s \in 1 .. Count
                 PROVE  /\ s > current => launched'[s] = 0
                        /\ s = current => launched'[s] = attempt' /\ succeeded[s] = 0
                        /\ s < current =>
                             /\ results[s] = "passed" =>
                                  launched'[s] \in 1 .. maxAttempts(steps[s]) /\ succeeded[s] = 1
                             /\ results[s] = "failed" =>
                                  launched'[s] \in {0, maxAttempts(steps[s])} /\ succeeded[s] = 0
                             /\ results[s] = "skipped" => launched'[s] = 0
                             /\ results[s] = "skipped" <=>
                                  hardFailedBefore(s) /\ ~steps[s].always_run
      BY <1>4, <2>2, <2>3 DEF ResultsTellEffects
    <2> QED
      BY <1>1, <2>1, <2>4 DEF IInv, ResultsTellEffects
  <1>10. DeclaredValuesArrive'
    <2>1. checked
      BY DEF IInv, Shape
    <2> SUFFICES ASSUME NEW p \in declared \intersect (given \union {Target}),
                        step.uses[p] # "no",
                        \A q \in Params \ declared : step.uses[q] = "no"
                 PROVE  environment'[EnvName[p]] = IF p = Target THEN "target" ELSE p
      BY <1>4 DEF DeclaredValuesArrive
    <2> QED
      BY <1>1, <1>2, <2>1, ValueArrives DEF IInv
  <1> QED
    BY <1>6, <1>7, <1>8, <1>9, <1>10 DEF IInv

-----------------------------------------------------------------------------
(* The invariant. *)

LEMMA InitIInv == Init => IInv
  <1> SUFFICES ASSUME Init PROVE IInv
    OBVIOUS
  <1>1. Len(results) = 0 /\ current = 1 /\ results \in Seq(Statuses)
    BY DEF Init, current
  <1>2. TypeOK
    <2>1. launched \in [1 .. Count -> Nat] /\ succeeded \in [1 .. Count -> Nat]
      BY DEF Init
    <2>2. environment \in [Variables -> Origins]
      BY DEF Init, Origins
    <2>3. Len(results) <= Count
      BY <1>1, CountAssumption
    <2>4. hardFailed \in BOOLEAN
      BY DEF Init
    <2>5. pc = "load" /\ attempt \in Nat /\ elapsed \in Nat
      BY DEF Init
    <2>6. /\ steps \in [1 .. Count -> Definitions]
          /\ declared \in SUBSET Params /\ given \in SUBSET Params
      BY DEF Init
    <2> QED
      BY <1>1, <2>1, <2>2, <2>3, <2>4, <2>5, <2>6 DEF TypeOK
  <1>3. Shape
    BY <1>1, CountAssumption DEF Init, Shape, under, hardFailedBefore
  <1>4. StageTimeIsBounded /\ TimeLeft
    BY <1>1, BoundIsNat DEF Init, StageTimeIsBounded, TimeLeft, spent
  <1>5. ResultsTellEffects
    BY <1>1, CountAssumption DEF Init, ResultsTellEffects
  <1>6. DeclaredValuesArrive
    BY DEF Init, DeclaredValuesArrive
  <1> QED
    BY <1>2, <1>3, <1>4, <1>5, <1>6 DEF IInv

LEMMA NextIInv == IInv /\ [Next]_vars => IInv'
  <1> SUFFICES ASSUME IInv, [Next]_vars PROVE IInv'
    OBVIOUS
  <1>0. /\ TypeOK /\ Shape
        /\ Len(results) \in Nat /\ attempt \in Nat /\ elapsed \in Nat
        /\ Len(results) * StepBound \in Nat
    BY BoundIsNat DEF IInv, TypeOK
  <1>1. CASE Load
    <2>1. /\ UNCHANGED <<steps, declared, given, results, hardFailed, attempt, environment, launched,
                         succeeded, elapsed>>
          /\ pc = "load" /\ pc' \in {"refused", "over", "next"}
          /\ pc' # "refused" => checked
          /\ pc' = "next" => Count # 0
      BY <1>1 DEF Load
    <2>2. attempt = 0 /\ results = <<>> /\ Len(results) = 0
      BY <1>0, <2>1 DEF Shape, under
    <2>3. TypeOK'
      BY <1>0, <2>1, <2>2, CountAssumption DEF TypeOK
    <2>4. Shape'
      BY <1>0, <2>1, <2>2 DEF Shape, under, checked, collides, hardFailedBefore, current
    <2>5. StageTimeIsBounded' /\ TimeLeft'
      BY <2>1 DEF IInv, StageTimeIsBounded, TimeLeft, StepBound, spent, heedful
    <2>6. ResultsTellEffects'
      BY <2>1 DEF IInv, ResultsTellEffects, current, hardFailedBefore, maxAttempts, externalInt,
         clampToRange
    <2>7. DeclaredValuesArrive'
      BY <2>1 DEF DeclaredValuesArrive
    <2> QED
      BY <2>3, <2>4, <2>5, <2>6, <2>7 DEF IInv
  <1>2. CASE Skip
    <2>1. /\ pc = "next" /\ skips(step) /\ record("skipped")
          /\ UNCHANGED <<steps, declared, given, environment, launched, succeeded, elapsed>>
      BY <1>2 DEF Skip
    <2>2. Len(results) < Count /\ current \in 1 .. Count /\ attempt = 0
      BY <1>0, <2>1, StepDefined DEF TypeOK, Shape, under
    <2>3. launched[current] = 0
      BY <2>2 DEF IInv, ResultsTellEffects
    <2> QED
      BY <1>0, <2>1, <2>2, <2>3, StepEnds, BoundsAssumption DEF Statuses, TypeOK, IInv,
         StageTimeIsBounded
  <1>3. CASE Refuse
    <2>1. /\ pc = "next" /\ ~skips(step) /\ record("failed")
          /\ UNCHANGED <<steps, declared, given, environment, launched, succeeded, elapsed>>
      BY <1>3 DEF Refuse
    <2>2. Len(results) < Count /\ current \in 1 .. Count /\ attempt = 0
      BY <1>0, <2>1, StepDefined DEF TypeOK, Shape, under
    <2>3. launched[current] = 0 /\ succeeded[current] = 0
      BY <2>2 DEF IInv, ResultsTellEffects
    <2> QED
      BY <1>0, <2>1, <2>2, <2>3, StepEnds, BoundsAssumption DEF Statuses, TypeOK, IInv,
         StageTimeIsBounded
  <1>4. CASE Launch
    <2>1. /\ pc = "next" /\ ~skips(step) /\ launch /\ attempt' = 1
          /\ UNCHANGED <<steps, declared, given, results, hardFailed, succeeded, elapsed>>
      BY <1>4 DEF Launch
    <2>2. Len(results) < Count /\ step \in StepDefinition /\ attempt = 0
      BY <1>0, <2>1, StepDefined DEF TypeOK, Shape, under
    <2>3. 1 \in 1 .. maxAttempts(step)
      BY <2>2, BoundsInRange, BoundsAssumption
    <2>4. heedful => elapsed <= Len(results) * StepBound + 0
      BY <2>2 DEF IInv, StageTimeIsBounded, spent
    <2>5. spent(1) = DEFAULT_STEP_TIMEOUT
      BY BoundsAssumption DEF spent
    <2> QED
      BY <1>0, <2>1, <2>2, <2>3, <2>4, <2>5, Launches, BoundsAssumption
  <1>5. CASE End
    <2>1. PICK end \in Ends, output \in Outputs, time \in 0 .. DEFAULT_STEP_TIMEOUT + LINGER :
            LET status == IF passes(step, end, output) THEN "passed" ELSE "failed" IN
            /\ takes(step, end, time)
            /\ elapsed' = elapsed + time
            /\ succeeded' = [succeeded EXCEPT ![current] = IF status = "passed" THEN @ + 1 ELSE @]
            /\ \/ settles(step, status) /\ record(status)
               \/ ~settles(step, status) /\ pc' = "retrying"
                  /\ UNCHANGED <<results, hardFailed, attempt>>
      BY <1>5 DEF End
    <2> DEFINE status == IF passes(step, end, output) THEN "passed" ELSE "failed"
    <2>2. /\ pc = "running"
          /\ UNCHANGED <<steps, declared, given, environment, launched>>
      BY <1>5 DEF End
    <2>3. Len(results) < Count /\ step \in StepDefinition /\ current \in 1 .. Count
      BY <1>0, <2>2, StepDefined DEF TypeOK
    <2>4. /\ attempt \in 1 .. maxAttempts(step) /\ maxAttempts(step) \in 1 .. 1 + MAX_STEP_RETRIES
          /\ ~skips(step)
      BY <1>0, <2>2, <2>3, BoundsInRange DEF Shape, under
    <2>5. spent(attempt) \in Nat
      BY <2>4, SpentWithinBound, BoundsAssumption
    <2>6. /\ elapsed' \in Nat
          /\ heedful => elapsed' <= Len(results) * StepBound + spent(attempt)
      <3>1. elapsed' = elapsed + time /\ time \in Nat
        BY <2>1, BoundsAssumption
      <3>2. heedful => time <= DEFAULT_STEP_TIMEOUT
        <4>1. heedful => ~step.stubborn
          BY <2>3 DEF heedful, step
        <4>2. clampModelBound(step.timeout) \in 1 .. DEFAULT_STEP_TIMEOUT
          BY <2>3, BoundsInRange
        <4> QED
          BY <2>1, <4>1, <4>2, BoundsAssumption DEF takes
      <3>3. heedful => elapsed + DEFAULT_STEP_TIMEOUT <= Len(results) * StepBound + spent(attempt)
        BY <2>2 DEF IInv, TimeLeft
      <3>4. Len(results) * StepBound \in Nat
        BY <1>0, BoundIsNat DEF TypeOK
      <3> QED
        BY <1>0, <2>5, <3>1, <3>2, <3>3, <3>4, BoundsAssumption
    <2>7. launched[current] = attempt /\ succeeded[current] = 0
      BY <2>3 DEF IInv, ResultsTellEffects
    <2>8. /\ succeeded' \in [1 .. Count -> Nat]
          /\ \A s \in 1 .. Count : s # current => succeeded'[s] = succeeded[s]
          /\ succeeded'[current] = IF status = "passed" THEN 1 ELSE 0
      BY <1>0, <2>1, <2>3, <2>7 DEF TypeOK
    <2>9. CASE settles(step, status) /\ record(status)
      <3>1. status = "failed" => launched[current] = maxAttempts(step)
        BY <2>4, <2>7, <2>9 DEF settles
      <3>2. status \in Statuses /\ status # "skipped" /\ attempt \in 0 .. 1 + MAX_STEP_RETRIES
        BY <2>4, BoundsAssumption DEF Statuses
      <3>3. status = "passed" => launched[current] \in 1 .. maxAttempts(step) /\ succeeded'[current] = 1
        BY <2>4, <2>7, <2>8
      <3>4. status = "failed" => launched[current] \in {0, maxAttempts(step)} /\ succeeded'[current] = 0
        BY <2>8, <3>1
      <3> HIDE DEF status
      <3> QED
        BY <2>2, <2>3, <2>4, <2>6, <2>8, <2>9, <3>2, <3>3, <3>4, StepEnds
    <2>10. CASE ~settles(step, status) /\ pc' = "retrying" /\ UNCHANGED <<results, hardFailed, attempt>>
      <3>1. status = "failed" /\ attempt < maxAttempts(step)
        BY <2>4, <2>10 DEF settles
      <3>2. succeeded' = succeeded
        <4>1. \A s \in 1 .. Count : succeeded'[s] = succeeded[s]
          BY <2>7, <2>8, <3>1
        <4>2. succeeded = [s \in 1 .. Count |-> succeeded[s]]
          BY <1>0 DEF TypeOK
        <4>3. succeeded' = [s \in 1 .. Count |-> succeeded'[s]]
          BY <2>8
        <4> QED
          BY <4>1, <4>2, <4>3
      <3>3. current' = current /\ step' = step /\ maxAttempts(step)' = maxAttempts(step)
        BY <2>2, <2>10 DEF current, step, maxAttempts
      <3>4. TypeOK'
        BY <1>0, <2>2, <2>3, <2>6, <2>8, <2>10 DEF TypeOK
      <3>5. Shape'
        <4>1. attempt \in 1 .. maxAttempts(step) - 1
          BY <2>4, <3>1
        <4>2. ~skips(step)' /\ checked' /\ (hardFailedBefore(current)' <=> hardFailedBefore(current))
          BY <1>0, <2>2, <2>4, <2>10, <3>3 DEF skips, Shape, checked, collides, hardFailedBefore
        <4> QED
          BY <1>0, <2>2, <2>10, <3>2, <3>3, <4>1, <4>2 DEF Shape, under
      <3>6. StageTimeIsBounded' /\ TimeLeft'
        BY <2>2, <2>6, <2>10 DEF StageTimeIsBounded, TimeLeft, StepBound, spent, heedful
      <3>7. ResultsTellEffects'
        BY <2>2, <2>10, <3>2, <3>3 DEF IInv, ResultsTellEffects, hardFailedBefore, maxAttempts,
           externalInt, clampToRange
      <3>8. DeclaredValuesArrive'
        BY <2>10 DEF DeclaredValuesArrive
      <3> QED
        BY <3>4, <3>5, <3>6, <3>7, <3>8 DEF IInv
    <2> QED
      BY <2>1, <2>9, <2>10
  <1>6. CASE Retry
    <2>1. /\ pc = "retrying" /\ launch /\ attempt' = attempt + 1
          /\ elapsed' = elapsed + retryDelay(step)
          /\ UNCHANGED <<steps, declared, given, results, hardFailed, succeeded>>
      BY <1>6 DEF Retry
    <2>2. Len(results) < Count /\ step \in StepDefinition
      BY <1>0, <2>1, StepDefined DEF TypeOK
    <2>3. /\ attempt \in 1 .. maxAttempts(step) - 1 /\ ~skips(step)
          /\ maxAttempts(step) \in 1 .. 1 + MAX_STEP_RETRIES
          /\ retryDelay(step) \in 0 .. MAX_RETRY_DELAY
      BY <1>0, <2>1, <2>2, BoundsInRange DEF Shape, under
    <2>4. attempt + 1 \in 1 .. maxAttempts(step) /\ attempt \in Nat \ {0}
          /\ attempt \in 0 .. 1 + MAX_STEP_RETRIES
      BY <2>3, BoundsAssumption
    <2>5. spent(attempt + 1) = spent(attempt) + DEFAULT_STEP_TIMEOUT + MAX_RETRY_DELAY
      BY <2>4, SpentGrows
    <2>6. spent(attempt) \in Nat
      BY <2>4, SpentWithinBound
    <2>7. elapsed' \in Nat /\ elapsed' <= elapsed + MAX_RETRY_DELAY
      BY <1>0, <2>1, <2>3, BoundsAssumption
    <2>8. heedful => elapsed <= Len(results) * StepBound + spent(attempt)
      BY DEF IInv, StageTimeIsBounded
    <2>9. heedful =>
            elapsed' + DEFAULT_STEP_TIMEOUT <= Len(results) * StepBound + spent(attempt + 1)
      BY <1>0, <2>5, <2>6, <2>7, <2>8, BoundsAssumption
    <2> QED
      BY <2>1, <2>3, <2>4, <2>7, <2>9, Launches
  <1>7. CASE UNCHANGED vars
    BY <1>7 DEF vars, IInv, TypeOK, Shape, under, StageTimeIsBounded, TimeLeft, ResultsTellEffects,
       DeclaredValuesArrive, current, step, skips, checked, collides, hardFailedBefore, maxAttempts,
       externalInt, clampToRange, StepBound, spent, heedful
  <1> QED
    BY <1>1, <1>2, <1>3, <1>4, <1>5, <1>6, <1>7 DEF Next

\* The inductive invariant holds in every state of a steps stage (IInv).
THEOREM Invariance == Spec => []IInv
  BY InitIInv, NextIInv, PTL DEF Spec

\* Every variable of a steps stage keeps its type, for any definitions (TypeOK).
THEOREM TypeCorrect == Spec => []TypeOK
  BY Invariance, PTL DEF IInv

\* However bounds are authored, a stage whose commands end when they are signalled
\* takes no longer than the limits of the executor allow its steps together
\* (StageTimeIsBounded, StepsExecutor.ts).
THEOREM TimeBounded == Spec => []StageTimeIsBounded
  BY Invariance, PTL DEF IInv

\* What a result says of a step is what happened to its command (ResultsTellEffects).
THEOREM ResultsTell == Spec => []ResultsTellEffects
  BY Invariance, PTL DEF IInv

\* A declared parameter reaches the command with the caller's value, and target with
\* the path of the run's target (DeclaredValuesArrive, execute).
THEOREM ValuesArrive == Spec => []DeclaredValuesArrive
  BY Invariance, PTL DEF IInv

-----------------------------------------------------------------------------
(* Numbers and lists. *)

\* A set of numbers that has one has a least one.
LEMMA LeastNat ==
  ASSUME NEW S \in SUBSET Nat, S # {}
  PROVE  \E m \in S : \A n \in S : m <= n
  <1> DEFINE R == {ss \in Nat \X Nat : ss[1] < ss[2]}
  <1>1. IsWellFoundedOn(R, Nat)
    BY NatLessThanWellFounded DEF OpToRel
  <1>2. \A x, y \in Nat : <<y, x>> \in R <=> y < x
    OBVIOUS
  <1> HIDE DEF R
  <1>3. PICK x \in S : \A y \in S : ~ (<<y, x>> \in R)
    BY <1>1, WFMin
  <1>4. \A y \in S : ~(y < x)
    BY <1>2, <1>3
  <1>5. \A y \in S : x <= y
    BY <1>4
  <1> QED
    BY <1>5

\* Induction: a set of numbers with 0 and the successors of its elements is
\* all of them.
LEMMA Induction ==
  ASSUME NEW S \in SUBSET Nat, 0 \in S, \A n \in S : n + 1 \in S
  PROVE  S = Nat
  <1> SUFFICES ASSUME Nat \ S # {} PROVE FALSE
    OBVIOUS
  <1>1. PICK m \in Nat \ S : \A n \in Nat \ S : m <= n
    BY LeastNat
  <1>2. m - 1 \in S /\ m # 0
    BY <1>1
  <1> QED
    BY <1>1, <1>2

isList(s) == s \in Seq(Range(s))

LEMMA ListBasics ==
  ASSUME NEW s, isList(s)
  PROVE  /\ Len(s) \in Nat /\ DOMAIN s = 1..Len(s)
         /\ s \in [1..Len(s) -> Range(s)]
         /\ Len(s) = 0 <=> s = <<>>
  <1>1. s \in Seq(Range(s))
    BY DEF isList
  <1>2. Len(s) \in Nat /\ s \in [1..Len(s) -> Range(s)] /\ DOMAIN s = 1..Len(s)
    BY <1>1, LenProperties
  <1>3. Len(s) = 0 <=> s = <<>>
    BY <1>1, EmptySeq
  <1> QED
    BY <1>2, <1>3

\* A function on an initial segment is a list, as long as the segment.
LEMMA ListOf ==
  ASSUME NEW S, NEW n \in Nat, NEW f \in [1..n -> S]
  PROVE  f \in Seq(S) /\ Len(f) = n
  OBVIOUS

LEMMA SeqIsList ==
  ASSUME NEW S, NEW s \in Seq(S)
  PROVE  isList(s) /\ Range(s) \subseteq S
  <1>1. Len(s) \in Nat /\ s \in [1..Len(s) -> S] /\ DOMAIN s = 1..Len(s)
    BY LenProperties
  <1>2. s \in [1..Len(s) -> Range(s)]
    BY <1>1 DEF Range
  <1>3. s \in Seq(Range(s))
    BY <1>1, <1>2, ListOf
  <1> QED
    BY <1>1, <1>3 DEF Range, isList

LEMMA ListIn ==
  ASSUME NEW s, isList(s), NEW S, Range(s) \subseteq S
  PROVE  s \in Seq(S)
  <1>1. s \in Seq(Range(s))
    BY DEF isList
  <1>2. Len(s) \in Nat /\ s \in [1..Len(s) -> Range(s)]
    BY <1>1, LenProperties
  <1>3. s \in [1..Len(s) -> S]
    BY <1>2
  <1> QED
    BY <1>2, <1>3, ListOf

LEMMA EmptyList == isList(<<>>) /\ Range(<<>>) = {}
  BY DEF isList, Range

LEMMA SingletonList ==
  ASSUME NEW x
  PROVE  isList(<<x>>) /\ Range(<<x>>) = {x}
  <1>1. <<x>> \in Seq({x}) /\ DOMAIN <<x>> = 1..1 /\ <<x>>[1] = x
    OBVIOUS
  <1>2. Range(<<x>>) = {x}
    BY <1>1 DEF Range
  <1> QED
    BY <1>1, <1>2, SeqIsList

\* One list after another, and one more element.
LEMMA ConcatList ==
  ASSUME NEW s, isList(s), NEW t, isList(t)
  PROVE  isList(s \o t) /\ Range(s \o t) = Range(s) \union Range(t)
  <1> DEFINE S == Range(s) \union Range(t)
  <1>1. Range(s) \subseteq S /\ Range(t) \subseteq S
    OBVIOUS
  <1> HIDE DEF S
  <1>2. s \in Seq(S) /\ t \in Seq(S)
    BY <1>1, ListIn
  <1>3. s \o t \in Seq(S)
    BY <1>2, ConcatProperties
  <1>4. isList(s \o t) /\ Range(s \o t) \subseteq S
    BY <1>3, SeqIsList
  <1>5. PICK n \in Nat, m \in Nat : n = Len(s) /\ m = Len(t)
    BY <1>2
  <1>6. /\ Len(s \o t) = n + m
        /\ \A i \in 1..n : (s \o t)[i] = s[i]
        /\ \A i \in n + 1 .. n + m : (s \o t)[i] = t[i - n]
    BY <1>2, <1>5, ConcatProperties
  <1>7. DOMAIN s = 1..n /\ DOMAIN t = 1..m /\ DOMAIN (s \o t) = 1..(n + m)
    BY <1>2, <1>3, <1>5, <1>6
  <1>8. \A i \in DOMAIN s : s[i] \in Range(s \o t)
    <2> TAKE i \in DOMAIN s
    <2>1. i \in 1..n /\ i \in DOMAIN (s \o t)
      BY <1>7
    <2>2. (s \o t)[i] = s[i]
      BY <1>6, <2>1
    <2> QED
      BY <2>1, <2>2 DEF Range
  <1>9. \A i \in DOMAIN t : t[i] \in Range(s \o t)
    <2> TAKE i \in DOMAIN t
    <2>1. n + i \in n + 1 .. n + m /\ n + i \in DOMAIN (s \o t) /\ (n + i) - n = i
      BY <1>7
    <2>2. (s \o t)[n + i] = t[i]
      BY <1>6, <2>1
    <2> QED
      BY <2>1, <2>2 DEF Range
  <1>10. Range(s) \subseteq Range(s \o t) /\ Range(t) \subseteq Range(s \o t)
    BY <1>8, <1>9 DEF Range
  <1> QED
    BY <1>4, <1>10 DEF S

LEMMA AppendList ==
  ASSUME NEW s, isList(s), NEW x
  PROVE  /\ isList(Append(s, x)) /\ Range(Append(s, x)) = Range(s) \union {x}
         /\ Len(Append(s, x)) = Len(s) + 1
         /\ Append(s, x)[Len(s) + 1] = x /\ \A i \in DOMAIN s : Append(s, x)[i] = s[i]
  <1> DEFINE S == Range(s) \union {x}
  <1>1. Range(s) \subseteq S /\ x \in S
    OBVIOUS
  <1> HIDE DEF S
  <1>2. s \in Seq(S)
    BY <1>1, ListIn
  <1>3. PICK n \in Nat : n = Len(s)
    BY <1>2
  <1>4. /\ Append(s, x) \in Seq(S) /\ Len(Append(s, x)) = n + 1
        /\ \A i \in 1..n : Append(s, x)[i] = s[i]
        /\ Append(s, x)[n + 1] = x
    BY <1>1, <1>2, <1>3, AppendProperties
  <1>5. isList(Append(s, x)) /\ Range(Append(s, x)) \subseteq S
    BY <1>4, SeqIsList
  <1>6. DOMAIN s = 1..n /\ DOMAIN Append(s, x) = 1..(n + 1)
    BY <1>2, <1>3, <1>4
  <1>7. S \subseteq Range(Append(s, x))
    <2>1. \A i \in DOMAIN s : s[i] \in Range(Append(s, x))
      <3> TAKE i \in DOMAIN s
      <3>1. i \in 1..n /\ i \in DOMAIN Append(s, x)
        BY <1>6
      <3>2. Append(s, x)[i] = s[i]
        BY <1>4, <3>1
      <3> QED
        BY <3>1, <3>2 DEF Range
    <2>2. n + 1 \in DOMAIN Append(s, x)
      BY <1>6
    <2>3. x \in Range(Append(s, x))
      BY <1>4, <2>2 DEF Range
    <2> QED
      BY <2>1, <2>3 DEF Range, S
  <1> QED
    BY <1>3, <1>4, <1>5, <1>6, <1>7 DEF S

-----------------------------------------------------------------------------
(***************************************************************************)
(* The parser: what it reads is a tree whose references are the ones met,  *)
(* with all the trees in it, each deeper one of a lower rank.              *)
(***************************************************************************)
RefShape(ref) ==
    /\ ref.kind \in {"fault", "param", "passed", "step"}
    /\ ref.kind = "fault" => ref.code \in {"unknown_root", "unknown_path"}

Node(t, nodes, refs, rank) ==
    \/ t.k \in {"ref", "cmp"} /\ t.ref \in refs
    \/ t.k = "not" /\ t.e \in nodes /\ rank[t.e] < rank[t]
    \/ /\ t.k \in {"and", "or"} /\ t.l \in nodes /\ t.r \in nodes
       /\ rank[t.l] < rank[t] /\ rank[t.r] < rank[t]

Ranked(nodes, refs) ==
    \E N \in Nat : \E rank \in [nodes -> 0..N] : \A t \in nodes : Node(t, nodes, refs, rank)

WellRead(p) ==
    p.ok => /\ p.node \in p.nodes
            /\ isList(p.refs) /\ \A ref \in Range(p.refs) : RefShape(ref)
            /\ Ranked(p.nodes, Range(p.refs))

LEMMA Classified == \A segs : RefShape(classify(segs))
  BY DEF classify, RefShape, fault, paramRef, passedRef, stepRef

LEMMA FaultsAreWell == WellRead(SyntaxFault)
  BY DEF WellRead, SyntaxFault

\* A reference, or a comparison of it, is a tree of its own.
LEMMA LeafIsWell ==
  ASSUME NEW ref, RefShape(ref), NEW t, t.k \in {"ref", "cmp"}, t.ref = ref, NEW at
  PROVE  WellRead(parsed(t, {}, at, <<ref>>))
  <1> DEFINE p == parsed(t, {}, at, <<ref>>)
  <1>1. p.node = t /\ p.nodes = {t} /\ p.refs = <<ref>>
    BY DEF parsed
  <1>2. isList(p.refs) /\ Range(p.refs) = {ref}
    BY <1>1, SingletonList
  <1> HIDE DEF p
  <1>3. [x \in {t} |-> 0] \in [{t} -> 0..0]
    OBVIOUS
  <1>4. Ranked({t}, {ref})
    BY <1>3 DEF Ranked, Node
  <1>5. /\ p.node \in p.nodes /\ isList(p.refs) /\ \A r \in Range(p.refs) : RefShape(r)
        /\ Ranked(p.nodes, Range(p.refs))
    BY <1>1, <1>2, <1>4, Zenon
  <1> QED
    BY <1>5 DEF WellRead, p

LEMMA ReferenceIsWell ==
  ASSUME NEW toks, NEW i
  PROVE  LET e == reference(toks, i)
         IN e.ok => \E ref : /\ RefShape(ref) /\ e.refs = <<ref>>
                             /\ e = parsed([k |-> "ref", ref |-> ref], {}, e.at, <<ref>>)
  <1> DEFINE e == reference(toks, i)
  <1> SUFFICES ASSUME e.ok
               PROVE  \E ref : /\ RefShape(ref) /\ e.refs = <<ref>>
                               /\ e = parsed([k |-> "ref", ref |-> ref], {}, e.at, <<ref>>)
    OBVIOUS
  <1>1. e # SyntaxFault
    BY DEF SyntaxFault
  <1>2. \E first, further : e = referenceOf(first, further)
    BY <1>1 DEF reference
  <1>3. PICK first, further : e = referenceOf(first, further)
    BY <1>2
  <1> DEFINE ref == classify(<<first>> \o further.node)
  <1>4. e = parsed([k |-> "ref", ref |-> ref], {}, further.at, <<ref>>)
    BY <1>1, <1>3 DEF referenceOf
  <1>5. e.at = further.at /\ e.refs = <<ref>>
    BY <1>4 DEF parsed
  <1>6. RefShape(ref)
    BY Classified
  <1> HIDE DEF ref, e
  <1> QED
    BY <1>4, <1>5, <1>6

LEMMA ComparisonIsWell ==
  ASSUME NEW toks, NEW i
  PROVE  /\ WellRead(reference(toks, i))
         /\ WellRead(comparison(toks, reference(toks, i)))
  <1> DEFINE e == reference(toks, i)
  <1>1. CASE ~e.ok
    BY <1>1 DEF comparison, WellRead
  <1>2. CASE e.ok
    <2>1. PICK ref : /\ RefShape(ref) /\ e.refs = <<ref>>
                     /\ e = parsed([k |-> "ref", ref |-> ref], {}, e.at, <<ref>>)
      BY <1>2, ReferenceIsWell
    <2> HIDE DEF e
    <2>2. WellRead(e)
      <3>1. WellRead(parsed([k |-> "ref", ref |-> ref], {}, e.at, <<ref>>))
        BY <2>1, LeafIsWell
      <3> QED
        BY <2>1, <3>1, Zenon
    <2>3. e.node = [k |-> "ref", ref |-> ref]
      BY <2>1 DEF parsed
    <2>4. \A op, lit, at : WellRead(parsed([k |-> "cmp", ref |-> e.node.ref, op |-> op,
                                            lit |-> lit], {}, at, e.refs))
      <3> TAKE op, lit, at
      <3>1. e.node.ref = ref
        BY <2>3
      <3>2. WellRead(parsed([k |-> "cmp", ref |-> ref, op |-> op, lit |-> lit], {}, at, <<ref>>))
        BY <2>1, LeafIsWell
      <3> QED
        BY <2>1, <3>1, <3>2, Zenon
    <2>5. WellRead(comparison(toks, e))
      BY <2>2, <2>4, FaultsAreWell DEF comparison
    <2> QED
      BY <2>2, <2>5 DEF e
  <1> QED
    BY <1>1, <1>2

LEMMA ClosedIsWell ==
  ASSUME NEW toks, NEW e, WellRead(e)
  PROVE  WellRead(closed(toks, e))
  <1>1. CASE e.ok /\ isOp(toks, e.at, ")")
    <2> DEFINE p == parsed(e.node, e.nodes, e.at + 1, e.refs)
    <2>1. p.node = e.node /\ p.nodes = e.nodes \union {e.node} /\ p.refs = e.refs
      BY DEF parsed
    <2>2. p.nodes = e.nodes
      BY <1>1, <2>1 DEF WellRead
    <2>3. closed(toks, e) = p
      BY <1>1 DEF closed
    <2> HIDE DEF p
    <2> QED
      BY <1>1, <2>1, <2>2, <2>3 DEF WellRead
  <1>2. CASE ~(e.ok /\ isOp(toks, e.at, ")"))
    BY <1>2, FaultsAreWell DEF closed
  <1> QED
    BY <1>1, <1>2

LEMMA NegationIsWell ==
  ASSUME NEW e, WellRead(e)
  PROVE  WellRead(negation(e))
  <1>1. CASE ~e.ok
    BY <1>1 DEF negation
  <1>2. CASE e.ok
    <2> DEFINE t == [k |-> "not", e |-> e.node]
    <2> DEFINE p == parsed(t, e.nodes, e.at, e.refs)
    <2> DEFINE D == e.nodes \union {t}
    <2> DEFINE refs == Range(e.refs)
    <2>1. /\ negation(e) = p /\ p.node = t /\ p.nodes = D /\ p.refs = e.refs
      BY <1>2 DEF negation, parsed
    <2>a. PICK N \in Nat : \E rank \in [e.nodes -> 0..N] :
            \A x \in e.nodes : Node(x, e.nodes, refs, rank)
      BY <1>2 DEF WellRead, Ranked
    <2>2. PICK rank \in [e.nodes -> 0..N] : \A x \in e.nodes : Node(x, e.nodes, refs, rank)
      BY <2>a
    <2>3. e.node \in e.nodes /\ t.k = "not" /\ t.e = e.node
      BY <1>2 DEF WellRead
    <2> HIDE DEF t, p
    <2> DEFINE higher == [x \in D |-> IF x \in e.nodes THEN rank[x] ELSE N + 1]
    <2>4. N + 1 \in Nat /\ higher \in [D -> 0..(N + 1)]
      BY <2>2
    <2>5. \A x \in e.nodes : higher[x] = rank[x] /\ x \in D
      OBVIOUS
    <2>6. t \notin e.nodes => higher[t] = N + 1
      OBVIOUS
    <2> HIDE DEF higher
    <2>7. \A x \in e.nodes : Node(x, D, refs, higher)
      <3> TAKE x \in e.nodes
      <3>1. Node(x, e.nodes, refs, rank)
        BY <2>2
      <3> QED
        BY <2>5, <3>1 DEF Node
    <2>8. t \notin e.nodes => Node(t, D, refs, higher)
      <3>1. higher[e.node] \in 0..N
        BY <2>2, <2>3, <2>5
      <3> QED
        BY <2>2, <2>3, <2>5, <2>6, <3>1 DEF Node
    <2>9. Ranked(D, refs)
      <3>1. \A x \in D : Node(x, D, refs, higher)
        BY <2>7, <2>8
      <3> HIDE DEF D, refs
      <3> QED
        BY <2>4, <3>1 DEF Ranked
    <2> QED
      BY <1>2, <2>1, <2>9 DEF WellRead
  <1> QED
    BY <1>1, <1>2

LEMMA JoinIsWell ==
  ASSUME NEW k \in {"and", "or"}, NEW l, l.ok, WellRead(l), NEW r, WellRead(r)
  PROVE  WellRead(joinedWith(k, l, r))
  <1>1. CASE ~r.ok
    BY <1>1 DEF joinedWith, WellRead
  <1>2. CASE r.ok
    <2> DEFINE t == [k |-> k, l |-> l.node, r |-> r.node]
    <2> DEFINE both == l.nodes \union r.nodes
    <2> DEFINE p == parsed(t, both, r.at, l.refs \o r.refs)
    <2> DEFINE D == both \union {t}
    <2> DEFINE refs == Range(l.refs) \union Range(r.refs)
    <2>1. /\ joinedWith(k, l, r) = p /\ p.node = t /\ p.nodes = D
          /\ p.refs = l.refs \o r.refs
      BY <1>2 DEF joinedWith, parsed
    <2>a. PICK N \in Nat : \E low \in [l.nodes -> 0..N] :
            \A x \in l.nodes : Node(x, l.nodes, Range(l.refs), low)
      BY DEF WellRead, Ranked
    <2>2. PICK low \in [l.nodes -> 0..N] : \A x \in l.nodes : Node(x, l.nodes, Range(l.refs), low)
      BY <2>a
    <2>b. PICK M \in Nat : \E high \in [r.nodes -> 0..M] :
            \A x \in r.nodes : Node(x, r.nodes, Range(r.refs), high)
      BY <1>2 DEF WellRead, Ranked
    <2>3. PICK high \in [r.nodes -> 0..M] : \A x \in r.nodes : Node(x, r.nodes, Range(r.refs), high)
      BY <2>b
    <2>4. /\ l.node \in l.nodes /\ r.node \in r.nodes
          /\ t.k \in {"and", "or"} /\ t.l = l.node /\ t.r = r.node
      BY <1>2 DEF WellRead
    <2>5. /\ isList(l.refs \o r.refs) /\ Range(l.refs \o r.refs) = refs
          /\ \A ref \in refs : RefShape(ref)
      BY <1>2, ConcatList DEF WellRead
    <2> HIDE DEF t, p
    <2> DEFINE rank == [x \in D |-> IF x \in l.nodes THEN low[x]
                                    ELSE IF x \in r.nodes THEN N + 1 + high[x]
                                    ELSE N + M + 2]
    <2>6. N + M + 2 \in Nat /\ rank \in [D -> 0..(N + M + 2)]
      <3>1. \A x \in l.nodes : low[x] \in 0..(N + M + 2)
        BY <2>2, <2>3
      <3>2. \A x \in r.nodes : N + 1 + high[x] \in 0..(N + M + 2)
        BY <2>2, <2>3
      <3>3. N + M + 2 \in 0..(N + M + 2) /\ N + M + 2 \in Nat
        BY <2>2, <2>3
      <3> QED
        BY <3>1, <3>2, <3>3
    <2>7. \A x \in l.nodes : x \in D /\ rank[x] = low[x] /\ rank[x] \in 0..N
      BY <2>2
    <2>8. \A x \in r.nodes : x \notin l.nodes => x \in D /\ rank[x] = N + 1 + high[x]
      BY <2>3
    <2>9. t \notin both => rank[t] = N + M + 2
      OBVIOUS
    <2> HIDE DEF rank
    <2>10. \A x \in l.nodes : Node(x, D, refs, rank)
      <3> TAKE x \in l.nodes
      <3>1. Node(x, l.nodes, Range(l.refs), low)
        BY <2>2
      <3> QED
        BY <2>7, <3>1 DEF Node
    <2>11. \A x \in r.nodes : x \notin l.nodes => Node(x, D, refs, rank)
      <3> SUFFICES ASSUME NEW x \in r.nodes, x \notin l.nodes PROVE Node(x, D, refs, rank)
        OBVIOUS
      <3>1. Node(x, r.nodes, Range(r.refs), high)
        BY <2>3
      <3>2. \A y \in r.nodes : /\ y \in D /\ high[y] \in 0..M
                               /\ high[y] < high[x] => rank[y] < rank[x]
        <4> TAKE y \in r.nodes
        <4>1. high[y] \in 0..M /\ high[x] \in 0..M /\ y \in D
          BY <2>3
        <4>2. rank[x] = N + 1 + high[x]
          BY <2>8
        <4>3. CASE y \in l.nodes
          BY <2>2, <2>7, <4>1, <4>2, <4>3
        <4>4. CASE y \notin l.nodes
          BY <2>2, <2>8, <4>1, <4>2, <4>4
        <4> QED
          BY <4>1, <4>3, <4>4
      <3> QED
        BY <3>1, <3>2 DEF Node
    <2>12. t \notin both => Node(t, D, refs, rank)
      <3> SUFFICES ASSUME t \notin both PROVE Node(t, D, refs, rank)
        OBVIOUS
      <3>1. rank[t] = N + M + 2
        BY <2>9
      <3>2. rank[l.node] \in 0..N /\ l.node \in D
        BY <2>4, <2>7
      <3>3. r.node \in D /\ rank[r.node] < N + M + 2
        <4>1. high[r.node] \in 0..M
          BY <2>3, <2>4
        <4>2. CASE r.node \in l.nodes
          BY <2>2, <2>3, <2>7, <4>2
        <4>3. CASE r.node \notin l.nodes
          BY <2>2, <2>3, <2>4, <2>8, <4>1, <4>3
        <4> QED
          BY <4>2, <4>3
      <3>4. rank[l.node] < N + M + 2
        BY <2>2, <2>3, <3>2
      <3> QED
        BY <2>4, <3>1, <3>2, <3>3, <3>4 DEF Node
    <2>13. Ranked(D, refs)
      <3>1. \A x \in D : Node(x, D, refs, rank)
        BY <2>10, <2>11, <2>12
      <3> HIDE DEF D, refs
      <3> QED
        BY <2>6, <3>1 DEF Ranked
    <2> QED
      BY <2>1, <2>5, <2>13 DEF WellRead
  <1> QED
    BY <1>1, <1>2

\* A loop of the parser takes rounds, whose number is finite.
LEMMA RoundsAreCounted ==
  ASSUME NEW toks, isList(toks), NEW ops
  PROVE  rounds(toks, ops) \in Nat
  <1>1. PICK n \in Nat : n = Len(toks) /\ DOMAIN toks = 1..n
    BY ListBasics
  <1>2. IsFiniteSet(1..n)
    <2>1. 1 \in Int /\ n \in Int
      OBVIOUS
    <2> QED
      BY <2>1, FS_Interval
  <1>3. IsFiniteSet({i \in DOMAIN toks : \E v \in ops : isOp(toks, i, v)})
    BY <1>1, <1>2, FS_Subset
  <1> QED
    BY <1>3, FS_CardinalityType DEF rounds

\* The places a term can start at.
LEMMA PlaceAfter ==
  ASSUME NEW toks, isList(toks), NEW i, NEW v, isOp(toks, i, v)
  PROVE  i \in places(toks) /\ i + 1 \in places(toks)
  <1>1. PICK n \in Nat : n = Len(toks) /\ DOMAIN toks = 1..n
    BY ListBasics
  <1>2. i \in 1..n
    BY <1>1 DEF isOp, isA
  <1> QED
    BY <1>1, <1>2 DEF places

Joins(toks, op, k, terms, i, n, f) ==
    f = [m \in 0..n |-> IF m = 0 THEN terms[i] ELSE joinTerm(toks, op, k, terms, f[m - 1])]

LEMMA JoinsExist ==
  ASSUME NEW toks, NEW op, NEW k, NEW terms, NEW i, NEW n \in Nat
  PROVE  \E f : Joins(toks, op, k, terms, i, n, f)
  <1> DEFINE S == {m \in Nat : \E f : Joins(toks, op, k, terms, i, m, f)}
  <1> DEFINE next(x) == joinTerm(toks, op, k, terms, x)
  <1>1. 0 \in S
    <2>1. Joins(toks, op, k, terms, i, 0, [m \in 0..0 |-> terms[i]])
      BY DEF Joins
    <2> QED
      BY <2>1
  <1>2. ASSUME NEW m \in S PROVE m + 1 \in S
    <2>1. m \in Nat
      OBVIOUS
    <2>2. PICK f : Joins(toks, op, k, terms, i, m, f)
      OBVIOUS
    <2> HIDE DEF next
    <2>3. f = [j \in 0..m |-> IF j = 0 THEN terms[i] ELSE next(f[j - 1])]
      BY <2>2 DEF Joins, next
    <2> DEFINE g == [j \in 0..(m + 1) |-> IF j = m + 1 THEN next(f[m]) ELSE f[j]]
    <2>4. \A j \in 0..(m + 1) : g[j] = IF j = 0 THEN terms[i] ELSE next(g[j - 1])
      <3> TAKE j \in 0..(m + 1)
      <3>1. CASE j = m + 1
        BY <2>1, <3>1
      <3>2. CASE j # m + 1
        <4>1. j \in 0..m /\ g[j] = f[j]
          BY <2>1, <3>2
        <4>2. j # 0 => j - 1 \in 0..m /\ g[j - 1] = f[j - 1]
          BY <2>1, <4>1
        <4> QED
          BY <2>3, <4>1, <4>2
      <3> QED
        BY <3>1, <3>2
    <2>5. g = [j \in 0..(m + 1) |-> g[j]]
      OBVIOUS
    <2> HIDE DEF g
    <2>6. g = [j \in 0..(m + 1) |-> IF j = 0 THEN terms[i] ELSE next(g[j - 1])]
      BY <2>4, <2>5
    <2>7. Joins(toks, op, k, terms, i, m + 1, g)
      BY <2>6 DEF Joins, next
    <2>8. m + 1 \in Nat
      BY <2>1
    <2> QED
      BY <2>7, <2>8
  <1>3. S \in SUBSET Nat
    OBVIOUS
  <1>4. S = Nat
    <2> HIDE DEF S
    <2> QED
      BY <1>1, <1>2, <1>3, Induction
  <1> QED
    BY <1>4

\* The terms joined by an operator are well read if each of them is.
LEMMA JoinAllIsWell ==
  ASSUME NEW toks, isList(toks), NEW op, NEW k \in {"and", "or"}, NEW terms,
         \A j \in places(toks) : WellRead(terms[j]), NEW i \in places(toks)
  PROVE  WellRead(joinAll(toks, op, k, terms, i))
  <1> DEFINE N == rounds(toks, {op})
  <1>1. N \in Nat
    BY RoundsAreCounted
  <1> DEFINE f == CHOOSE g : Joins(toks, op, k, terms, i, N, g)
  <1>2. Joins(toks, op, k, terms, i, N, f)
    <2> HIDE DEF N
    <2> QED
      BY <1>1, JoinsExist
  <1>3. joinAll(toks, op, k, terms, i) = f[N]
    BY DEF joinAll, Joins
  <1> HIDE DEF f
  <1> HIDE DEF N
  <1>4. \A m \in 0..N : f[m] = IF m = 0 THEN terms[i]
                               ELSE joinTerm(toks, op, k, terms, f[m - 1])
    BY <1>2 DEF Joins
  <1>5. ASSUME NEW l, WellRead(l) PROVE WellRead(joinTerm(toks, op, k, terms, l))
    <2>1. CASE l.ok /\ isOp(toks, l.at, op)
      <3>1. WellRead(terms[l.at + 1])
        BY <2>1, PlaceAfter
      <3>2. WellRead(joinedWith(k, l, terms[l.at + 1]))
        BY <1>5, <2>1, <3>1, JoinIsWell
      <3> QED
        BY <2>1, <3>2 DEF joinTerm
    <2>2. CASE ~(l.ok /\ isOp(toks, l.at, op))
      BY <1>5, <2>2 DEF joinTerm
    <2> QED
      BY <2>1, <2>2
  <1> DEFINE S == {m \in Nat : m <= N => WellRead(f[m])}
  <1>6. S = Nat
    <2>1. 0 \in S
      BY <1>1, <1>4
    <2>2. ASSUME NEW m \in S PROVE m + 1 \in S
      <3>1. m \in Nat /\ (m <= N => WellRead(f[m]))
        OBVIOUS
      <3>2. ASSUME m + 1 <= N PROVE WellRead(f[m + 1])
        <4>1. m <= N /\ m + 1 \in 0..N /\ m + 1 # 0 /\ (m + 1) - 1 = m
          BY <1>1, <3>1, <3>2
        <4>2. f[m + 1] = joinTerm(toks, op, k, terms, f[m])
          BY <1>4, <4>1
        <4> QED
          BY <1>5, <3>1, <4>1, <4>2
      <3> QED
        BY <3>1, <3>2
    <2>3. S \in SUBSET Nat
      OBVIOUS
    <2> HIDE DEF S
    <2> QED
      BY <2>1, <2>2, <2>3, Induction
  <1>7. WellRead(f[N])
    BY <1>1, <1>6
  <1> QED
    BY <1>3, <1>7

LEMMA UnaryIsWell ==
  ASSUME NEW toks, isList(toks), NEW orExpr,
         \A j \in places(toks) : WellRead(orExpr[j]), NEW i
  PROVE  WellRead(unary(toks, i, orExpr))
  <1>1. ASSUME NEW j, isOp(toks, j, "(") PROVE WellRead(group(toks, j, orExpr))
    <2>1. WellRead(orExpr[j + 1])
      BY <1>1, PlaceAfter
    <2> QED
      BY <2>1, ClosedIsWell DEF group
  <1>2. \A j : WellRead(groupOrReference(toks, j, orExpr)) /\ WellRead(atom(toks, j, orExpr))
    BY <1>1, ComparisonIsWell DEF groupOrReference, atom
  <1>3. WellRead(negation(groupOrReference(toks, i + 1, orExpr)))
    BY <1>2, NegationIsWell
  <1> QED
    BY <1>2, <1>3 DEF unary

AllWell(toks, f) == \A j \in places(toks) : WellRead(f[j])

LEMMA OrExprIsWell ==
  ASSUME NEW toks, isList(toks), NEW orExpr, AllWell(toks, orExpr)
  PROVE  AllWell(toks, orExprOf(toks, orExpr))
  <1> DEFINE terms == [i \in places(toks) |-> unary(toks, i, orExpr)]
  <1>1. \A i \in places(toks) : WellRead(terms[i])
    BY UnaryIsWell DEF AllWell
  <1>2. andExpr(toks, orExpr) = [i \in places(toks) |-> joinAll(toks, "&&", "and", terms, i)]
    BY DEF andExpr
  <1> HIDE DEF terms
  <1>3. \A i \in places(toks) : WellRead(joinAll(toks, "&&", "and", terms, i))
    BY <1>1, JoinAllIsWell
  <1>4. \A i \in places(toks) : WellRead(andExpr(toks, orExpr)[i])
    BY <1>2, <1>3
  <1> DEFINE both == andExpr(toks, orExpr)
  <1> HIDE DEF both
  <1>5. \A i \in places(toks) : WellRead(joinAll(toks, "||", "or", both, i))
    BY <1>4, JoinAllIsWell DEF both
  <1>6. orExprOf(toks, orExpr) = [i \in places(toks) |-> joinAll(toks, "||", "or", both, i)]
    BY DEF orExprOf, both
  <1> QED
    BY <1>5, <1>6 DEF AllWell

Descends(toks, n, f) ==
    f = [m \in 0..n |-> IF m = 0 THEN [i \in places(toks) |-> SyntaxFault]
                        ELSE orExprOf(toks, f[m - 1])]

LEMMA DescentExists ==
  ASSUME NEW toks, NEW n \in Nat
  PROVE  \E f : Descends(toks, n, f)
  <1> DEFINE S == {m \in Nat : \E f : Descends(toks, m, f)}
  <1> DEFINE none == [i \in places(toks) |-> SyntaxFault]
  <1> DEFINE next(x) == orExprOf(toks, x)
  <1>1. 0 \in S
    <2>1. Descends(toks, 0, [m \in 0..0 |-> none])
      BY DEF Descends
    <2> QED
      BY <2>1
  <1>2. ASSUME NEW m \in S PROVE m + 1 \in S
    <2>1. m \in Nat
      OBVIOUS
    <2>2. PICK f : Descends(toks, m, f)
      OBVIOUS
    <2> HIDE DEF next, none
    <2>3. f = [j \in 0..m |-> IF j = 0 THEN none ELSE next(f[j - 1])]
      BY <2>2 DEF Descends, next, none
    <2> DEFINE g == [j \in 0..(m + 1) |-> IF j = m + 1 THEN next(f[m]) ELSE f[j]]
    <2>4. \A j \in 0..(m + 1) : g[j] = IF j = 0 THEN none ELSE next(g[j - 1])
      <3> TAKE j \in 0..(m + 1)
      <3>1. CASE j = m + 1
        BY <2>1, <3>1
      <3>2. CASE j # m + 1
        <4>1. j \in 0..m /\ g[j] = f[j]
          BY <2>1, <3>2
        <4>2. j # 0 => j - 1 \in 0..m /\ g[j - 1] = f[j - 1]
          BY <2>1, <4>1
        <4> QED
          BY <2>3, <4>1, <4>2
      <3> QED
        BY <3>1, <3>2
    <2>5. g = [j \in 0..(m + 1) |-> g[j]]
      OBVIOUS
    <2> HIDE DEF g
    <2>6. g = [j \in 0..(m + 1) |-> IF j = 0 THEN none ELSE next(g[j - 1])]
      BY <2>4, <2>5
    <2>7. Descends(toks, m + 1, g)
      BY <2>6 DEF Descends, next, none
    <2>8. m + 1 \in Nat
      BY <2>1
    <2> QED
      BY <2>7, <2>8
  <1>3. S \in SUBSET Nat
    OBVIOUS
  <1>4. S = Nat
    <2> HIDE DEF S
    <2> QED
      BY <1>1, <1>2, <1>3, Induction
  <1> QED
    BY <1>4

\* What the parser makes of a text.
LEMMA ParserIsWell ==
  ASSUME NEW toks, isList(toks)
  PROVE  WellRead(parseTokens(toks))
  <1> DEFINE N == rounds(toks, {"("}) + 1
  <1>1. N \in Nat
    BY RoundsAreCounted
  <1> DEFINE f == CHOOSE g : Descends(toks, N, g)
  <1>2. Descends(toks, N, f)
    <2> HIDE DEF N
    <2> QED
      BY <1>1, DescentExists
  <1>3. descent(toks) = f[N]
    BY DEF descent, Descends
  <1> HIDE DEF f
  <1> HIDE DEF N
  <1>4. \A m \in 0..N : f[m] = IF m = 0 THEN [i \in places(toks) |-> SyntaxFault]
                               ELSE orExprOf(toks, f[m - 1])
    BY <1>2 DEF Descends
  <1> DEFINE S == {m \in Nat : m <= N => AllWell(toks, f[m])}
  <1>5. S = Nat
    <2>1. 0 \in S
      <3>1. f[0] = [i \in places(toks) |-> SyntaxFault]
        BY <1>1, <1>4
      <3> QED
        BY <3>1, FaultsAreWell DEF AllWell
    <2>2. ASSUME NEW m \in S PROVE m + 1 \in S
      <3>1. m \in Nat /\ (m <= N => AllWell(toks, f[m]))
        OBVIOUS
      <3>2. ASSUME m + 1 <= N PROVE AllWell(toks, f[m + 1])
        <4>1. m <= N /\ m + 1 \in 0..N /\ m + 1 # 0 /\ (m + 1) - 1 = m
          BY <1>1, <3>1, <3>2
        <4>2. f[m + 1] = orExprOf(toks, f[m])
          BY <1>4, <4>1
        <4> QED
          BY <3>1, <4>1, <4>2, OrExprIsWell
      <3> QED
        BY <3>1, <3>2
    <2>3. S \in SUBSET Nat
      OBVIOUS
    <2> HIDE DEF S
    <2> QED
      BY <2>1, <2>2, <2>3, Induction
  <1>6. AllWell(toks, f[N])
    BY <1>1, <1>5
  <1>7. 1 \in places(toks)
    <2>1. Len(toks) \in Nat
      BY ListBasics
    <2> QED
      BY <2>1 DEF places
  <1>8. WellRead(descent(toks)[1])
    BY <1>3, <1>6, <1>7 DEF AllWell
  <1> QED
    BY <1>8, FaultsAreWell DEF parseTokens, whole

-----------------------------------------------------------------------------
(***************************************************************************)
(* The grammar: what its functions are, for every text.                    *)
(***************************************************************************)
LEMMA PlacesOf ==
  ASSUME NEW toks, isList(toks)
  PROVE  \E n \in Nat : n = Len(toks) /\ DOMAIN toks = 1..n /\ places(toks) = 1 .. n + 1
  BY ListBasics DEF places

\* A token is at a place, and so is the one behind it.
LEMMA TokenPlace ==
  ASSUME NEW toks, isList(toks), NEW i, NEW t, isA(toks, i, t)
  PROVE  i \in places(toks) /\ i + 1 \in places(toks) /\ i \in Int
  <1>1. PICK n \in Nat : n = Len(toks) /\ DOMAIN toks = 1..n /\ places(toks) = 1 .. n + 1
    BY PlacesOf
  <1>2. i \in 1..n
    BY <1>1 DEF isA
  <1> QED
    BY <1>1, <1>2

\* The segments from a place on only depend on those further on.
LEMMA FurtherIsLocal ==
  ASSUME NEW toks, isList(toks), NEW i \in places(toks), NEW f, NEW g,
         \A k \in places(toks) : k > i => f[k] = g[k]
  PROVE  furtherFrom(toks, i, f) = furtherFrom(toks, i, g)
  <1>1. i \in Int
    BY PlacesOf
  <1>2. isA(toks, i + 1, "id") => f[i + 2] = g[i + 2]
    <2>1. SUFFICES ASSUME isA(toks, i + 1, "id") PROVE f[i + 2] = g[i + 2]
      OBVIOUS
    <2>2. (i + 1) + 1 \in places(toks)
      BY <2>1, TokenPlace
    <2> QED
      BY <1>1, <2>2
  <1>3. isOp(toks, i + 2, "]") => f[i + 3] = g[i + 3]
    <2>1. SUFFICES ASSUME isOp(toks, i + 2, "]") PROVE f[i + 3] = g[i + 3]
      OBVIOUS
    <2>2. (i + 2) + 1 \in places(toks)
      BY <2>1, TokenPlace DEF isOp
    <2> QED
      BY <1>1, <2>2
  <1> QED
    BY <1>2, <1>3 DEF furtherFrom

FurtherBy(toks, n, f) ==
    /\ f = [k \in places(toks) |-> f[k]]
    /\ \A k \in places(toks) : k + n > Len(toks) + 1 => f[k] = furtherFrom(toks, k, f)

LEMMA FurtherUnfolds ==
  ASSUME NEW toks, isList(toks), NEW i \in places(toks)
  PROVE  furtherSegments(toks)[i] = furtherFrom(toks, i, furtherSegments(toks))
  <1>1. PICK n \in Nat : n = Len(toks) /\ DOMAIN toks = 1..n /\ places(toks) = 1 .. n + 1
    BY PlacesOf
  <1> DEFINE S == {m \in Nat : \E f : FurtherBy(toks, m, f)}
  <1>2. 0 \in S
    <2>1. FurtherBy(toks, 0, [k \in places(toks) |-> SyntaxFault])
      BY <1>1 DEF FurtherBy
    <2> QED
      BY <2>1
  <1>3. ASSUME NEW m \in S PROVE m + 1 \in S
    <2>1. PICK f : FurtherBy(toks, m, f)
      OBVIOUS
    <2> DEFINE g == [k \in places(toks) |-> furtherFrom(toks, k, f)]
    <2>2. \A k \in places(toks) : g[k] = furtherFrom(toks, k, f)
      OBVIOUS
    <2>3. g = [k \in places(toks) |-> g[k]]
      OBVIOUS
    <2> HIDE DEF g
    <2>4. m \in Nat /\ m + 1 \in Nat
      OBVIOUS
    <2>5. ASSUME NEW k \in places(toks), k + (m + 1) > Len(toks) + 1
          PROVE  g[k] = furtherFrom(toks, k, g)
      <3>1. \A x \in places(toks) : x > k => f[x] = g[x]
        <4> SUFFICES ASSUME NEW x \in places(toks), x > k PROVE f[x] = g[x]
          OBVIOUS
        <4>1. x + m > Len(toks) + 1
          BY <1>1, <2>4, <2>5
        <4> QED
          BY <2>1, <2>2, <4>1 DEF FurtherBy
      <3> QED
        BY <2>2, <3>1, FurtherIsLocal
    <2>6. FurtherBy(toks, m + 1, g)
      BY <2>3, <2>5 DEF FurtherBy
    <2> QED
      BY <2>4, <2>6
  <1>4. S \in SUBSET Nat
    OBVIOUS
  <1>5. S = Nat
    <2> HIDE DEF S
    <2> QED
      BY <1>2, <1>3, <1>4, Induction
  <1>6. PICK f : FurtherBy(toks, n + 1, f)
    <2>1. n + 1 \in S
      BY <1>5
    <2> QED
      BY <2>1
  <1>7. \A k \in places(toks) : f[k] = furtherFrom(toks, k, f)
    BY <1>1, <1>6 DEF FurtherBy
  <1>8. f = [k \in places(toks) |-> furtherFrom(toks, k, f)]
    BY <1>6, <1>7 DEF FurtherBy
  <1> DEFINE P(h) == h = [k \in places(toks) |-> furtherFrom(toks, k, h)]
  <1> DEFINE h == CHOOSE x : P(x)
  <1>9. P(h)
    BY <1>8
  <1>10. furtherSegments(toks) = h
    BY DEF furtherSegments
  <1> HIDE DEF h
  <1>11. h[i] = furtherFrom(toks, i, h)
    BY <1>9
  <1> QED
    BY <1>10, <1>11, Zenon

LEMMA ListsAreLocal ==
  ASSUME NEW toks, isList(toks), NEW i, NEW j \in places(toks), NEW f, NEW g,
         \A k \in places(toks) : k < j => f[k] = g[k]
  PROVE  listsTo(toks, i, j, f) = listsTo(toks, i, j, g)
  <1>1. j \in Int
    BY PlacesOf
  <1>2. isOp(toks, j - 2, ".") => f[j - 2] = g[j - 2]
    BY <1>1, TokenPlace DEF isOp
  <1>3. isOp(toks, j - 3, "[") => f[j - 3] = g[j - 3]
    BY <1>1, TokenPlace DEF isOp
  <1> QED
    BY <1>2, <1>3 DEF listsTo

ListsBy(toks, i, n, f) ==
    /\ f = [k \in places(toks) |-> f[k]]
    /\ \A k \in places(toks) : k <= n => f[k] = listsTo(toks, i, k, f)

LEMMA ListsUnfold ==
  ASSUME NEW toks, isList(toks), NEW i, NEW j \in places(toks)
  PROVE  segmentLists(toks, i)[j] = listsTo(toks, i, j, segmentLists(toks, i))
  <1>1. PICK n \in Nat : n = Len(toks) /\ DOMAIN toks = 1..n /\ places(toks) = 1 .. n + 1
    BY PlacesOf
  <1> DEFINE S == {m \in Nat : \E f : ListsBy(toks, i, m, f)}
  <1>2. 0 \in S
    <2>1. ListsBy(toks, i, 0, [k \in places(toks) |-> {}])
      BY <1>1 DEF ListsBy
    <2> QED
      BY <2>1
  <1>3. ASSUME NEW m \in S PROVE m + 1 \in S
    <2>1. PICK f : ListsBy(toks, i, m, f)
      OBVIOUS
    <2> DEFINE g == [k \in places(toks) |-> listsTo(toks, i, k, f)]
    <2>2. \A k \in places(toks) : g[k] = listsTo(toks, i, k, f)
      OBVIOUS
    <2>3. g = [k \in places(toks) |-> g[k]]
      OBVIOUS
    <2> HIDE DEF g
    <2>4. m \in Nat /\ m + 1 \in Nat
      OBVIOUS
    <2>5. ASSUME NEW k \in places(toks), k <= m + 1
          PROVE  g[k] = listsTo(toks, i, k, g)
      <3>1. \A x \in places(toks) : x < k => f[x] = g[x]
        <4> SUFFICES ASSUME NEW x \in places(toks), x < k PROVE f[x] = g[x]
          OBVIOUS
        <4>1. x <= m
          BY <1>1, <2>4, <2>5
        <4> QED
          BY <2>1, <2>2, <4>1 DEF ListsBy
      <3> QED
        BY <2>2, <3>1, ListsAreLocal
    <2>6. ListsBy(toks, i, m + 1, g)
      BY <2>3, <2>5 DEF ListsBy
    <2> QED
      BY <2>4, <2>6
  <1>4. S \in SUBSET Nat
    OBVIOUS
  <1>5. S = Nat
    <2> HIDE DEF S
    <2> QED
      BY <1>2, <1>3, <1>4, Induction
  <1>6. PICK f : ListsBy(toks, i, n + 1, f)
    <2>1. n + 1 \in S
      BY <1>5
    <2> QED
      BY <2>1
  <1>7. \A k \in places(toks) : f[k] = listsTo(toks, i, k, f)
    BY <1>1, <1>6 DEF ListsBy
  <1>8. f = [k \in places(toks) |-> listsTo(toks, i, k, f)]
    BY <1>6, <1>7 DEF ListsBy
  <1> DEFINE P(h) == h = [k \in places(toks) |-> listsTo(toks, i, k, h)]
  <1> DEFINE h == CHOOSE x : P(x)
  <1>9. P(h)
    BY <1>8
  <1>10. segmentLists(toks, i) = h
    BY DEF segmentLists
  <1> HIDE DEF h
  <1>11. h[j] = listsTo(toks, i, j, h)
    BY <1>9
  <1> QED
    BY <1>10, <1>11, Zenon
\* Nonterminals, each after those that a derivation from it goes on with on the same span.
nonterminals == {"or", "and", "unary", "negand"}
standing(nt) == CASE nt = "or" -> 3 [] nt = "and" -> 2 [] nt = "unary" -> 1 [] nt = "negand" -> 0
height(toks, nt, i, j) == 4 * (j - i + Len(toks) + 1) + standing(nt)

Agree(toks, h, f, g) ==
    \A nt \in nonterminals : \A i, j \in places(toks) :
        height(toks, nt, i, j) < h => f[<<nt, i, j>>] = g[<<nt, i, j>>]

LEMMA JoinedIsLocal ==
  ASSUME NEW toks, isList(toks), NEW nt \in nonterminals, NEW term \in nonterminals, NEW op,
         NEW i \in places(toks), NEW j \in places(toks), NEW f, NEW g,
         Agree(toks, height(toks, nt, i, j), f, g)
  PROVE  joinedTrees(toks, nt, op, term, i, j, f) = joinedTrees(toks, nt, op, term, i, j, g)
  <1>1. PICK l \in Nat : l = Len(toks) /\ DOMAIN toks = 1..l /\ places(toks) = 1 .. l + 1
    BY PlacesOf
  <1>2. ASSUME NEW n \in i .. j - 1, isOp(toks, n, op)
        PROVE  f[<<nt, i, n>>] = g[<<nt, i, n>>] /\ f[<<term, n + 1, j>>] = g[<<term, n + 1, j>>]
    <2>1. n \in places(toks) /\ n + 1 \in places(toks)
      BY <1>2, TokenPlace DEF isOp
    <2>2. standing(nt) \in 0..3 /\ standing(term) \in 0..3
      BY DEF standing, nonterminals
    <2>3. height(toks, nt, i, n) < height(toks, nt, i, j)
      BY <1>1, <2>1, <2>2 DEF height
    <2>4. height(toks, term, n + 1, j) < height(toks, nt, i, j)
      BY <1>1, <2>1, <2>2 DEF height
    <2> QED
      BY <2>1, <2>3, <2>4 DEF Agree
  <1> DEFINE Ops == {m \in i .. j - 1 : isOp(toks, m, op)}
  <1> DEFINE at(h, n) == {[k |-> nt, l |-> l_1, r |-> r_1] :
                            l_1 \in h[<<nt, i, n>>], r_1 \in h[<<term, n + 1, j>>]}
  <1>3. \A n \in Ops : at(f, n) = at(g, n)
    BY <1>2
  <1>4. /\ joinedTrees(toks, nt, op, term, i, j, f) = UNION {at(f, n) : n \in Ops}
        /\ joinedTrees(toks, nt, op, term, i, j, g) = UNION {at(g, n) : n \in Ops}
    BY DEF joinedTrees
  <1> HIDE DEF at, Ops
  <1>5. {at(f, n) : n \in Ops} = {at(g, n) : n \in Ops}
    BY <1>3
  <1> QED
    BY <1>4, <1>5

LEMMA DerivedIsLocal ==
  ASSUME NEW toks, isList(toks), NEW nt \in nonterminals,
         NEW i \in places(toks), NEW j \in places(toks), NEW f, NEW g,
         Agree(toks, height(toks, nt, i, j), f, g)
  PROVE  derived(toks, nt, i, j, f) = derived(toks, nt, i, j, g)
  <1>1. PICK l \in Nat : l = Len(toks) /\ DOMAIN toks = 1..l /\ places(toks) = 1 .. l + 1
    BY PlacesOf
  <1>2. CASE nt = "or"
    <2>1. height(toks, "and", i, j) < height(toks, nt, i, j)
      BY <1>1, <1>2 DEF height, standing
    <2>2. f[<<"and", i, j>>] = g[<<"and", i, j>>]
      BY <2>1 DEF Agree, nonterminals
    <2>3. joinedTrees(toks, "or", "||", "and", i, j, f) = joinedTrees(toks, "or", "||", "and", i, j, g)
      BY <1>2, JoinedIsLocal DEF nonterminals
    <2> QED
      BY <1>2, <2>2, <2>3 DEF derived
  <1>3. CASE nt = "and"
    <2>1. height(toks, "unary", i, j) < height(toks, nt, i, j)
      BY <1>1, <1>3 DEF height, standing
    <2>2. f[<<"unary", i, j>>] = g[<<"unary", i, j>>]
      BY <2>1 DEF Agree, nonterminals
    <2>3. joinedTrees(toks, "and", "&&", "unary", i, j, f)
            = joinedTrees(toks, "and", "&&", "unary", i, j, g)
      BY <1>3, JoinedIsLocal DEF nonterminals
    <2> QED
      BY <1>3, <2>2, <2>3 DEF derived
  <1>4. CASE nt = "unary"
    <2>1. height(toks, "negand", i, j) < height(toks, nt, i, j)
      BY <1>1, <1>4 DEF height, standing
    <2>2. f[<<"negand", i, j>>] = g[<<"negand", i, j>>]
      BY <2>1 DEF Agree, nonterminals
    <2>3. isOp(toks, i, "!") => f[<<"negand", i + 1, j>>] = g[<<"negand", i + 1, j>>]
      <3>1. SUFFICES ASSUME isOp(toks, i, "!")
                     PROVE  f[<<"negand", i + 1, j>>] = g[<<"negand", i + 1, j>>]
        OBVIOUS
      <3>2. i + 1 \in places(toks)
        BY <3>1, TokenPlace DEF isOp
      <3>3. height(toks, "negand", i + 1, j) < height(toks, nt, i, j)
        BY <1>1, <1>4 DEF height, standing
      <3> QED
        BY <3>2, <3>3 DEF Agree, nonterminals
    <2> QED
      BY <1>4, <2>2, <2>3 DEF derived
  <1>5. CASE nt = "negand"
    <2>1. ASSUME isOp(toks, i, "("), isOp(toks, j - 1, ")")
          PROVE  f[<<"or", i + 1, j - 1>>] = g[<<"or", i + 1, j - 1>>]
      <3>1. i + 1 \in places(toks) /\ j - 1 \in places(toks)
        BY <2>1, TokenPlace DEF isOp
      <3>2. height(toks, "or", i + 1, j - 1) < height(toks, nt, i, j)
        BY <1>1, <1>5 DEF height, standing
      <3> QED
        BY <3>1, <3>2 DEF Agree, nonterminals
    <2> QED
      BY <1>5, <2>1 DEF derived
  <1> QED
    BY <1>2, <1>3, <1>4, <1>5 DEF nonterminals

DerivedBy(toks, n, f) ==
    /\ f = [s \in spans(toks) |-> f[s]]
    /\ \A nt \in nonterminals : \A i, j \in places(toks) :
         height(toks, nt, i, j) < n => f[<<nt, i, j>>] = derived(toks, nt, i, j, f)

LEMMA SpanIs ==
  ASSUME NEW toks
  PROVE  /\ \A nt \in nonterminals : \A i, j \in places(toks) : <<nt, i, j>> \in spans(toks)
         /\ \A s \in spans(toks) : /\ s[1] \in nonterminals /\ s[2] \in places(toks)
                                   /\ s[3] \in places(toks) /\ s = <<s[1], s[2], s[3]>>
  BY DEF spans, nonterminals

LEMMA DerivationsUnfold ==
  ASSUME NEW toks, isList(toks), NEW nt \in nonterminals,
         NEW i \in places(toks), NEW j \in places(toks)
  PROVE  derivations(toks)[<<nt, i, j>>] = derived(toks, nt, i, j, derivations(toks))
  <1>1. PICK l \in Nat : l = Len(toks) /\ DOMAIN toks = 1..l /\ places(toks) = 1 .. l + 1
    BY PlacesOf
  <1>2. \A a \in nonterminals : \A x, y \in places(toks) :
          height(toks, a, x, y) \in Nat /\ height(toks, a, x, y) < 8 * l + 8
    <2> SUFFICES ASSUME NEW a \in nonterminals, NEW x \in places(toks), NEW y \in places(toks)
                 PROVE  height(toks, a, x, y) \in Nat /\ height(toks, a, x, y) < 8 * l + 8
      OBVIOUS
    <2>1. standing(a) \in 0..3
      BY DEF standing, nonterminals
    <2> QED
      BY <1>1, <2>1 DEF height
  <1> DEFINE S == {m \in Nat : \E f : DerivedBy(toks, m, f)}
  <1>3. 0 \in S
    <2>1. \A a \in nonterminals : \A x, y \in places(toks) : ~(height(toks, a, x, y) < 0)
      BY <1>2
    <2>2. DerivedBy(toks, 0, [s \in spans(toks) |-> {}])
      BY <2>1 DEF DerivedBy
    <2> QED
      BY <2>2
  <1>4. ASSUME NEW m \in S PROVE m + 1 \in S
    <2>1. PICK f : DerivedBy(toks, m, f)
      OBVIOUS
    <2> DEFINE g == [s \in spans(toks) |-> derived(toks, s[1], s[2], s[3], f)]
    <2>2. ASSUME NEW a \in nonterminals, NEW x \in places(toks), NEW y \in places(toks)
          PROVE  g[<<a, x, y>>] = derived(toks, a, x, y, f)
      BY SpanIs
    <2>3. g = [s \in spans(toks) |-> g[s]]
      OBVIOUS
    <2> HIDE DEF g
    <2>4. m \in Nat /\ m + 1 \in Nat
      OBVIOUS
    <2>5. ASSUME NEW a \in nonterminals, NEW x \in places(toks), NEW y \in places(toks),
                 height(toks, a, x, y) < m + 1
          PROVE  g[<<a, x, y>>] = derived(toks, a, x, y, g)
      <3>1. Agree(toks, height(toks, a, x, y), f, g)
        <4> SUFFICES ASSUME NEW b \in nonterminals, NEW u \in places(toks), NEW v \in places(toks),
                            height(toks, b, u, v) < height(toks, a, x, y)
                     PROVE  f[<<b, u, v>>] = g[<<b, u, v>>]
          BY DEF Agree
        <4>1. height(toks, b, u, v) < m
          BY <1>2, <2>4, <2>5
        <4>2. f[<<b, u, v>>] = derived(toks, b, u, v, f)
          BY <2>1, <4>1 DEF DerivedBy
        <4> QED
          BY <2>2, <4>2
      <3>2. derived(toks, a, x, y, f) = derived(toks, a, x, y, g)
        BY <3>1, DerivedIsLocal
      <3> QED
        BY <2>2, <3>2
    <2>6. DerivedBy(toks, m + 1, g)
      BY <2>3, <2>5 DEF DerivedBy
    <2> QED
      BY <2>4, <2>6
  <1>5. S \in SUBSET Nat
    OBVIOUS
  <1>6. S = Nat
    <2> HIDE DEF S
    <2> QED
      BY <1>3, <1>4, <1>5, Induction
  <1>7. PICK f : DerivedBy(toks, 8 * l + 8, f)
    <2>1. 8 * l + 8 \in Nat
      BY <1>1
    <2>2. 8 * l + 8 \in S
      BY <1>6, <2>1, Zenon
    <2> QED
      BY <2>2
  <1>8. \A s \in spans(toks) : f[s] = derived(toks, s[1], s[2], s[3], f)
    <2> TAKE s \in spans(toks)
    <2>1. /\ s[1] \in nonterminals /\ s[2] \in places(toks) /\ s[3] \in places(toks)
          /\ s = <<s[1], s[2], s[3]>>
      BY SpanIs
    <2>2. height(toks, s[1], s[2], s[3]) < 8 * l + 8
      BY <1>2, <2>1
    <2> QED
      BY <1>7, <2>1, <2>2 DEF DerivedBy
  <1> DEFINE P(h) == h = [s \in spans(toks) |-> derived(toks, s[1], s[2], s[3], h)]
  <1> DEFINE h == CHOOSE x : P(x)
  <1>9. P(f)
    BY <1>7, <1>8 DEF DerivedBy
  <1>10. P(h)
    BY <1>9
  <1>11. derivations(toks) = h
    BY DEF derivations
  <1>12. <<nt, i, j>> \in spans(toks)
    BY SpanIs
  <1> HIDE DEF h
  <1>13. h[<<nt, i, j>>] = derived(toks, nt, i, j, h)
    BY <1>10, <1>12
  <1> QED
    BY <1>11, <1>13, Zenon
\* What the reader of segments finds at a place: none, one behind a dot or one in
\* brackets, and then further ones.
atEnd(toks, k) == ~isOp(toks, k, ".") /\ ~isOp(toks, k, "[")
atSegment(toks, k) ==
    isOp(toks, k, ".") /\ ~toks[k].ws /\ isA(toks, k + 1, "id") /\ ~toks[k + 1].ws
atKey(toks, k) ==
    /\ isOp(toks, k, "[") /\ ~toks[k].ws
    /\ isA(toks, k + 1, "str") /\ ~toks[k + 1].ws
    /\ isOp(toks, k + 2, "]") /\ ~toks[k + 2].ws

LEMMA FurtherStep ==
  ASSUME NEW toks, isList(toks), NEW k \in places(toks), NEW f, f = furtherSegments(toks)
  PROVE  /\ atEnd(toks, k) => f[k] = parsed(<<>>, {}, k, <<>>)
         /\ atSegment(toks, k) => f[k] = preceded(seg(toks[k + 1].v), f[k + 2])
         /\ atKey(toks, k) => f[k] = preceded(key(toks[k + 1].v), f[k + 3])
         /\ f[k].ok => atEnd(toks, k) \/ atSegment(toks, k) \/ atKey(toks, k)
  <1>1. f[k] = furtherFrom(toks, k, f)
    BY FurtherUnfolds
  <1>2. ~(isOp(toks, k, ".") /\ isOp(toks, k, "["))
    BY DEF isOp
  <1>3. ~SyntaxFault.ok
    BY DEF SyntaxFault
  <1>4. CASE atEnd(toks, k)
    BY <1>1, <1>4 DEF furtherFrom, atEnd, atSegment, atKey
  <1>5. CASE isOp(toks, k, ".")
    <2>1. CASE toks[k].ws
      <3>1. furtherFrom(toks, k, f) = SyntaxFault
        BY <1>5, <2>1 DEF furtherFrom
      <3> QED
        BY <1>1, <1>2, <1>3, <1>5, <2>1, <3>1 DEF atEnd, atSegment, atKey
    <2>2. CASE ~toks[k].ws
      <3>1. furtherFrom(toks, k, f) = IF isA(toks, k + 1, "id") /\ ~toks[k + 1].ws
                                      THEN preceded(seg(toks[k + 1].v), f[k + 2]) ELSE SyntaxFault
        BY <1>2, <1>5, <2>2 DEF furtherFrom
      <3> QED
        BY <1>1, <1>2, <1>3, <1>5, <2>2, <3>1 DEF atEnd, atSegment, atKey
    <2> QED
      BY <2>1, <2>2
  <1>6. CASE isOp(toks, k, "[")
    <2>1. CASE toks[k].ws
      <3>1. furtherFrom(toks, k, f) = SyntaxFault
        BY <1>6, <2>1 DEF furtherFrom
      <3> QED
        BY <1>1, <1>2, <1>3, <1>6, <2>1, <3>1 DEF atEnd, atSegment, atKey
    <2>2. CASE ~toks[k].ws
      <3>1. furtherFrom(toks, k, f) = IF /\ isA(toks, k + 1, "str") /\ ~toks[k + 1].ws
                                         /\ isOp(toks, k + 2, "]") /\ ~toks[k + 2].ws
                                      THEN preceded(key(toks[k + 1].v), f[k + 3]) ELSE SyntaxFault
        BY <1>2, <1>6, <2>2 DEF furtherFrom
      <3> QED
        BY <1>1, <1>2, <1>3, <1>6, <2>2, <3>1 DEF atEnd, atSegment, atKey
    <2> QED
      BY <2>1, <2>2
  <1> QED
    BY <1>4, <1>5, <1>6 DEF atEnd

\* What a list of segments is, by the last of them.
LastSegment(toks, i, j, s) ==
    \/ j = i + 1 /\ isA(toks, i, "id") /\ s = <<seg(toks[i].v)>>
    \/ /\ j >= i + 3 /\ isOp(toks, j - 2, ".") /\ isA(toks, j - 1, "id")
       /\ \E r \in segmentLists(toks, i)[j - 2] : s = Append(r, seg(toks[j - 1].v))
    \/ /\ j >= i + 4 /\ isOp(toks, j - 3, "[") /\ isA(toks, j - 2, "str")
       /\ isOp(toks, j - 1, "]")
       /\ \E r \in segmentLists(toks, i)[j - 3] : s = Append(r, key(toks[j - 2].v))

LEMMA ListsStep ==
  ASSUME NEW toks, isList(toks), NEW i, NEW j \in places(toks), NEW s
  PROVE  s \in segmentLists(toks, i)[j] <=> LastSegment(toks, i, j, s)
  <1>1. segmentLists(toks, i)[j] = listsTo(toks, i, j, segmentLists(toks, i))
    BY ListsUnfold
  <1> QED
    BY <1>1 DEF listsTo, LastSegment

LEMMA ListsAreLists ==
  ASSUME NEW toks, isList(toks), NEW i \in places(toks), NEW j \in places(toks),
         NEW s \in segmentLists(toks, i)[j]
  PROVE  isList(s) /\ isA(toks, i, "id") /\ j >= i + 1
  <1>1. PICK n \in Nat : n = Len(toks) /\ DOMAIN toks = 1..n /\ places(toks) = 1 .. n + 1
    BY PlacesOf
  <1> DEFINE Good(k) == \A r \in segmentLists(toks, i)[k] : isList(r) /\ isA(toks, i, "id") /\ k >= i + 1
  <1> DEFINE S == {m \in Nat : \A k \in places(toks) : k <= m => Good(k)}
  <1>2. 0 \in S
    BY <1>1
  <1>3. ASSUME NEW m \in S PROVE m + 1 \in S
    <2>1. m \in Nat /\ \A k \in places(toks) : k <= m => Good(k)
      OBVIOUS
    <2>2. ASSUME NEW k \in places(toks), k <= m + 1 PROVE Good(k)
      <3> SUFFICES ASSUME NEW r \in segmentLists(toks, i)[k]
                   PROVE  isList(r) /\ isA(toks, i, "id") /\ k >= i + 1
        OBVIOUS
      <3>1. \/ k = i + 1 /\ isA(toks, i, "id") /\ r = <<seg(toks[i].v)>>
            \/ /\ k >= i + 3 /\ isOp(toks, k - 2, ".") /\ isA(toks, k - 1, "id")
               /\ \E q \in segmentLists(toks, i)[k - 2] : r = Append(q, seg(toks[k - 1].v))
            \/ /\ k >= i + 4 /\ isOp(toks, k - 3, "[") /\ isA(toks, k - 2, "str")
               /\ isOp(toks, k - 1, "]")
               /\ \E q \in segmentLists(toks, i)[k - 3] : r = Append(q, key(toks[k - 2].v))
        BY ListsStep DEF LastSegment
      <3>2. CASE k = i + 1 /\ isA(toks, i, "id") /\ r = <<seg(toks[i].v)>>
        <4>1. isList(r)
          BY <3>2, SingletonList
        <4> QED
          BY <1>1, <3>2, <4>1
      <3>3. ASSUME k >= i + 3, NEW d \in {2, 3}, NEW q \in segmentLists(toks, i)[k - d], NEW x, r = Append(q, x),
                   k - d \in places(toks)
            PROVE  isList(r) /\ isA(toks, i, "id") /\ k >= i + 1
        <4>1. Good(k - d)
          BY <1>1, <2>1, <2>2, <3>3
        <4>2. isList(q) /\ isA(toks, i, "id")
          BY <3>3, <4>1
        <4>3. isList(r)
          BY <3>3, <4>2, AppendList
        <4> QED
          BY <1>1, <3>3, <4>2, <4>3
      <3>4. isOp(toks, k - 2, ".") => k - 2 \in places(toks)
        BY TokenPlace DEF isOp
      <3>5. isOp(toks, k - 3, "[") => k - 3 \in places(toks)
        BY TokenPlace DEF isOp
      <3>6. k >= i + 4 => k >= i + 3
        BY <1>1
      <3> QED
        BY <3>1, <3>2, <3>3, <3>4, <3>5, <3>6
    <2> HIDE DEF Good
    <2> QED
      BY <2>1, <2>2
  <1>4. S \in SUBSET Nat
    OBVIOUS
  <1>5. S = Nat
    <2> HIDE DEF S
    <2> QED
      BY <1>2, <1>3, <1>4, Induction
  <1>6. n + 1 \in S
    <2>1. n + 1 \in Nat
      BY <1>1
    <2> QED
      BY <1>5, <2>1, Zenon
  <1>7. j <= n + 1
    BY <1>1
  <1>8. Good(j)
    BY <1>6, <1>7
  <1> QED
    BY <1>8

\* Lists from the left and from the right.
LEMMA Associates ==
  ASSUME NEW s, isList(s), NEW x, NEW r, isList(r)
  PROVE  Append(s, x) \o r = s \o (<<x>> \o r)
  <1> DEFINE S == Range(s) \union {x} \union Range(r)
  <1>1. s \in Seq(S) /\ r \in Seq(S)
    <2>1. Range(s) \subseteq S /\ Range(r) \subseteq S
      OBVIOUS
    <2> HIDE DEF S
    <2> QED
      BY <2>1, ListIn
  <1>2. x \in S
    OBVIOUS
  <1> HIDE DEF S
  <1>3. <<x>> \in Seq(S)
    BY <1>2
  <1>4. Append(s, x) = s \o <<x>>
    BY <1>1, <1>2, AppendIsConcat
  <1>5. (s \o <<x>>) \o r = s \o (<<x>> \o r)
    BY <1>1, <1>3, ConcatAssociative
  <1> QED
    BY <1>4, <1>5

LEMMA WithNothing ==
  ASSUME NEW s, isList(s)
  PROVE  s \o <<>> = s
  BY ConcatEmptySeq DEF isList
\* What the reader of segments gives from place k on: with any list of segments that
\* ends at k, it makes a longer one.
RestRead(toks, k, e) ==
    e.ok => /\ \E node, nodes, at : e = [ok |-> TRUE, node |-> node, nodes |-> nodes,
                                         at |-> at, refs |-> <<>>]
            /\ isList(e.node)
            /\ e.at \in places(toks) /\ e.at >= k
            /\ \A n \in k .. e.at - 1 : ~toks[n].ws
            /\ \A i \in places(toks) : i < k =>
                 \A s \in segmentLists(toks, i)[k] : s \o e.node \in segmentLists(toks, i)[e.at]

LEMMA TailIsEnd ==
  ASSUME NEW toks, isList(toks), NEW k \in places(toks)
  PROVE  RestRead(toks, k, parsed(<<>>, {}, k, <<>>))
  <1> DEFINE e == parsed(<<>>, {}, k, <<>>)
  <1>1. /\ e = [ok |-> TRUE, node |-> <<>>, nodes |-> {<<>>}, at |-> k, refs |-> <<>>]
        /\ e.node = <<>> /\ e.at = k
    BY DEF parsed
  <1>2. isList(<<>>)
    BY EmptyList
  <1>3. k \in Int
    BY PlacesOf
  <1>4. ASSUME NEW i \in places(toks), NEW s \in segmentLists(toks, i)[k]
        PROVE  s \o <<>> \in segmentLists(toks, i)[k]
    <2>1. isList(s)
      BY <1>4, ListsAreLists
    <2> QED
      BY <1>4, <2>1, WithNothing
  <1>5. \A n \in k .. k - 1 : ~toks[n].ws
    BY <1>3
  <1> HIDE DEF e
  <1>6. k >= k
    BY <1>3
  <1> QED
    BY <1>1, <1>2, <1>4, <1>5, <1>6 DEF RestRead, e

\* One more segment before the tail, of two tokens or of three.
LEMMA TailPreceded ==
  ASSUME NEW toks, isList(toks), NEW k \in places(toks), NEW d \in {2, 3},
         k + d \in places(toks), NEW x, NEW rest, RestRead(toks, k + d, rest),
         \A n \in k .. k + d - 1 : ~toks[n].ws,
         \A i \in places(toks) : i < k =>
           \A s \in segmentLists(toks, i)[k] : Append(s, x) \in segmentLists(toks, i)[k + d]
  PROVE  RestRead(toks, k, preceded(x, rest))
  <1>1. CASE ~rest.ok
    BY <1>1 DEF preceded, RestRead
  <1>2. CASE rest.ok
    <2>1. PICK node, nodes, at : rest = [ok |-> TRUE, node |-> node, nodes |-> nodes,
                                         at |-> at, refs |-> <<>>]
      BY <1>2 DEF RestRead
    <2> DEFINE e == preceded(x, rest)
    <2>2. /\ e = [ok |-> TRUE, node |-> <<x>> \o node, nodes |-> nodes, at |-> at, refs |-> <<>>]
          /\ rest.node = node /\ rest.at = at
      BY <1>2, <2>1 DEF preceded
    <2>3. e.node = <<x>> \o node /\ e.at = at
      BY <2>2
    <2>4. /\ isList(node) /\ at \in places(toks) /\ at >= k + d
          /\ \A n \in k + d .. at - 1 : ~toks[n].ws
          /\ \A i \in places(toks) : i < k + d =>
               \A s \in segmentLists(toks, i)[k + d] : s \o node \in segmentLists(toks, i)[at]
      BY <1>2, <2>2 DEF RestRead
    <2>5. isList(<<x>> \o node)
      BY <2>4, SingletonList, ConcatList
    <2>6. k \in Int /\ at \in Int
      BY <2>4, PlacesOf
    <2>7. at >= k /\ \A n \in k .. at - 1 : ~toks[n].ws
      <3>1. \A n \in k .. at - 1 : n \in k .. k + d - 1 \/ n \in k + d .. at - 1
        BY <2>6
      <3> QED
        BY <2>4, <2>6, <3>1
    <2>8. ASSUME NEW i \in places(toks), i < k, NEW s \in segmentLists(toks, i)[k]
          PROVE  s \o (<<x>> \o node) \in segmentLists(toks, i)[at]
      <3>1. isList(s)
        BY <2>8, ListsAreLists
      <3>2. Append(s, x) \o node \in segmentLists(toks, i)[at]
        <4>1. i < k + d
          <5>1. i \in Int
            BY PlacesOf
          <5> QED
            BY <2>6, <2>8, <5>1
        <4> QED
          BY <2>4, <2>8, <4>1
      <3> QED
        <4>1. Append(s, x) \o node = s \o (<<x>> \o node)
          BY <2>4, <3>1, Associates
        <4> QED
          BY <3>2, <4>1
    <2> HIDE DEF e
    <2> QED
      BY <2>2, <2>3, <2>4, <2>5, <2>7, <2>8 DEF RestRead, e
  <1> QED
    BY <1>1, <1>2

LEMMA TailIsRead ==
  ASSUME NEW toks, isList(toks), NEW k \in places(toks)
  PROVE  RestRead(toks, k, furtherSegments(toks)[k])
  <1>1. PICK l \in Nat : l = Len(toks) /\ DOMAIN toks = 1..l /\ places(toks) = 1 .. l + 1
    BY PlacesOf
  <1> DEFINE f == furtherSegments(toks)
  <1>0. f = furtherSegments(toks)
    OBVIOUS
  <1> HIDE DEF f
  <1> DEFINE S == {m \in Nat : \A j \in places(toks) : j + m > l + 1 => RestRead(toks, j, f[j])}
  <1>2. 0 \in S
    BY <1>1
  <1>3. ASSUME NEW m \in S PROVE m + 1 \in S
    <2>1. m \in Nat /\ \A j \in places(toks) : j + m > l + 1 => RestRead(toks, j, f[j])
      OBVIOUS
    <2>2. ASSUME NEW j \in places(toks), j + (m + 1) > l + 1 PROVE RestRead(toks, j, f[j])
      <3>1. /\ atEnd(toks, j) => f[j] = parsed(<<>>, {}, j, <<>>)
            /\ atSegment(toks, j) => f[j] = preceded(seg(toks[j + 1].v), f[j + 2])
            /\ atKey(toks, j) => f[j] = preceded(key(toks[j + 1].v), f[j + 3])
            /\ f[j].ok => atEnd(toks, j) \/ atSegment(toks, j) \/ atKey(toks, j)
        BY <1>0, FurtherStep
      <3>2. CASE atEnd(toks, j)
        BY <3>1, <3>2, TailIsEnd
      <3>a. j \in Int
        BY <1>1
      <3>3. CASE atSegment(toks, j)
        <4>1. j + 2 \in places(toks) /\ (j + 1) + 1 = j + 2
          BY <1>1, <3>3, <3>a, TokenPlace DEF atSegment
        <4>2. RestRead(toks, j + 2, f[j + 2])
          BY <1>1, <2>1, <2>2, <4>1
        <4>3. \A n \in j .. j + 2 - 1 : ~toks[n].ws
          <5>1. \A n \in j .. j + 2 - 1 : n = j \/ n = j + 1
            BY <3>a
          <5> QED
            BY <3>3, <5>1 DEF atSegment
        <4>4. ASSUME NEW i \in places(toks), i < j, NEW s \in segmentLists(toks, i)[j]
              PROVE  Append(s, seg(toks[j + 1].v)) \in segmentLists(toks, i)[j + 2]
          <5>1. j + 2 >= i + 3 /\ (j + 2) - 2 = j /\ (j + 2) - 1 = j + 1
            BY <1>1, <4>4
          <5> QED
            BY <3>3, <4>1, <4>4, <5>1, ListsStep DEF atSegment, LastSegment
        <4> QED
          BY <3>1, <3>3, <4>1, <4>2, <4>3, <4>4, TailPreceded
      <3>4. CASE atKey(toks, j)
        <4>1. j + 3 \in places(toks) /\ (j + 2) + 1 = j + 3
          BY <1>1, <3>4, <3>a, TokenPlace DEF atKey, isOp
        <4>2. RestRead(toks, j + 3, f[j + 3])
          BY <1>1, <2>1, <2>2, <4>1
        <4>3. \A n \in j .. j + 3 - 1 : ~toks[n].ws
          <5>1. \A n \in j .. j + 3 - 1 : n = j \/ n = j + 1 \/ n = j + 2
            BY <3>a
          <5> QED
            BY <3>4, <5>1 DEF atKey
        <4>4. ASSUME NEW i \in places(toks), i < j, NEW s \in segmentLists(toks, i)[j]
              PROVE  Append(s, key(toks[j + 1].v)) \in segmentLists(toks, i)[j + 3]
          <5>1. j + 3 >= i + 4 /\ (j + 3) - 3 = j /\ (j + 3) - 2 = j + 1 /\ (j + 3) - 1 = j + 2
            BY <1>1, <4>4
          <5> QED
            <6>1. segmentLists(toks, i)[(j + 3) - 3] = segmentLists(toks, i)[j]
              BY <5>1
            <6>2. /\ isOp(toks, (j + 3) - 3, "[") /\ isA(toks, (j + 3) - 2, "str")
                  /\ isOp(toks, (j + 3) - 1, "]")
              BY <3>4, <5>1 DEF atKey
            <6> QED
              BY <4>1, <4>4, <5>1, <6>1, <6>2, ListsStep DEF LastSegment
        <4> QED
          BY <3>1, <3>4, <4>1, <4>2, <4>3, <4>4, TailPreceded
      <3>5. CASE ~f[j].ok
        BY <3>5 DEF RestRead
      <3> QED
        BY <3>1, <3>2, <3>3, <3>4, <3>5
    <2> QED
      BY <2>1, <2>2
  <1>4. S \in SUBSET Nat
    OBVIOUS
  <1>5. S = Nat
    <2> HIDE DEF S
    <2> QED
      BY <1>2, <1>3, <1>4, Induction
  <1>6. l + 1 \in S
    <2>1. l + 1 \in Nat
      BY <1>1
    <2> QED
      BY <1>5, <2>1, Zenon
  <1>7. k + (l + 1) > l + 1
    BY <1>1
  <1> QED
    BY <1>6, <1>7 DEF f
\* A reference that the parser accepts is one of the grammar's.
LEMMA ReferenceIsSound ==
  ASSUME NEW toks, isList(toks), NEW i \in places(toks), reference(toks, i).ok
  PROVE  LET e == reference(toks, i)
         IN e.at \in places(toks) /\ e.at > i /\ e.node \in referenceTrees(toks, i, e.at)
  <1> DEFINE e == reference(toks, i)
  <1> DEFINE first == seg(toks[i].v)
  <1> DEFINE rest == furtherSegments(toks)[i + 1]
  <1> DEFINE segs == <<first>> \o rest.node
  <1>1. ~SyntaxFault.ok
    BY DEF SyntaxFault
  <1>2. isA(toks, i, "id") /\ e = referenceOf(first, rest)
    BY <1>1 DEF reference
  <1>3. i + 1 \in places(toks) /\ i \in Int
    BY <1>2, TokenPlace
  <1>4. /\ rest.ok /\ segs \notin Literals
        /\ e = parsed([k |-> "ref", ref |-> classify(segs)], {}, rest.at, <<classify(segs)>>)
    BY <1>1, <1>2 DEF referenceOf
  <1>5. e.at = rest.at /\ e.node = [k |-> "ref", ref |-> classify(segs)]
    BY <1>4 DEF parsed
  <1>6. RestRead(toks, i + 1, rest)
    BY <1>3, TailIsRead
  <1>7. <<first>> \in segmentLists(toks, i)[i + 1]
    BY <1>2, <1>3, ListsStep DEF LastSegment
  <1> HIDE DEF e, rest, first
  <1>8. /\ rest.at \in places(toks) /\ rest.at >= i + 1
        /\ \A n \in i + 1 .. rest.at - 1 : ~toks[n].ws
        /\ <<first>> \o rest.node \in segmentLists(toks, i)[rest.at]
    <2>1. i < i + 1
      BY <1>3
    <2> QED
      BY <1>4, <1>6, <1>7, <2>1 DEF RestRead
  <1>9. rest.at > i
    <2>1. rest.at \in Int
      BY <1>8, PlacesOf
    <2> QED
      BY <1>3, <1>8, <2>1
  <1>10. [k |-> "ref", ref |-> classify(segs)] \in referenceTrees(toks, i, rest.at)
    <2>1. adjoined(toks, i, rest.at)
      BY <1>8 DEF adjoined
    <2>2. segs \in segmentLists(toks, i)[rest.at] \ Literals
      BY <1>4, <1>8
    <2> HIDE DEF segs
    <2> QED
      BY <2>1, <2>2 DEF referenceTrees
  <1> QED
    BY <1>5, <1>8, <1>9, <1>10 DEF e

\* One more segment of a list is one less that is left to be read.
ReadFrom(toks, i, j, s) ==
    LET f == furtherSegments(toks)
    IN \/ ~f[j].ok
       \/ /\ f[i + 1].ok /\ f[i + 1].at = f[j].at
          /\ <<seg(toks[i].v)>> \o f[i + 1].node = s \o f[j].node

LEMMA OneMoreSegment ==
  ASSUME NEW toks, isList(toks), NEW i, NEW j, NEW k \in places(toks),
         NEW r, isList(r), NEW x, ReadFrom(toks, i, j, r),
         furtherSegments(toks)[j] = preceded(x, furtherSegments(toks)[k])
  PROVE  ReadFrom(toks, i, k, Append(r, x))
  <1> DEFINE f == furtherSegments(toks)
  <1> SUFFICES ASSUME f[k].ok
               PROVE  /\ f[i + 1].ok /\ f[i + 1].at = f[k].at
                      /\ <<seg(toks[i].v)>> \o f[i + 1].node = Append(r, x) \o f[k].node
    BY DEF ReadFrom
  <1>0. f = furtherSegments(toks)
    OBVIOUS
  <1>1. RestRead(toks, k, f[k])
    BY TailIsRead
  <1> HIDE DEF f
  <1> DEFINE rest == f[k]
  <1>2. RestRead(toks, k, rest) /\ rest.ok
    BY <1>1
  <1>3. f[j] = preceded(x, rest)
    BY <1>0, Zenon
  <1> HIDE DEF rest
  <1>4. PICK node, nodes, at : rest = [ok |-> TRUE, node |-> node, nodes |-> nodes,
                                       at |-> at, refs |-> <<>>]
    BY <1>2 DEF RestRead
  <1>5. isList(node) /\ rest.node = node /\ rest.at = at
    BY <1>2, <1>4 DEF RestRead
  <1>6. preceded(x, rest)
          = [ok |-> TRUE, node |-> <<x>> \o node, nodes |-> nodes, at |-> at, refs |-> <<>>]
    BY <1>4 DEF preceded
  <1>7. f[j].ok /\ f[j].at = at /\ f[j].node = <<x>> \o node
    BY <1>3, <1>6
  <1>8. Append(r, x) \o node = r \o (<<x>> \o node)
    BY <1>5, Associates
  <1>9. f[i + 1].ok /\ f[i + 1].at = at
        /\ <<seg(toks[i].v)>> \o f[i + 1].node = r \o (<<x>> \o node)
    BY <1>0, <1>7 DEF ReadFrom
  <1> QED
    BY <1>5, <1>8, <1>9 DEF rest

LEMMA ListsAreRead ==
  ASSUME NEW toks, isList(toks), NEW i \in places(toks), NEW j \in places(toks),
         NEW s \in segmentLists(toks, i)[j], adjoined(toks, i, j)
  PROVE  ReadFrom(toks, i, j, s)
  <1>1. PICK l \in Nat : l = Len(toks) /\ DOMAIN toks = 1..l /\ places(toks) = 1 .. l + 1
    BY PlacesOf
  <1> DEFINE Good(k) == adjoined(toks, i, k) => \A r \in segmentLists(toks, i)[k] : ReadFrom(toks, i, k, r)
  <1> DEFINE S == {m \in Nat : \A k \in places(toks) : k <= m => Good(k)}
  <1>2. 0 \in S
    BY <1>1
  <1>3. ASSUME NEW m \in S PROVE m + 1 \in S
    <2>1. m \in Nat /\ \A k \in places(toks) : k <= m => Good(k)
      OBVIOUS
    <2>2. ASSUME NEW k \in places(toks), k <= m + 1 PROVE Good(k)
      <3> SUFFICES ASSUME adjoined(toks, i, k), NEW r \in segmentLists(toks, i)[k]
                   PROVE  ReadFrom(toks, i, k, r)
        OBVIOUS
      <3>1. LastSegment(toks, i, k, r)
        BY ListsStep
      <3>2. CASE k = i + 1 /\ isA(toks, i, "id") /\ r = <<seg(toks[i].v)>>
        BY <3>2 DEF ReadFrom
      <3>3. CASE /\ k >= i + 3 /\ isOp(toks, k - 2, ".") /\ isA(toks, k - 1, "id")
                 /\ \E q \in segmentLists(toks, i)[k - 2] : r = Append(q, seg(toks[k - 1].v))
        <4>1. PICK q \in segmentLists(toks, i)[k - 2] : r = Append(q, seg(toks[k - 1].v))
          BY <3>3
        <4>2. k - 2 \in places(toks) /\ k - 2 <= m /\ (k - 2) + 1 = k - 1 /\ (k - 2) + 2 = k
          <5>1. k - 2 \in places(toks)
            BY <3>3, TokenPlace DEF isOp
          <5> QED
            BY <1>1, <2>1, <2>2, <5>1
        <4>3. k - 2 \in i + 1 .. k - 1 /\ k - 1 \in i + 1 .. k - 1
          BY <1>1, <3>3
        <4>4. atSegment(toks, k - 2)
          BY <3>3, <4>2, <4>3 DEF atSegment, adjoined
        <4>5. furtherSegments(toks)[k - 2] = preceded(seg(toks[k - 1].v), furtherSegments(toks)[k])
          BY <4>2, <4>4, FurtherStep
        <4>6. adjoined(toks, i, k - 2)
          BY <1>1, <3>3 DEF adjoined
        <4>7. ReadFrom(toks, i, k - 2, q)
          BY <2>1, <4>1, <4>2, <4>6
        <4>8. isList(q)
          BY <4>1, <4>2, ListsAreLists
        <4> QED
          BY <4>1, <4>5, <4>7, <4>8, OneMoreSegment
      <3>4. CASE /\ k >= i + 4 /\ isOp(toks, k - 3, "[") /\ isA(toks, k - 2, "str")
                 /\ isOp(toks, k - 1, "]")
                 /\ \E q \in segmentLists(toks, i)[k - 3] : r = Append(q, key(toks[k - 2].v))
        <4>1. PICK q \in segmentLists(toks, i)[k - 3] : r = Append(q, key(toks[k - 2].v))
          BY <3>4
        <4>2. k - 3 \in places(toks) /\ k - 3 <= m /\ (k - 3) + 1 = k - 2 /\ (k - 3) + 2 = k - 1
              /\ (k - 3) + 3 = k
          <5>1. k - 3 \in places(toks)
            BY <3>4, TokenPlace DEF isOp
          <5> QED
            BY <1>1, <2>1, <2>2, <5>1
        <4>3. k - 3 \in i + 1 .. k - 1 /\ k - 2 \in i + 1 .. k - 1 /\ k - 1 \in i + 1 .. k - 1
          BY <1>1, <3>4
        <4>4. atKey(toks, k - 3)
          BY <3>4, <4>2, <4>3 DEF atKey, adjoined
        <4>5. furtherSegments(toks)[k - 3] = preceded(key(toks[k - 2].v), furtherSegments(toks)[k])
          BY <4>2, <4>4, FurtherStep
        <4>6. adjoined(toks, i, k - 3)
          BY <1>1, <3>4 DEF adjoined
        <4>7. ReadFrom(toks, i, k - 3, q)
          BY <2>1, <4>1, <4>2, <4>6
        <4>8. isList(q)
          BY <4>1, <4>2, ListsAreLists
        <4> QED
          BY <4>1, <4>5, <4>7, <4>8, OneMoreSegment
      <3> QED
        BY <3>1, <3>2, <3>3, <3>4 DEF LastSegment
    <2> HIDE DEF Good
    <2> QED
      BY <2>1, <2>2
  <1>4. S \in SUBSET Nat
    OBVIOUS
  <1>5. S = Nat
    <2> HIDE DEF S
    <2> QED
      BY <1>2, <1>3, <1>4, Induction
  <1>6. l + 1 \in S
    <2>1. l + 1 \in Nat
      BY <1>1
    <2> QED
      BY <1>5, <2>1, Zenon
  <1>7. j <= l + 1
    BY <1>1
  <1> QED
    BY <1>6, <1>7

\* Where no segment follows, the reference of the grammar is the one that is read.
LEMMA ReferenceIsComplete ==
  ASSUME NEW toks, isList(toks), NEW i \in places(toks), NEW j \in places(toks),
         NEW t \in referenceTrees(toks, i, j), atEnd(toks, j)
  PROVE  /\ reference(toks, i).ok /\ reference(toks, i).node = t /\ reference(toks, i).at = j
         /\ isA(toks, i, "id")
  <1>1. adjoined(toks, i, j)
    BY DEF referenceTrees
  <1>2. PICK s \in segmentLists(toks, i)[j] \ Literals : t = [k |-> "ref", ref |-> classify(s)]
    BY <1>1 DEF referenceTrees
  <1>3. isA(toks, i, "id") /\ isList(s)
    BY <1>2, ListsAreLists
  <1>4. ReadFrom(toks, i, j, s)
    BY <1>1, <1>2, ListsAreRead
  <1> DEFINE f == furtherSegments(toks)
  <1>5. f[j] = parsed(<<>>, {}, j, <<>>)
    BY FurtherStep
  <1>6. f[j].ok /\ f[j].at = j /\ f[j].node = <<>>
    BY <1>5 DEF parsed
  <1>7. /\ f[i + 1].ok /\ f[i + 1].at = j
        /\ <<seg(toks[i].v)>> \o f[i + 1].node = s \o <<>>
    BY <1>4, <1>6 DEF ReadFrom
  <1>8. reference(toks, i) = referenceOf(seg(toks[i].v), f[i + 1])
    BY <1>3 DEF reference
  <1> HIDE DEF f
  <1>9. <<seg(toks[i].v)>> \o f[i + 1].node = s
    BY <1>3, <1>7, WithNothing
  <1>10. referenceOf(seg(toks[i].v), f[i + 1])
           = parsed([k |-> "ref", ref |-> classify(s)], {}, j, <<classify(s)>>)
    BY <1>2, <1>7, <1>9 DEF referenceOf
  <1> QED
    BY <1>2, <1>3, <1>8, <1>10 DEF parsed
-----------------------------------------------------------------------------
(* How many operators of a kind there are in a span. *)

among(toks, v, i, j) == {x \in i .. j - 1 : isOp(toks, x, v)}
count(toks, v, i, j) == Cardinality(among(toks, v, i, j))

LEMMA AmongIsFinite ==
  ASSUME NEW toks, isList(toks), NEW v, NEW i \in places(toks), NEW j \in places(toks)
  PROVE  IsFiniteSet(among(toks, v, i, j)) /\ count(toks, v, i, j) \in Nat
  <1>1. i \in Int /\ j - 1 \in Int
    BY PlacesOf
  <1>2. IsFiniteSet(i .. j - 1)
    BY <1>1, FS_Interval
  <1>3. among(toks, v, i, j) \in SUBSET (i .. j - 1)
    BY DEF among
  <1>4. IsFiniteSet(among(toks, v, i, j))
    BY <1>2, <1>3, FS_Subset
  <1> QED
    BY <1>4, FS_CardinalityType DEF count

LEMMA CountWithin ==
  ASSUME NEW toks, isList(toks), NEW v, NEW i \in places(toks), NEW j \in places(toks),
         NEW a \in places(toks), NEW b \in places(toks), i <= a, b <= j
  PROVE  count(toks, v, a, b) <= count(toks, v, i, j)
  <1>1. i \in Int /\ j \in Int /\ a \in Int /\ b \in Int
    BY PlacesOf
  <1>2. among(toks, v, a, b) \in SUBSET among(toks, v, i, j)
    BY <1>1 DEF among
  <1> QED
    BY <1>2, AmongIsFinite, FS_Subset DEF count

\* One that is left out makes the count less.
LEMMA CountLess ==
  ASSUME NEW toks, isList(toks), NEW v, NEW i \in places(toks), NEW j \in places(toks),
         NEW a \in places(toks), NEW b \in places(toks), i <= a, b <= j,
         NEW x \in i .. j - 1, isOp(toks, x, v), x \notin a .. b - 1
  PROVE  count(toks, v, a, b) + 1 <= count(toks, v, i, j)
  <1>1. i \in Int /\ j \in Int /\ a \in Int /\ b \in Int
    BY PlacesOf
  <1> DEFINE A == among(toks, v, a, b)
  <1> DEFINE B == among(toks, v, i, j)
  <1>2. A \in SUBSET B /\ x \in B /\ x \notin A
    BY <1>1 DEF among
  <1>3. IsFiniteSet(A) /\ IsFiniteSet(B) /\ Cardinality(A) \in Nat
    BY AmongIsFinite DEF count
  <1>4. A \union {x} \in SUBSET B
    BY <1>2
  <1>a. count(toks, v, a, b) = Cardinality(A) /\ count(toks, v, i, j) = Cardinality(B)
    BY DEF count
  <1> HIDE DEF A, B
  <1>5. Cardinality(A \union {x}) = Cardinality(A) + 1
    BY <1>2, <1>3, FS_AddElement
  <1>6. Cardinality(A \union {x}) <= Cardinality(B)
    BY <1>3, <1>4, FS_Subset
  <1> QED
    BY <1>a, <1>5, <1>6

LEMMA CountAll ==
  ASSUME NEW toks, isList(toks), NEW v, NEW i \in places(toks), NEW j \in places(toks)
  PROVE  count(toks, v, i, j) <= rounds(toks, {v})
  <1>1. PICK n \in Nat : n = Len(toks) /\ DOMAIN toks = 1..n /\ places(toks) = 1 .. n + 1
    BY PlacesOf
  <1> DEFINE B == {x \in DOMAIN toks : \E w \in {v} : isOp(toks, x, w)}
  <1>2. among(toks, v, i, j) \in SUBSET B
    BY <1>1 DEF among
  <1>3. IsFiniteSet(1..n)
    <2>1. 1 \in Int /\ n \in Int
      BY <1>1
    <2> QED
      BY <2>1, FS_Interval
  <1>4. IsFiniteSet(B)
    BY <1>1, <1>3, FS_Subset
  <1>5. rounds(toks, {v}) = Cardinality(B)
    BY DEF rounds
  <1> HIDE DEF B
  <1> QED
    BY <1>2, <1>4, <1>5, FS_Subset DEF count
-----------------------------------------------------------------------------
(***************************************************************************)
(* The descent reads a nonterminal as the grammar derives it: what it      *)
(* reads is derived, and what is derived is read, where nothing follows    *)
(* that would go on with it and groups nest less deep than the reader can. *)
(***************************************************************************)
EndsThere(toks, nt, j) ==
    /\ atEnd(toks, j)
    /\ nt # "negand" => ~isOp(toks, j, "==") /\ ~isOp(toks, j, "!=")
    /\ nt \in {"and", "or"} => ~isOp(toks, j, "&&")
    /\ nt = "or" => ~isOp(toks, j, "||")

ReadTo(e, t, j) == e.ok /\ e.node = t /\ e.at = j

OnlyDerived(toks, nt, i, e) ==
    e.ok => e.at \in places(toks) /\ e.at > i /\ e.node \in derivations(toks)[<<nt, i, e.at>>]

AllDerived(toks, nt, d, i, e) ==
    \A j \in places(toks) : \A t \in derivations(toks)[<<nt, i, j>>] :
        EndsThere(toks, nt, j) /\ count(toks, "(", i, j) < d => ReadTo(e, t, j)

ReadsAs(toks, nt, d, i, e) == OnlyDerived(toks, nt, i, e) /\ AllDerived(toks, nt, d, i, e)

\* The productions of the grammar.
LEMMA NegandIs ==
  ASSUME NEW toks, isList(toks), NEW i \in places(toks), NEW j \in places(toks), NEW t
  PROVE  t \in derivations(toks)[<<"negand", i, j>>] <=>
           \/ t \in referenceTrees(toks, i, j)
           \/ /\ j >= i + 3 /\ isOp(toks, i, "(") /\ isOp(toks, j - 1, ")")
              /\ t \in derivations(toks)[<<"or", i + 1, j - 1>>]
  BY DerivationsUnfold DEF derived, nonterminals

LEMMA UnaryIs ==
  ASSUME NEW toks, isList(toks), NEW i \in places(toks), NEW j \in places(toks), NEW t
  PROVE  t \in derivations(toks)[<<"unary", i, j>>] <=>
           \/ t \in derivations(toks)[<<"negand", i, j>>]
           \/ t \in comparisonTrees(toks, i, j)
           \/ /\ j > i + 1 /\ isOp(toks, i, "!")
              /\ \E e \in derivations(toks)[<<"negand", i + 1, j>>] : t = [k |-> "not", e |-> e]
  BY DerivationsUnfold DEF derived, nonterminals

Level(nt, op, term) == \/ nt = "or" /\ op = "||" /\ term = "and"
                       \/ nt = "and" /\ op = "&&" /\ term = "unary"

JoinOf(toks, nt, op, term, i, j, t) ==
    \E n \in i .. j - 1 :
        /\ isOp(toks, n, op)
        /\ \E l \in derivations(toks)[<<nt, i, n>>] :
             \E r \in derivations(toks)[<<term, n + 1, j>>] : t = [k |-> nt, l |-> l, r |-> r]

LEMMA JoinIs ==
  ASSUME NEW toks, isList(toks), NEW i \in places(toks), NEW j \in places(toks), NEW t,
         NEW nt, NEW op, NEW term, Level(nt, op, term)
  PROVE  t \in derivations(toks)[<<nt, i, j>>] <=>
           \/ t \in derivations(toks)[<<term, i, j>>]
           \/ JoinOf(toks, nt, op, term, i, j, t)
  <1> DEFINE D == derivations(toks)
  <1>1. D[<<nt, i, j>>] = derived(toks, nt, i, j, D)
    BY DerivationsUnfold DEF nonterminals, Level
  <1> HIDE DEF D
  <1>2. D[<<nt, i, j>>] = D[<<term, i, j>>] \union joinedTrees(toks, nt, op, term, i, j, D)
    BY <1>1 DEF derived, Level
  <1>3. t \in joinedTrees(toks, nt, op, term, i, j, D) <=>
          \E n \in i .. j - 1 :
             /\ isOp(toks, n, op)
             /\ \E l \in D[<<nt, i, n>>] :
                  \E r \in D[<<term, n + 1, j>>] : t = [k |-> nt, l |-> l, r |-> r]
    <2> DEFINE at(n) == {[k |-> nt, l |-> l, r |-> r] : l \in D[<<nt, i, n>>],
                                                        r \in D[<<term, n + 1, j>>]}
    <2> DEFINE Ops == {m \in i .. j - 1 : isOp(toks, m, op)}
    <2>1. \A n : t \in at(n) <=> \E l \in D[<<nt, i, n>>] :
                  \E r \in D[<<term, n + 1, j>>] : t = [k |-> nt, l |-> l, r |-> r]
      OBVIOUS
    <2>2. joinedTrees(toks, nt, op, term, i, j, D) = UNION {at(n) : n \in Ops}
      BY DEF joinedTrees
    <2>3. \A n : n \in Ops <=> n \in i .. j - 1 /\ isOp(toks, n, op)
      OBVIOUS
    <2> HIDE DEF at, Ops
    <2>4. t \in UNION {at(n) : n \in Ops} <=> \E n \in Ops : t \in at(n)
      OBVIOUS
    <2> QED
      BY <2>1, <2>2, <2>3, <2>4, Zenon
  <1> QED
    BY <1>2, <1>3 DEF D, JoinOf

LEMMA ReferenceStarts ==
  ASSUME NEW toks, isList(toks), NEW i \in places(toks), NEW j \in places(toks),
         NEW t \in referenceTrees(toks, i, j)
  PROVE  isA(toks, i, "id") /\ \E ref : t = [k |-> "ref", ref |-> ref]
  BY ListsAreLists DEF referenceTrees

\* A reference, where no group starts.
LEMMA ReferenceReads ==
  ASSUME NEW toks, isList(toks), NEW d, NEW i \in places(toks), ~isOp(toks, i, "(")
  PROVE  ReadsAs(toks, "negand", d, i, reference(toks, i))
  <1> DEFINE e == reference(toks, i)
  <1>1. ASSUME e.ok
        PROVE  e.at \in places(toks) /\ e.at > i /\ e.node \in derivations(toks)[<<"negand", i, e.at>>]
    <2>1. e.at \in places(toks) /\ e.at > i /\ e.node \in referenceTrees(toks, i, e.at)
      BY <1>1, ReferenceIsSound
    <2> HIDE DEF e
    <2> QED
      BY <2>1, NegandIs
  <1>2. ASSUME NEW j \in places(toks), NEW t \in derivations(toks)[<<"negand", i, j>>],
               EndsThere(toks, "negand", j)
        PROVE  ReadTo(e, t, j)
    <2>1. t \in referenceTrees(toks, i, j)
      BY <1>2, NegandIs
    <2>2. atEnd(toks, j)
      BY <1>2 DEF EndsThere
    <2> QED
      BY <2>1, <2>2, ReferenceIsComplete DEF ReadTo
  <1> HIDE DEF e
  <1>3. OnlyDerived(toks, "negand", i, e)
    BY <1>1 DEF OnlyDerived
  <1>4. AllDerived(toks, "negand", d, i, e)
    BY <1>2 DEF AllDerived
  <1> QED
    BY <1>3, <1>4 DEF ReadsAs, e

\* A group nests one deeper than what is in it.
LEMMA GroupReads ==
  ASSUME NEW toks, isList(toks), NEW d \in Nat, NEW orExpr,
         \A j \in places(toks) : ReadsAs(toks, "or", d, j, orExpr[j]),
         NEW i \in places(toks), isOp(toks, i, "(")
  PROVE  ReadsAs(toks, "negand", d + 1, i, group(toks, i, orExpr))
  <1>1. i + 1 \in places(toks) /\ i \in Int
    BY TokenPlace DEF isOp
  <1> DEFINE e == orExpr[i + 1]
  <1> DEFINE c == group(toks, i, orExpr)
  <1>2. ReadsAs(toks, "or", d, i + 1, e)
    BY <1>1
  <1>3. c = IF e.ok /\ isOp(toks, e.at, ")") THEN parsed(e.node, e.nodes, e.at + 1, e.refs)
            ELSE SyntaxFault
    BY DEF group, closed
  <1> HIDE DEF e, c
  <1>4. c.ok => e.ok /\ isOp(toks, e.at, ")") /\ c.at = e.at + 1 /\ c.node = e.node
    BY <1>3 DEF parsed, SyntaxFault
  <1>5. e.ok /\ isOp(toks, e.at, ")") => c.ok /\ c.at = e.at + 1 /\ c.node = e.node
    BY <1>3 DEF parsed
  <1>6. ASSUME c.ok
        PROVE  c.at \in places(toks) /\ c.at > i /\ c.node \in derivations(toks)[<<"negand", i, c.at>>]
    <2>1. /\ e.at \in places(toks) /\ e.at > i + 1
          /\ e.node \in derivations(toks)[<<"or", i + 1, e.at>>]
      BY <1>2, <1>4, <1>6 DEF ReadsAs, OnlyDerived
    <2>2. e.at \in Int /\ e.at + 1 \in places(toks)
      BY <1>4, <1>6, TokenPlace DEF isOp
    <2>3. e.at + 1 > i /\ e.at + 1 >= i + 3 /\ (e.at + 1) - 1 = e.at
      BY <1>1, <2>1, <2>2
    <2>4. e.node \in derivations(toks)[<<"negand", i, e.at + 1>>]
      BY <1>4, <1>6, <2>1, <2>2, <2>3, NegandIs
    <2> QED
      BY <1>4, <1>6, <2>2, <2>3, <2>4
  <1>7. ASSUME NEW j \in places(toks), NEW t \in derivations(toks)[<<"negand", i, j>>],
               count(toks, "(", i, j) < d + 1
        PROVE  ReadTo(c, t, j)
    <2>1. t \notin referenceTrees(toks, i, j)
      BY ReferenceStarts DEF isOp, isA
    <2>2. j >= i + 3 /\ isOp(toks, j - 1, ")") /\ t \in derivations(toks)[<<"or", i + 1, j - 1>>]
      BY <2>1, NegandIs
    <2>3. j - 1 \in places(toks) /\ j \in Int
      BY <2>2, TokenPlace, PlacesOf DEF isOp
    <2>4. count(toks, "(", i + 1, j - 1) + 1 <= count(toks, "(", i, j)
      <3>1. i <= i + 1 /\ j - 1 <= j /\ i \in i .. j - 1 /\ i \notin i + 1 .. (j - 1) - 1
        BY <1>1, <2>2, <2>3
      <3> QED
        BY <1>1, <2>3, <3>1, CountLess
    <2>5. count(toks, "(", i + 1, j - 1) < d
      BY <1>1, <1>7, <2>3, <2>4, AmongIsFinite
    <2>6. EndsThere(toks, "or", j - 1)
      BY <2>2 DEF EndsThere, atEnd, isOp
    <2>7. ReadTo(e, t, j - 1)
      BY <1>2, <2>2, <2>3, <2>5, <2>6 DEF ReadsAs, AllDerived
    <2>8. (j - 1) + 1 = j
      BY <2>3
    <2> QED
      BY <1>5, <2>2, <2>7, <2>8 DEF ReadTo
  <1>8. OnlyDerived(toks, "negand", i, c)
    BY <1>6 DEF OnlyDerived
  <1>9. AllDerived(toks, "negand", d + 1, i, c)
    BY <1>7 DEF AllDerived
  <1> QED
    BY <1>8, <1>9 DEF ReadsAs, c

LEMMA NegandReads ==
  ASSUME NEW toks, isList(toks), NEW d \in Nat, NEW orExpr,
         \A j \in places(toks) : ReadsAs(toks, "or", d, j, orExpr[j]), NEW i \in places(toks)
  PROVE  ReadsAs(toks, "negand", d + 1, i, groupOrReference(toks, i, orExpr))
  BY GroupReads, ReferenceReads DEF groupOrReference
\* A negation of what is read as a negand.
LEMMA NegationReads ==
  ASSUME NEW toks, isList(toks), NEW d \in Nat, NEW i \in places(toks), isOp(toks, i, "!"),
         NEW e, ReadsAs(toks, "negand", d, i + 1, e)
  PROVE  ReadsAs(toks, "unary", d, i, negation(e))
  <1>1. i + 1 \in places(toks) /\ i \in Int
    BY TokenPlace DEF isOp
  <1> DEFINE c == negation(e)
  <1>2. c.ok <=> e.ok
    BY DEF negation, parsed
  <1>3. e.ok => c.at = e.at /\ c.node = [k |-> "not", e |-> e.node]
    BY DEF negation, parsed
  <1> HIDE DEF c
  <1>4. ASSUME c.ok
        PROVE  c.at \in places(toks) /\ c.at > i /\ c.node \in derivations(toks)[<<"unary", i, c.at>>]
    <2>1. /\ e.at \in places(toks) /\ e.at > i + 1
          /\ e.node \in derivations(toks)[<<"negand", i + 1, e.at>>]
      BY <1>2, <1>4 DEF ReadsAs, OnlyDerived
    <2>2. e.at \in Int
      BY <2>1, PlacesOf
    <2>3. e.at > i
      BY <1>1, <2>1, <2>2
    <2>4. c.node \in derivations(toks)[<<"unary", i, e.at>>]
      BY <1>2, <1>3, <1>4, <2>1, UnaryIs
    <2> QED
      BY <1>2, <1>3, <1>4, <2>1, <2>3, <2>4
  <1>5. ASSUME NEW j \in places(toks), NEW t \in derivations(toks)[<<"unary", i, j>>],
               EndsThere(toks, "unary", j), count(toks, "(", i, j) < d
        PROVE  ReadTo(c, t, j)
    <2>1. t \notin derivations(toks)[<<"negand", i, j>>]
      <3>1. ~isOp(toks, i, "(")
        BY DEF isOp
      <3>2. ~isA(toks, i, "id")
        BY DEF isOp, isA
      <3> QED
        BY <3>1, <3>2, NegandIs, ReferenceStarts
    <2>2. t \notin comparisonTrees(toks, i, j)
      <3> SUFFICES ASSUME t \in comparisonTrees(toks, i, j) PROVE FALSE
        OBVIOUS
      <3>1. /\ isOp(toks, j - 2, "==") \/ isOp(toks, j - 2, "!=")
            /\ \E r \in referenceTrees(toks, i, j - 2) : TRUE
        BY DEF comparisonTrees
      <3>2. j - 2 \in places(toks)
        BY <3>1, TokenPlace DEF isOp
      <3>3. isA(toks, i, "id")
        BY <3>1, <3>2, ReferenceStarts
      <3> QED
        BY <3>3 DEF isOp, isA
    <2>3. PICK r \in derivations(toks)[<<"negand", i + 1, j>>] : /\ j > i + 1
                                                                /\ t = [k |-> "not", e |-> r]
      BY <2>1, <2>2, UnaryIs
    <2>4. EndsThere(toks, "negand", j)
      BY <1>5 DEF EndsThere
    <2>5. count(toks, "(", i + 1, j) < d
      <3>1. i <= i + 1 /\ j <= j
        BY <1>1, PlacesOf
      <3>2. count(toks, "(", i + 1, j) <= count(toks, "(", i, j)
        BY <1>1, <3>1, CountWithin
      <3>3. count(toks, "(", i + 1, j) \in Nat /\ count(toks, "(", i, j) \in Nat
        BY <1>1, AmongIsFinite
      <3> QED
        BY <1>5, <3>2, <3>3
    <2>6. ReadTo(e, r, j)
      BY <2>4, <2>5 DEF ReadsAs, AllDerived
    <2> QED
      BY <1>2, <1>3, <2>3, <2>6 DEF ReadTo
  <1>6. OnlyDerived(toks, "unary", i, c)
    BY <1>4 DEF OnlyDerived
  <1>7. AllDerived(toks, "unary", d, i, c)
    BY <1>5 DEF AllDerived
  <1> QED
    BY <1>6, <1>7 DEF ReadsAs, c

\* A group that nothing is compared with.
LEMMA GroupReadsAsUnary ==
  ASSUME NEW toks, isList(toks), NEW d, NEW i \in places(toks), isOp(toks, i, "("),
         NEW e, ReadsAs(toks, "negand", d, i, e)
  PROVE  ReadsAs(toks, "unary", d, i, e)
  <1>1. ~isOp(toks, i, "!") /\ ~isA(toks, i, "id")
    BY DEF isOp, isA
  <1>2. OnlyDerived(toks, "unary", i, e)
    BY UnaryIs DEF ReadsAs, OnlyDerived
  <1>3. ASSUME NEW j \in places(toks), NEW t \in derivations(toks)[<<"unary", i, j>>],
               EndsThere(toks, "unary", j), count(toks, "(", i, j) < d
        PROVE  ReadTo(e, t, j)
    <2>1. t \notin comparisonTrees(toks, i, j)
      <3> SUFFICES ASSUME t \in comparisonTrees(toks, i, j) PROVE FALSE
        OBVIOUS
      <3>1. /\ isOp(toks, j - 2, "==") \/ isOp(toks, j - 2, "!=")
            /\ \E r \in referenceTrees(toks, i, j - 2) : TRUE
        BY DEF comparisonTrees
      <3>2. j - 2 \in places(toks)
        BY <3>1, TokenPlace DEF isOp
      <3> QED
        BY <1>1, <3>1, <3>2, ReferenceStarts
    <2>2. t \in derivations(toks)[<<"negand", i, j>>]
      BY <1>1, <2>1, UnaryIs
    <2>3. EndsThere(toks, "negand", j)
      BY <1>3 DEF EndsThere
    <2> QED
      BY <1>3, <2>2, <2>3 DEF ReadsAs, AllDerived
  <1>4. AllDerived(toks, "unary", d, i, e)
    BY <1>3 DEF AllDerived
  <1> QED
    BY <1>2, <1>4 DEF ReadsAs

\* A reference, and what it is compared with.
LEMMA ComparisonReads ==
  ASSUME NEW toks, isList(toks), NEW d, NEW i \in places(toks),
         ~isOp(toks, i, "("), ~isOp(toks, i, "!")
  PROVE  ReadsAs(toks, "unary", d, i, comparison(toks, reference(toks, i)))
  <1> DEFINE e == reference(toks, i)
  <1> DEFINE c == comparison(toks, e)
  <1> DEFINE compared == isOp(toks, e.at, "==") \/ isOp(toks, e.at, "!=")
  <1>1. e.ok => e.at \in places(toks) /\ e.at > i /\ e.node \in referenceTrees(toks, i, e.at)
    BY ReferenceIsSound
  <1>2. ReadsAs(toks, "negand", d, i, e)
    BY ReferenceReads
  <1>3. \A j \in places(toks) : \A t \in referenceTrees(toks, i, j) :
          atEnd(toks, j) => ReadTo(e, t, j)
    BY ReferenceIsComplete DEF ReadTo
  <1> HIDE DEF e
  <1>4. e.ok /\ ~compared => c = e
    BY DEF comparison
  <1>5. e.ok /\ compared /\ isA(toks, e.at + 1, "str") =>
          /\ c.ok /\ c.at = e.at + 2
          /\ c.node = [k |-> "cmp", ref |-> e.node.ref, op |-> toks[e.at].v, lit |-> toks[e.at + 1].v]
    BY DEF comparison, parsed
  <1>6. c.ok => e.ok /\ (compared => isA(toks, e.at + 1, "str"))
    BY DEF comparison, SyntaxFault
  <1> HIDE DEF c
  <1>7. ASSUME c.ok
        PROVE  c.at \in places(toks) /\ c.at > i /\ c.node \in derivations(toks)[<<"unary", i, c.at>>]
    <2>1. CASE ~compared
      <3>1. c = e /\ e.ok
        BY <1>4, <1>6, <1>7, <2>1
      <3> QED
        BY <1>1, <3>1, NegandIs, UnaryIs
    <2>2. CASE compared
      <3>1. isA(toks, e.at + 1, "str") /\ e.ok
        BY <1>6, <1>7, <2>2
      <3>2. e.at \in Int /\ i \in Int
        BY <1>1, <3>1, PlacesOf
      <3>3. (e.at + 1) + 1 \in places(toks)
        BY <3>1, TokenPlace
      <3>4. /\ e.at + 2 \in places(toks) /\ e.at + 2 > i /\ e.at + 2 >= i + 3
            /\ (e.at + 2) - 1 = e.at + 1 /\ (e.at + 2) - 2 = e.at
        BY <1>1, <3>1, <3>2, <3>3
      <3>5. c.node \in comparisonTrees(toks, i, e.at + 2)
        BY <1>1, <1>5, <2>2, <3>1, <3>4 DEF comparisonTrees
      <3>6. c.node \in derivations(toks)[<<"unary", i, e.at + 2>>]
        BY <3>4, <3>5, UnaryIs
      <3> QED
        BY <1>5, <2>2, <3>1, <3>4, <3>6
    <2> QED
      BY <2>1, <2>2
  <1>8. ASSUME NEW j \in places(toks), NEW t \in derivations(toks)[<<"unary", i, j>>],
               EndsThere(toks, "unary", j)
        PROVE  ReadTo(c, t, j)
    <2>1. CASE t \in derivations(toks)[<<"negand", i, j>>]
      <3>1. t \in referenceTrees(toks, i, j)
        BY <2>1, NegandIs
      <3>2. ReadTo(e, t, j)
        BY <1>3, <1>8, <3>1 DEF EndsThere
      <3>3. c = e
        BY <1>4, <1>8, <3>2 DEF EndsThere, ReadTo
      <3> QED
        BY <3>2, <3>3
    <2>2. CASE t \in comparisonTrees(toks, i, j)
      <3>1. /\ j >= i + 3 /\ isA(toks, j - 1, "str")
            /\ isOp(toks, j - 2, "==") \/ isOp(toks, j - 2, "!=")
        BY <2>2 DEF comparisonTrees
      <3>2. PICK r \in referenceTrees(toks, i, j - 2) :
              t = [k |-> "cmp", ref |-> r.ref, op |-> toks[j - 2].v, lit |-> toks[j - 1].v]
        BY <2>2 DEF comparisonTrees
      <3>3. j - 2 \in places(toks) /\ j \in Int
        BY <3>1, TokenPlace, PlacesOf DEF isOp
      <3>4. (j - 2) + 1 = j - 1 /\ (j - 2) + 2 = j
        BY <3>3
      <3>5. atEnd(toks, j - 2)
        BY <3>1 DEF atEnd, isOp
      <3>6. ReadTo(e, r, j - 2)
        BY <1>3, <3>2, <3>3, <3>5
      <3> QED
        BY <1>5, <3>1, <3>2, <3>4, <3>6 DEF ReadTo
    <2> QED
      BY <1>8, <2>1, <2>2, UnaryIs
  <1>9. OnlyDerived(toks, "unary", i, c)
    BY <1>7 DEF OnlyDerived
  <1>10. AllDerived(toks, "unary", d, i, c)
    BY <1>8 DEF AllDerived
  <1> QED
    BY <1>9, <1>10 DEF ReadsAs, c, e

LEMMA UnaryReads ==
  ASSUME NEW toks, isList(toks), NEW d \in Nat, NEW orExpr,
         \A j \in places(toks) : ReadsAs(toks, "or", d, j, orExpr[j]), NEW i \in places(toks)
  PROVE  ReadsAs(toks, "unary", d + 1, i, unary(toks, i, orExpr))
  <1>1. CASE isOp(toks, i, "!")
    <2>1. i + 1 \in places(toks)
      BY <1>1, TokenPlace DEF isOp
    <2>2. ReadsAs(toks, "negand", d + 1, i + 1, groupOrReference(toks, i + 1, orExpr))
      BY <2>1, NegandReads
    <2>3. ReadsAs(toks, "unary", d + 1, i, negation(groupOrReference(toks, i + 1, orExpr)))
      BY <1>1, <2>2, NegationReads
    <2> QED
      BY <1>1, <2>3 DEF unary
  <1>2. CASE isOp(toks, i, "(")
    <2>1. ReadsAs(toks, "unary", d + 1, i, group(toks, i, orExpr))
      BY <1>2, GroupReads, GroupReadsAsUnary
    <2>2. unary(toks, i, orExpr) = group(toks, i, orExpr)
      BY <1>2 DEF unary, atom, isOp
    <2> QED
      BY <2>1, <2>2
  <1>3. CASE ~isOp(toks, i, "!") /\ ~isOp(toks, i, "(")
    BY <1>3, ComparisonReads DEF unary, atom
  <1> QED
    BY <1>1, <1>2, <1>3
\* The operators that join do not go on with the terms they join.
LEMMA OperatorEndsTerm ==
  ASSUME NEW toks, NEW nt, NEW op, NEW term, Level(nt, op, term), NEW n
  PROVE  /\ isOp(toks, n, op) => EndsThere(toks, term, n)
         /\ EndsThere(toks, nt, n) => EndsThere(toks, term, n) /\ ~isOp(toks, n, op)
  BY DEF Level, EndsThere, atEnd, isOp

LEMMA JoinUnfolds ==
  ASSUME NEW toks, isList(toks), NEW op, NEW k, NEW terms, NEW i
  PROVE  \E f : /\ joinAll(toks, op, k, terms, i) = f[rounds(toks, {op})]
                /\ f[0] = terms[i]
                /\ \A m \in 1 .. rounds(toks, {op}) :
                     f[m] = joinTerm(toks, op, k, terms, f[m - 1])
  <1> DEFINE N == rounds(toks, {op})
  <1>1. N \in Nat
    BY RoundsAreCounted
  <1> DEFINE f == CHOOSE g : Joins(toks, op, k, terms, i, N, g)
  <1>2. Joins(toks, op, k, terms, i, N, f)
    <2> HIDE DEF N
    <2> QED
      BY <1>1, JoinsExist
  <1>3. joinAll(toks, op, k, terms, i) = f[N]
    BY DEF joinAll, Joins
  <1> HIDE DEF f
  <1>4. f[0] = terms[i] /\ \A m \in 1 .. N : f[m] = joinTerm(toks, op, k, terms, f[m - 1])
    <2> HIDE DEF N
    <2>1. \A m \in 0 .. N : f[m] = IF m = 0 THEN terms[i]
                                   ELSE joinTerm(toks, op, k, terms, f[m - 1])
      BY <1>2 DEF Joins
    <2>2. 0 \in 0 .. N /\ \A m \in 1 .. N : m \in 0 .. N /\ m # 0
      BY <1>1
    <2> QED
      BY <2>1, <2>2
  <1> QED
    BY <1>3, <1>4

LEMMA JoinedIsDerived ==
  ASSUME NEW toks, isList(toks), NEW nt, NEW op, NEW term, Level(nt, op, term), NEW terms,
         \A j \in places(toks) : OnlyDerived(toks, term, j, terms[j]),
         NEW i \in places(toks), NEW l, OnlyDerived(toks, nt, i, l)
  PROVE  OnlyDerived(toks, nt, i, joinTerm(toks, op, nt, terms, l))
  <1>1. CASE ~(l.ok /\ isOp(toks, l.at, op))
    BY <1>1 DEF joinTerm
  <1>2. CASE l.ok /\ isOp(toks, l.at, op)
    <2> DEFINE r == terms[l.at + 1]
    <2> DEFINE c == joinTerm(toks, op, nt, terms, l)
    <2>1. c = joinedWith(nt, l, r)
      BY <1>2 DEF joinTerm
    <2>2. /\ l.at \in places(toks) /\ l.at > i
          /\ l.node \in derivations(toks)[<<nt, i, l.at>>]
      BY <1>2 DEF OnlyDerived
    <2>3. l.at + 1 \in places(toks) /\ l.at \in Int /\ i \in Int
      BY <1>2, TokenPlace, PlacesOf DEF isOp
    <2>4. OnlyDerived(toks, term, l.at + 1, r)
      BY <2>3
    <2> HIDE DEF c, r
    <2>5. c.ok => r.ok
      BY <2>1 DEF joinedWith
    <2>6. ASSUME c.ok
          PROVE  c.at \in places(toks) /\ c.at > i /\ c.node \in derivations(toks)[<<nt, i, c.at>>]
      <3>1. c.at = r.at /\ c.node = [k |-> nt, l |-> l.node, r |-> r.node]
        BY <2>1, <2>5, <2>6 DEF joinedWith, parsed
      <3>2. /\ r.at \in places(toks) /\ r.at > l.at + 1
            /\ r.node \in derivations(toks)[<<term, l.at + 1, r.at>>]
        BY <2>4, <2>5, <2>6 DEF OnlyDerived
      <3>3. r.at \in Int
        BY <3>2, PlacesOf
      <3>4. l.at \in i .. r.at - 1 /\ r.at > i
        BY <2>2, <2>3, <3>2, <3>3
      <3>5. JoinOf(toks, nt, op, term, i, r.at, c.node)
        BY <1>2, <2>2, <3>1, <3>2, <3>4 DEF JoinOf
      <3>6. c.node \in derivations(toks)[<<nt, i, r.at>>]
        BY <3>2, <3>5, JoinIs
      <3> QED
        BY <3>1, <3>2, <3>4, <3>6
    <2> QED
      BY <2>6 DEF OnlyDerived, c
  <1> QED
    BY <1>1, <1>2

\* What a join of the grammar is made of is read after as many rounds as there are
\* operators in it, or fewer.
LEMMA DerivedIsJoined ==
  ASSUME NEW toks, isList(toks), NEW d \in Nat, NEW nt, NEW op, NEW term, Level(nt, op, term),
         NEW terms, \A j \in places(toks) : AllDerived(toks, term, d, j, terms[j]),
         NEW i \in places(toks), NEW f, f[0] = terms[i],
         \A m \in 1 .. rounds(toks, {op}) : f[m] = joinTerm(toks, op, nt, terms, f[m - 1]),
         NEW j \in places(toks), NEW t \in derivations(toks)[<<nt, i, j>>],
         EndsThere(toks, term, j), count(toks, "(", i, j) < d
  PROVE  \E m \in 0 .. count(toks, op, i, j) : ReadTo(f[m], t, j)
  <1>1. PICK n \in Nat : n = Len(toks) /\ DOMAIN toks = 1..n /\ places(toks) = 1 .. n + 1
    BY PlacesOf
  <1> DEFINE Good(b) ==
        \A s \in derivations(toks)[<<nt, i, b>>] :
          EndsThere(toks, term, b) /\ count(toks, "(", i, b) < d
            => \E m \in 0 .. count(toks, op, i, b) : ReadTo(f[m], s, b)
  <1> DEFINE S == {m \in Nat : \A b \in places(toks) : b <= m => Good(b)}
  <1>2. 0 \in S
    BY <1>1
  <1>3. ASSUME NEW x \in S PROVE x + 1 \in S
    <2>1. x \in Nat /\ \A b \in places(toks) : b <= x => Good(b)
      OBVIOUS
    <2>2. ASSUME NEW b \in places(toks), b <= x + 1 PROVE Good(b)
      <3> SUFFICES ASSUME NEW s \in derivations(toks)[<<nt, i, b>>],
                          EndsThere(toks, term, b), count(toks, "(", i, b) < d
                   PROVE  \E m \in 0 .. count(toks, op, i, b) : ReadTo(f[m], s, b)
        OBVIOUS
      <3>1. CASE s \in derivations(toks)[<<term, i, b>>]
        <4>1. ReadTo(f[0], s, b)
          BY <3>1 DEF AllDerived
        <4>2. 0 \in 0 .. count(toks, op, i, b)
          BY AmongIsFinite
        <4> QED
          BY <4>1, <4>2
      <3>2. CASE JoinOf(toks, nt, op, term, i, b, s)
        <4>1. PICK c \in i .. b - 1 :
                /\ isOp(toks, c, op)
                /\ \E l \in derivations(toks)[<<nt, i, c>>] :
                     \E r \in derivations(toks)[<<term, c + 1, b>>] :
                       s = [k |-> nt, l |-> l, r |-> r]
          BY <3>2 DEF JoinOf
        <4>2. PICK l \in derivations(toks)[<<nt, i, c>>] :
                \E r \in derivations(toks)[<<term, c + 1, b>>] : s = [k |-> nt, l |-> l, r |-> r]
          BY <4>1
        <4>3. PICK r \in derivations(toks)[<<term, c + 1, b>>] : s = [k |-> nt, l |-> l, r |-> r]
          BY <4>2
        <4>4. c \in places(toks) /\ c + 1 \in places(toks) /\ c \in Int
          BY <4>1, TokenPlace DEF isOp
        <4>5. i <= i /\ c <= b /\ i <= c + 1 /\ b <= b /\ c <= x /\ c \notin i .. c - 1
          BY <1>1, <2>1, <2>2, <4>1, <4>4
        <4>6. /\ count(toks, "(", i, c) <= count(toks, "(", i, b)
              /\ count(toks, "(", c + 1, b) <= count(toks, "(", i, b)
          BY <4>4, <4>5, CountWithin
        <4>7. /\ count(toks, "(", i, c) \in Nat /\ count(toks, "(", c + 1, b) \in Nat
              /\ count(toks, "(", i, b) \in Nat
              /\ count(toks, op, i, c) \in Nat /\ count(toks, op, i, b) \in Nat
          BY <4>4, AmongIsFinite
        <4>8. count(toks, "(", i, c) < d /\ count(toks, "(", c + 1, b) < d
          BY <4>6, <4>7
        <4>9. EndsThere(toks, term, c)
          BY <4>1, OperatorEndsTerm
        <4>10. Good(c)
          BY <2>1, <4>4, <4>5
        <4>11. PICK m \in 0 .. count(toks, op, i, c) : ReadTo(f[m], l, c)
          BY <4>8, <4>9, <4>10
        <4>12. ReadTo(terms[c + 1], r, b)
          BY <4>4, <4>8 DEF AllDerived
        <4>13. count(toks, op, i, c) + 1 <= count(toks, op, i, b)
          BY <4>1, <4>4, <4>5, CountLess
        <4>14. count(toks, op, i, b) <= rounds(toks, {op})
          BY CountAll
        <4>15. rounds(toks, {op}) \in Nat
          BY RoundsAreCounted
        <4>16. /\ m + 1 \in 0 .. count(toks, op, i, b) /\ m + 1 \in 1 .. rounds(toks, {op})
               /\ (m + 1) - 1 = m
          BY <4>7, <4>11, <4>13, <4>14, <4>15
        <4>17. f[m + 1] = joinTerm(toks, op, nt, terms, f[m])
          BY <4>16
        <4>18. f[m + 1] = joinedWith(nt, f[m], terms[c + 1])
          BY <4>1, <4>11, <4>17 DEF joinTerm, ReadTo
        <4>19. ReadTo(f[m + 1], s, b)
          BY <4>3, <4>11, <4>12, <4>18 DEF joinedWith, parsed, ReadTo
        <4> QED
          BY <4>16, <4>19
      <3> QED
        BY <3>1, <3>2, JoinIs
    <2> HIDE DEF Good
    <2> QED
      BY <2>1, <2>2
  <1>4. S \in SUBSET Nat
    OBVIOUS
  <1>5. S = Nat
    <2> HIDE DEF S
    <2> QED
      BY <1>2, <1>3, <1>4, Induction
  <1>6. n + 1 \in S
    <2>1. n + 1 \in Nat
      BY <1>1
    <2> QED
      BY <1>5, <2>1, Zenon
  <1>7. j <= n + 1
    BY <1>1
  <1> QED
    BY <1>6, <1>7

\* Once nothing is joined any more, the rounds that are left change nothing.
LEMMA RoundsSettle ==
  ASSUME NEW toks, NEW op, NEW k, NEW terms, NEW f, NEW N \in Nat,
         \A m \in 1 .. N : f[m] = joinTerm(toks, op, k, terms, f[m - 1]),
         NEW j, ~isOp(toks, j, op), NEW t, NEW m \in 0 .. N, ReadTo(f[m], t, j)
  PROVE  ReadTo(f[N], t, j)
  <1> DEFINE S == {x \in Nat : m + x <= N => ReadTo(f[m + x], t, j)}
  <1>1. 0 \in S
    <2>1. m + 0 = m
      OBVIOUS
    <2> QED
      BY <2>1
  <1>2. ASSUME NEW x \in S PROVE x + 1 \in S
    <2>1. x \in Nat /\ (m + x <= N => ReadTo(f[m + x], t, j))
      OBVIOUS
    <2>2. ASSUME m + (x + 1) <= N PROVE ReadTo(f[m + (x + 1)], t, j)
      <3>1. m + x <= N /\ m + (x + 1) \in 1 .. N /\ (m + (x + 1)) - 1 = m + x
        BY <2>1, <2>2
      <3>2. f[m + (x + 1)] = joinTerm(toks, op, k, terms, f[m + x])
        BY <3>1
      <3>3. ReadTo(f[m + x], t, j)
        BY <2>1, <3>1
      <3>4. joinTerm(toks, op, k, terms, f[m + x]) = f[m + x]
        BY <3>3 DEF joinTerm, ReadTo
      <3> QED
        BY <3>2, <3>3, <3>4
    <2> QED
      BY <2>1, <2>2
  <1>3. S \in SUBSET Nat
    OBVIOUS
  <1>4. S = Nat
    <2> HIDE DEF S
    <2> QED
      BY <1>1, <1>2, <1>3, Induction
  <1>5. N - m \in Nat /\ m + (N - m) = N
    OBVIOUS
  <1>6. N - m \in S
    <2> HIDE DEF S
    <2> QED
      BY <1>4, <1>5, Zenon
  <1> QED
    BY <1>5, <1>6
LEMMA JoinReads ==
  ASSUME NEW toks, isList(toks), NEW d \in Nat, NEW nt, NEW op, NEW term, Level(nt, op, term),
         NEW terms, \A j \in places(toks) : ReadsAs(toks, term, d, j, terms[j]),
         NEW i \in places(toks)
  PROVE  ReadsAs(toks, nt, d, i, joinAll(toks, op, nt, terms, i))
  <1> DEFINE N == rounds(toks, {op})
  <1> DEFINE all == joinAll(toks, op, nt, terms, i)
  <1>1. N \in Nat
    BY RoundsAreCounted
  <1>2. PICK f : /\ all = f[N] /\ f[0] = terms[i]
                 /\ \A m \in 1 .. N : f[m] = joinTerm(toks, op, nt, terms, f[m - 1])
    BY JoinUnfolds
  <1>3. /\ \A j \in places(toks) : OnlyDerived(toks, term, j, terms[j])
        /\ \A j \in places(toks) : AllDerived(toks, term, d, j, terms[j])
    BY DEF ReadsAs
  <1> HIDE DEF all
  <1>4. OnlyDerived(toks, nt, i, all)
    <2> HIDE DEF N
    <2> DEFINE S == {m \in Nat : m <= N => OnlyDerived(toks, nt, i, f[m])}
    <2>1. 0 \in S
      <3>1. OnlyDerived(toks, term, i, f[0])
        BY <1>2, <1>3
      <3>2. OnlyDerived(toks, nt, i, f[0])
        BY <3>1, JoinIs DEF OnlyDerived
      <3> QED
        BY <3>2
    <2>2. ASSUME NEW m \in S PROVE m + 1 \in S
      <3>1. m \in Nat /\ (m <= N => OnlyDerived(toks, nt, i, f[m]))
        OBVIOUS
      <3>2. ASSUME m + 1 <= N PROVE OnlyDerived(toks, nt, i, f[m + 1])
        <4>1. m <= N /\ m + 1 \in 1 .. N /\ (m + 1) - 1 = m
          BY <1>1, <3>1, <3>2
        <4>2. f[m + 1] = joinTerm(toks, op, nt, terms, f[m])
          BY <1>2, <4>1
        <4> QED
          BY <1>3, <3>1, <4>1, <4>2, JoinedIsDerived
      <3> QED
        BY <3>1, <3>2
    <2>3. S \in SUBSET Nat
      OBVIOUS
    <2>4. S = Nat
      <3> HIDE DEF S
      <3> QED
        BY <2>1, <2>2, <2>3, Induction
    <2>5. N \in S
      BY <1>1, <2>4, Zenon
    <2>6. OnlyDerived(toks, nt, i, f[N])
      BY <1>1, <2>5
    <2> QED
      BY <1>2, <2>6
  <1>5. ASSUME NEW j \in places(toks), NEW t \in derivations(toks)[<<nt, i, j>>],
               EndsThere(toks, nt, j), count(toks, "(", i, j) < d
        PROVE  ReadTo(all, t, j)
    <2>1. EndsThere(toks, term, j) /\ ~isOp(toks, j, op)
      BY <1>5, OperatorEndsTerm
    <2>2. PICK m \in 0 .. count(toks, op, i, j) : ReadTo(f[m], t, j)
      BY <1>2, <1>3, <1>5, <2>1, DerivedIsJoined
    <2>3. m \in 0 .. N
      <3>1. count(toks, op, i, j) <= N /\ count(toks, op, i, j) \in Nat
        BY CountAll, AmongIsFinite
      <3> HIDE DEF N
      <3> QED
        BY <1>1, <2>2, <3>1
    <2>4. ReadTo(f[N], t, j)
      <3> HIDE DEF N
      <3> QED
        BY <1>1, <1>2, <2>1, <2>2, <2>3, RoundsSettle
    <2> QED
      BY <1>2, <2>4
  <1>6. AllDerived(toks, nt, d, i, all)
    BY <1>5 DEF AllDerived
  <1> QED
    BY <1>4, <1>6 DEF ReadsAs, all

AllRead(toks, d, orExpr) == \A j \in places(toks) : ReadsAs(toks, "or", d, j, orExpr[j])

\* One level of the descent reads what nests one level deeper.
LEMMA OrExprReads ==
  ASSUME NEW toks, isList(toks), NEW d \in Nat, NEW orExpr, AllRead(toks, d, orExpr)
  PROVE  AllRead(toks, d + 1, orExprOf(toks, orExpr))
  <1>0. d + 1 \in Nat
    OBVIOUS
  <1> DEFINE terms == [i \in places(toks) |-> unary(toks, i, orExpr)]
  <1>1. \A i \in places(toks) : ReadsAs(toks, "unary", d + 1, i, terms[i])
    BY UnaryReads DEF AllRead
  <1>2. andExpr(toks, orExpr) = [i \in places(toks) |-> joinAll(toks, "&&", "and", terms, i)]
    BY DEF andExpr
  <1> HIDE DEF terms
  <1>3. \A i \in places(toks) :
          ReadsAs(toks, "and", d + 1, i, joinAll(toks, "&&", "and", terms, i))
    BY <1>0, <1>1, JoinReads DEF Level
  <1> DEFINE both == andExpr(toks, orExpr)
  <1>4. \A i \in places(toks) : ReadsAs(toks, "and", d + 1, i, both[i])
    BY <1>2, <1>3
  <1>5. orExprOf(toks, orExpr) = [i \in places(toks) |-> joinAll(toks, "||", "or", both, i)]
    BY DEF orExprOf
  <1> HIDE DEF both
  <1>6. \A i \in places(toks) : ReadsAs(toks, "or", d + 1, i, joinAll(toks, "||", "or", both, i))
    BY <1>0, <1>4, JoinReads DEF Level
  <1> QED
    BY <1>5, <1>6 DEF AllRead

\* The whole descent, which goes one level deeper than groups can nest.
LEMMA DescentReads ==
  ASSUME NEW toks, isList(toks)
  PROVE  AllRead(toks, rounds(toks, {"("}) + 1, descent(toks))
  <1> DEFINE N == rounds(toks, {"("}) + 1
  <1>1. N \in Nat
    BY RoundsAreCounted
  <1> DEFINE f == CHOOSE g : Descends(toks, N, g)
  <1>2. Descends(toks, N, f)
    <2> HIDE DEF N
    <2> QED
      BY <1>1, DescentExists
  <1>3. descent(toks) = f[N]
    BY DEF descent, Descends
  <1> HIDE DEF f
  <1> HIDE DEF N
  <1>4. \A m \in 0..N : f[m] = IF m = 0 THEN [i \in places(toks) |-> SyntaxFault]
                               ELSE orExprOf(toks, f[m - 1])
    BY <1>2 DEF Descends
  <1> DEFINE S == {m \in Nat : m <= N => AllRead(toks, m, f[m])}
  <1>5. 0 \in S
    <2>1. f[0] = [i \in places(toks) |-> SyntaxFault]
      BY <1>1, <1>4
    <2>2. ASSUME NEW j \in places(toks) PROVE ReadsAs(toks, "or", 0, j, SyntaxFault)
      <3>1. OnlyDerived(toks, "or", j, SyntaxFault)
        BY DEF OnlyDerived, SyntaxFault
      <3>2. \A b \in places(toks) : ~(count(toks, "(", j, b) < 0)
        BY AmongIsFinite
      <3>3. AllDerived(toks, "or", 0, j, SyntaxFault)
        BY <3>2 DEF AllDerived
      <3> QED
        BY <3>1, <3>3 DEF ReadsAs
    <2>3. AllRead(toks, 0, f[0])
      BY <2>1, <2>2 DEF AllRead
    <2> QED
      BY <2>3
  <1>6. ASSUME NEW m \in S PROVE m + 1 \in S
    <2>1. m \in Nat /\ (m <= N => AllRead(toks, m, f[m]))
      OBVIOUS
    <2>2. ASSUME m + 1 <= N PROVE AllRead(toks, m + 1, f[m + 1])
      <3>1. m <= N /\ m + 1 \in 0..N /\ m + 1 # 0 /\ (m + 1) - 1 = m
        BY <1>1, <2>1, <2>2
      <3>2. f[m + 1] = orExprOf(toks, f[m])
        BY <1>4, <3>1
      <3>3. AllRead(toks, m + 1, orExprOf(toks, f[m]))
        BY <2>1, <3>1, OrExprReads
      <3> QED
        BY <3>2, <3>3
    <2> QED
      BY <2>1, <2>2
  <1>7. S \in SUBSET Nat
    OBVIOUS
  <1>8. S = Nat
    <2> HIDE DEF S
    <2> QED
      BY <1>5, <1>6, <1>7, Induction
  <1>9. AllRead(toks, N, f[N])
    <2>1. N \in S
      BY <1>1, <1>8, Zenon
    <2> QED
      BY <1>1, <2>1
  <1> QED
    BY <1>3, <1>9 DEF N

\* A text that the grammar derives has one tree, the one that is read, and every other
\* text is a fault.
LEMMA ParserIsTheGrammar ==
  ASSUME NEW toks, isList(toks)
  PROVE  LET p == parseTokens(toks)
         IN GrammarTrees(toks) = IF p.ok THEN {p.node} ELSE {}
  <1> DEFINE p == parseTokens(toks)
  <1> DEFINE e == descent(toks)[1]
  <1> DEFINE R == rounds(toks, {"("})
  <1>1. PICK n \in Nat : n = Len(toks) /\ DOMAIN toks = 1..n /\ places(toks) = 1 .. n + 1
    BY PlacesOf
  <1>2. 1 \in places(toks) /\ n + 1 \in places(toks) /\ n + 1 \notin DOMAIN toks
    BY <1>1
  <1>3. GrammarTrees(toks) = derivations(toks)[<<"or", 1, n + 1>>]
    BY <1>1 DEF GrammarTrees
  <1>4. p = IF e.ok /\ e.at = n + 1 THEN e ELSE SyntaxFault
    BY <1>1 DEF parseTokens, whole
  <1>5. ReadsAs(toks, "or", R + 1, 1, e)
    BY <1>2, DescentReads DEF AllRead
  <1> HIDE DEF e, p
  <1>6. \A t \in GrammarTrees(toks) : ReadTo(e, t, n + 1)
    <2>1. EndsThere(toks, "or", n + 1)
      BY <1>2 DEF EndsThere, atEnd, isOp, isA
    <2>2. count(toks, "(", 1, n + 1) < R + 1
      <3>1. count(toks, "(", 1, n + 1) <= R /\ count(toks, "(", 1, n + 1) \in Nat /\ R \in Nat
        BY <1>2, CountAll, AmongIsFinite, RoundsAreCounted
      <3> HIDE DEF R
      <3> QED
        BY <3>1
    <2> HIDE DEF R
    <2> QED
      BY <1>2, <1>3, <1>5, <2>1, <2>2 DEF ReadsAs, AllDerived
  <1>7. CASE e.ok /\ e.at = n + 1
    <2>1. p = e
      BY <1>4, <1>7
    <2>2. e.node \in GrammarTrees(toks)
      BY <1>3, <1>5, <1>7 DEF ReadsAs, OnlyDerived
    <2>3. GrammarTrees(toks) = {e.node}
      BY <1>6, <2>2 DEF ReadTo
    <2> QED
      BY <1>7, <2>1, <2>3 DEF p
  <1>8. CASE ~(e.ok /\ e.at = n + 1)
    <2>1. ~p.ok
      BY <1>4, <1>8 DEF SyntaxFault
    <2>2. GrammarTrees(toks) = {}
      BY <1>6, <1>8 DEF ReadTo
    <2> QED
      BY <2>1, <2>2 DEF p
  <1> QED
    BY <1>7, <1>8

-----------------------------------------------------------------------------
(***************************************************************************)
(* The evaluator: the values of the trees in a condition.                  *)
(***************************************************************************)
Values(nodes, ctx, value) == value = [t \in nodes |-> stepValue(t, ctx, value)]

\* Two assignments that agree below a tree agree on it.
LEMMA StepIsLocal ==
  ASSUME NEW nodes, NEW refs, NEW rank, NEW t, Node(t, nodes, refs, rank), NEW ctx,
         NEW v, NEW w, \A x \in nodes : rank[x] < rank[t] => v[x] = w[x]
  PROVE  stepValue(t, ctx, v) = stepValue(t, ctx, w)
  <1>1. CASE t.k \in {"ref", "cmp"}
    BY <1>1 DEF stepValue
  <1>2. CASE t.k = "not"
    <2>1. v[t.e] = w[t.e]
      BY <1>2 DEF Node
    <2> QED
      BY <1>2, <2>1 DEF stepValue
  <1>3. CASE t.k \in {"and", "or"}
    <2>1. v[t.l] = w[t.l] /\ v[t.r] = w[t.r]
      BY <1>3 DEF Node
    <2> QED
      BY <1>3, <2>1 DEF stepValue
  <1> QED
    BY <1>1, <1>2, <1>3 DEF Node

\* Trees of some rank have values, from the lower ones up.
LEMMA ValuesExist ==
  ASSUME NEW nodes, NEW refs, Ranked(nodes, refs), NEW ctx
  PROVE  \E value : Values(nodes, ctx, value)
  <1>1. PICK N \in Nat : \E rank \in [nodes -> 0..N] : \A t \in nodes : Node(t, nodes, refs, rank)
    BY DEF Ranked
  <1>2. PICK rank \in [nodes -> 0..N] : \A t \in nodes : Node(t, nodes, refs, rank)
    BY <1>1
  <1> DEFINE below(n) == {t \in nodes : rank[t] < n}
  <1> DEFINE P(n, v) == \A t \in below(n) : v[t] = stepValue(t, ctx, v)
  <1> DEFINE S == {n \in Nat : \E v : P(n, v)}
  <1>3. 0 \in S
    <2>1. \A t \in nodes : ~(rank[t] < 0)
      BY <1>2
    <2> QED
      BY <2>1
  <1>4. ASSUME NEW n \in S PROVE n + 1 \in S
    <2>1. n \in Nat /\ n + 1 \in Nat
      OBVIOUS
    <2>2. PICK v : P(n, v)
      OBVIOUS
    <2> DEFINE w == [t \in nodes |-> IF rank[t] < n THEN v[t] ELSE stepValue(t, ctx, v)]
    <2>3. \A x \in nodes : rank[x] < n => w[x] = v[x]
      OBVIOUS
    <2>4. ASSUME NEW t \in nodes, rank[t] < n + 1 PROVE w[t] = stepValue(t, ctx, w)
      <3>1. rank[t] \in Nat
        BY <1>2
      <3>2. \A x \in nodes : rank[x] < rank[t] => v[x] = w[x]
        BY <1>2, <2>1, <2>3, <2>4, <3>1
      <3>3. Node(t, nodes, refs, rank)
        BY <1>2
      <3> HIDE DEF w
      <3>4. stepValue(t, ctx, v) = stepValue(t, ctx, w)
        BY <3>2, <3>3, StepIsLocal
      <3> USE DEF w
      <3>5. w[t] = stepValue(t, ctx, v)
        BY <2>2
      <3> QED
        BY <3>4, <3>5, Zenon
    <2> HIDE DEF w
    <2>5. P(n + 1, w)
      BY <2>4
    <2> QED
      BY <2>1, <2>5
  <1>5. S = Nat
    <2>1. S \in SUBSET Nat
      OBVIOUS
    <2> HIDE DEF S
    <2> QED
      BY <1>3, <1>4, <2>1, Induction
  <1>6. PICK v : P(N + 1, v)
    <2>1. N + 1 \in S
      BY <1>1, <1>5
    <2> QED
      BY <2>1
  <1>7. \A t \in nodes : v[t] = stepValue(t, ctx, v)
    <2> TAKE t \in nodes
    <2>1. rank[t] \in 0..N
      BY <1>2
    <2>2. t \in below(N + 1)
      BY <1>1, <2>1
    <2> QED
      BY <1>6, <2>2
  <1> DEFINE w == [t \in nodes |-> v[t]]
  <1>8. \A t \in nodes : w[t] = v[t]
    OBVIOUS
  <1>9. w = [t \in nodes |-> w[t]]
    OBVIOUS
  <1> HIDE DEF w
  <1>10. \A t \in nodes : w[t] = stepValue(t, ctx, w)
    <2> TAKE t \in nodes
    <2>1. Node(t, nodes, refs, rank)
      BY <1>2
    <2>2. stepValue(t, ctx, v) = stepValue(t, ctx, w)
      BY <1>8, <2>1, StepIsLocal
    <2> QED
      BY <1>7, <1>8, <2>2
  <1>11. Values(nodes, ctx, w)
    BY <1>9, <1>10 DEF Values
  <1> QED
    BY <1>11

LEMMA EvaluateUnfolds ==
  ASSUME NEW nodes, NEW refs, Ranked(nodes, refs), NEW ctx, NEW tree
  PROVE  \E value : Values(nodes, ctx, value) /\ evaluate(tree, nodes, ctx) = value[tree]
  <1> DEFINE v == CHOOSE value : Values(nodes, ctx, value)
  <1>1. Values(nodes, ctx, v)
    BY ValuesExist
  <1>2. evaluate(tree, nodes, ctx) = v[tree]
    BY DEF evaluate, Values
  <1> HIDE DEF v
  <1> QED
    BY <1>1, <1>2

Three == {T, F, E}
LEMMA ThreeValues == T # F /\ T # E /\ F # E
  BY DEF T, F, E

\* If what is read in one context and has a value there is read in the other, the
\* condition has the value in the other that it has in the one.
LEMMA ValuesPersist ==
  ASSUME NEW nodes, NEW refs, Ranked(nodes, refs), NEW c, NEW d, NEW tree \in nodes,
         \A ref \in refs : read(ref, c) # E => read(ref, d) = read(ref, c),
         evaluate(tree, nodes, c) # E
  PROVE  evaluate(tree, nodes, d) = evaluate(tree, nodes, c)
  <1>1. PICK N \in Nat : \E rank \in [nodes -> 0..N] : \A t \in nodes : Node(t, nodes, refs, rank)
    BY DEF Ranked
  <1>2. PICK rank \in [nodes -> 0..N] : \A t \in nodes : Node(t, nodes, refs, rank)
    BY <1>1
  <1>3. PICK v : Values(nodes, c, v) /\ evaluate(tree, nodes, c) = v[tree]
    BY EvaluateUnfolds
  <1>4. PICK w : Values(nodes, d, w) /\ evaluate(tree, nodes, d) = w[tree]
    BY EvaluateUnfolds
  <1>5. \A t \in nodes : v[t] = stepValue(t, c, v) /\ w[t] = stepValue(t, d, w)
    BY <1>3, <1>4 DEF Values
  <1> DEFINE Ok(t) == v[t] \in Three /\ (v[t] # E => w[t] = v[t])
  <1>6. ASSUME NEW t \in nodes, \A x \in nodes : rank[x] < rank[t] => Ok(x)
        PROVE  Ok(t)
    <2>1. Node(t, nodes, refs, rank)
      BY <1>2
    <2>2. v[t] = stepValue(t, c, v) /\ w[t] = stepValue(t, d, w)
      BY <1>5
    <2> HIDE DEF Ok
    <2>3. CASE t.k = "ref" /\ t.ref \in refs
      <3>1. read(t.ref, c) # E => read(t.ref, d) = read(t.ref, c)
        BY <2>3
      <3>2. v[t] = truthy(read(t.ref, c)) /\ w[t] = truthy(read(t.ref, d))
        BY <2>2, <2>3 DEF stepValue
      <3> QED
        BY <3>1, <3>2, ThreeValues DEF Ok, truthy, truth, Three
    <2>4. CASE t.k = "cmp" /\ t.ref \in refs
      <3>1. read(t.ref, c) # E => read(t.ref, d) = read(t.ref, c)
        BY <2>4
      <3>2. /\ v[t] = compare(read(t.ref, c), t.op, t.lit)
            /\ w[t] = compare(read(t.ref, d), t.op, t.lit)
        BY <2>2, <2>4 DEF stepValue
      <3> QED
        BY <3>1, <3>2, ThreeValues DEF Ok, compare, truth, Three
    <2>5. CASE t.k = "not" /\ t.e \in nodes /\ rank[t.e] < rank[t]
      <3>1. Ok(t.e)
        BY <1>6, <2>5
      <3>2. v[t] = negated(v[t.e]) /\ w[t] = negated(w[t.e])
        BY <2>2, <2>5 DEF stepValue
      <3> QED
        BY <3>1, <3>2, ThreeValues DEF Ok, negated, Three
    <2>6. CASE /\ t.k \in {"and", "or"} /\ t.l \in nodes /\ t.r \in nodes
               /\ rank[t.l] < rank[t] /\ rank[t.r] < rank[t]
      <3>1. Ok(t.l) /\ Ok(t.r)
        BY <1>6, <2>6
      <3>2. CASE t.k = "and"
        <4>1. v[t] = kleeneAnd(v[t.l], v[t.r]) /\ w[t] = kleeneAnd(w[t.l], w[t.r])
          BY <2>2, <3>2 DEF stepValue
        <4> QED
          BY <3>1, <4>1, ThreeValues DEF Ok, kleeneAnd, Three
      <3>3. CASE t.k = "or"
        <4>1. v[t] = kleeneOr(v[t.l], v[t.r]) /\ w[t] = kleeneOr(w[t.l], w[t.r])
          BY <2>2, <3>3 DEF stepValue
        <4> QED
          BY <3>1, <4>1, ThreeValues DEF Ok, kleeneOr, Three
      <3> QED
        BY <2>6, <3>2, <3>3
    <2> QED
      BY <2>1, <2>3, <2>4, <2>5, <2>6 DEF Node
  <1> HIDE DEF Ok
  <1>7. \A t \in nodes : Ok(t)
    <2> DEFINE S == {n \in Nat : \A t \in nodes : rank[t] < n => Ok(t)}
    <2>1. 0 \in S
      <3>1. \A t \in nodes : ~(rank[t] < 0)
        BY <1>2
      <3> QED
        BY <3>1
    <2>2. ASSUME NEW n \in S PROVE n + 1 \in S
      <3>1. n \in Nat /\ \A t \in nodes : rank[t] < n => Ok(t)
        OBVIOUS
      <3>2. ASSUME NEW t \in nodes, rank[t] < n + 1 PROVE Ok(t)
        <4>1. rank[t] \in Nat /\ \A x \in nodes : rank[x] \in Nat
          BY <1>2
        <4>2. \A x \in nodes : rank[x] < rank[t] => Ok(x)
          BY <3>1, <3>2, <4>1
        <4> QED
          BY <1>6, <4>2
      <3> QED
        BY <3>1, <3>2
    <2>3. S = Nat
      <3>1. S \in SUBSET Nat
        OBVIOUS
      <3> HIDE DEF S
      <3> QED
        BY <2>1, <2>2, <3>1, Induction
    <2>4. N + 1 \in S
      BY <1>1, <2>3
    <2>5. \A t \in nodes : rank[t] < N + 1
      BY <1>1, <1>2
    <2> QED
      BY <2>4, <2>5
  <1> QED
    BY <1>3, <1>4, <1>7 DEF Ok

\* A condition has no value only if something it reads has none.
LEMMA NoValueNoRead ==
  ASSUME NEW nodes, NEW refs, Ranked(nodes, refs), NEW c, NEW tree \in nodes,
         evaluate(tree, nodes, c) = E
  PROVE  \E ref \in refs : read(ref, c) = E
  <1> SUFFICES ASSUME \A ref \in refs : read(ref, c) # E PROVE FALSE
    OBVIOUS
  <1>1. PICK N \in Nat : \E rank \in [nodes -> 0..N] : \A t \in nodes : Node(t, nodes, refs, rank)
    BY DEF Ranked
  <1>2. PICK rank \in [nodes -> 0..N] : \A t \in nodes : Node(t, nodes, refs, rank)
    BY <1>1
  <1>3. PICK v : Values(nodes, c, v) /\ evaluate(tree, nodes, c) = v[tree]
    BY EvaluateUnfolds
  <1>4. \A t \in nodes : v[t] = stepValue(t, c, v)
    BY <1>3 DEF Values
  <1> DEFINE Ok(t) == v[t] \in {T, F}
  <1>5. ASSUME NEW t \in nodes, \A x \in nodes : rank[x] < rank[t] => Ok(x)
        PROVE  Ok(t)
    <2>1. Node(t, nodes, refs, rank)
      BY <1>2
    <2>2. v[t] = stepValue(t, c, v)
      BY <1>4
    <2> HIDE DEF Ok
    <2>3. CASE t.k \in {"ref", "cmp"} /\ t.ref \in refs
      <3>1. read(t.ref, c) # E
        BY <2>3
      <3> QED
        BY <2>2, <2>3, <3>1 DEF Ok, stepValue, truthy, compare, truth
    <2>4. CASE t.k = "not" /\ t.e \in nodes /\ rank[t.e] < rank[t]
      <3>1. Ok(t.e)
        BY <1>5, <2>4
      <3>2. v[t] = negated(v[t.e])
        BY <2>2, <2>4 DEF stepValue
      <3> QED
        BY <3>1, <3>2, ThreeValues DEF Ok, negated
    <2>5. CASE /\ t.k \in {"and", "or"} /\ t.l \in nodes /\ t.r \in nodes
               /\ rank[t.l] < rank[t] /\ rank[t.r] < rank[t]
      <3>1. Ok(t.l) /\ Ok(t.r)
        BY <1>5, <2>5
      <3>2. v[t] \in {kleeneAnd(v[t.l], v[t.r]), kleeneOr(v[t.l], v[t.r])}
        BY <2>2, <2>5 DEF stepValue
      <3> QED
        BY <3>1, <3>2, ThreeValues DEF Ok, kleeneAnd, kleeneOr
    <2> QED
      BY <2>1, <2>3, <2>4, <2>5 DEF Node
  <1> HIDE DEF Ok
  <1>6. \A t \in nodes : Ok(t)
    <2> DEFINE S == {n \in Nat : \A t \in nodes : rank[t] < n => Ok(t)}
    <2>1. 0 \in S
      <3>1. \A t \in nodes : ~(rank[t] < 0)
        BY <1>2
      <3> QED
        BY <3>1
    <2>2. ASSUME NEW n \in S PROVE n + 1 \in S
      <3>1. n \in Nat /\ \A t \in nodes : rank[t] < n => Ok(t)
        OBVIOUS
      <3>2. ASSUME NEW t \in nodes, rank[t] < n + 1 PROVE Ok(t)
        <4>1. rank[t] \in Nat /\ \A x \in nodes : rank[x] \in Nat
          BY <1>2
        <4>2. \A x \in nodes : rank[x] < rank[t] => Ok(x)
          BY <3>1, <3>2, <4>1
        <4> QED
          BY <1>5, <4>2
      <3> QED
        BY <3>1, <3>2
    <2>3. S = Nat
      <3>1. S \in SUBSET Nat
        OBVIOUS
      <3> HIDE DEF S
      <3> QED
        BY <2>1, <2>2, <3>1, Induction
    <2>4. N + 1 \in S
      BY <1>1, <2>3
    <2>5. \A t \in nodes : rank[t] < N + 1
      BY <1>1, <1>2
    <2> QED
      BY <2>4, <2>5
  <1> QED
    BY <1>3, <1>6, ThreeValues DEF Ok

-----------------------------------------------------------------------------
(***************************************************************************)
(* Loading: the text is a list of tokens, and what the checks accept.      *)
(***************************************************************************)
\* Lists joined are a list.
LEMMA FlattenType ==
  ASSUME NEW D, NEW t \in Seq(Seq(D))
  PROVE  FlattenSeq(t) \in Seq(D)
  <1> DEFINE P(f, n) == f = [k \in 1..n |-> IF k = 1 THEN t[k] ELSE f[k - 1] \o t[k]]
  <1> DEFINE S == {n \in Nat : \E f : P(f, n)}
  <1>1. Len(t) \in Nat /\ \A k \in 1..Len(t) : t[k] \in Seq(D)
    BY LenProperties
  <1>2. S = Nat
    <2>1. 0 \in S
      <3>1. P([k \in 1..0 |-> <<>>], 0)
        OBVIOUS
      <3> QED
        BY <3>1
    <2>2. ASSUME NEW n \in S PROVE n + 1 \in S
      <3>1. n \in Nat /\ n + 1 \in Nat
        OBVIOUS
      <3>2. PICK f : P(f, n)
        OBVIOUS
      <3> DEFINE last == IF n = 0 THEN t[1] ELSE f[n] \o t[n + 1]
      <3> DEFINE g == [k \in 1..(n + 1) |-> IF k = n + 1 THEN last ELSE f[k]]
      <3>3. \A k \in 1..(n + 1) : g[k] = IF k = 1 THEN t[k] ELSE g[k - 1] \o t[k]
        <4> TAKE k \in 1..(n + 1)
        <4>1. CASE k = n + 1
          BY <3>1, <4>1
        <4>2. CASE k # n + 1
          <5>1. k \in 1..n /\ (k # 1 => k - 1 \in 1..n)
            BY <3>1, <4>2
          <5>2. g[k] = f[k] /\ (k # 1 => g[k - 1] = f[k - 1])
            BY <3>1, <5>1
          <5>3. f[k] = IF k = 1 THEN t[k] ELSE f[k - 1] \o t[k]
            BY <3>2, <5>1
          <5> HIDE DEF g
          <5> QED
            BY <5>2, <5>3
        <4> QED
          BY <4>1, <4>2
      <3>4. g = [k \in 1..(n + 1) |-> g[k]]
        OBVIOUS
      <3> HIDE DEF g
      <3>5. P(g, n + 1)
        BY <3>3, <3>4
      <3> QED
        BY <3>1, <3>5
    <2>3. S \in SUBSET Nat
      OBVIOUS
    <2> HIDE DEF S
    <2> QED
      BY <2>1, <2>2, <2>3, Induction
  <1> DEFINE g == CHOOSE f : P(f, Len(t))
  <1>3. P(g, Len(t))
    BY <1>1, <1>2
  <1>4. FlattenSeq(t) = IF Len(t) = 0 THEN t ELSE g[Len(t)]
    BY DEF FlattenSeq
  <1>5. \A k \in 1..Len(t) : g[k] = IF k = 1 THEN t[k] ELSE g[k - 1] \o t[k]
    BY <1>3
  <1> HIDE DEF g
  <1> DEFINE R == {n \in Nat : n \in 1..Len(t) => g[n] \in Seq(D)}
  <1>6. R = Nat
    <2>1. 0 \in R
      BY <1>1
    <2>2. ASSUME NEW n \in R PROVE n + 1 \in R
      <3>1. n \in Nat /\ (n \in 1..Len(t) => g[n] \in Seq(D))
        OBVIOUS
      <3>2. ASSUME n + 1 \in 1..Len(t) PROVE g[n + 1] \in Seq(D)
        <4>1. t[n + 1] \in Seq(D) /\ (n + 1) - 1 = n
          BY <1>1, <3>1, <3>2
        <4>2. CASE n = 0
          BY <1>5, <3>2, <4>1, <4>2
        <4>3. CASE n # 0
          <5>1. n \in 1..Len(t)
            BY <1>1, <3>1, <3>2, <4>3
          <5>2. n + 1 # 1
            BY <3>1, <4>3
          <5>3. g[n + 1] = g[n] \o t[n + 1]
            BY <1>5, <3>2, <4>1, <5>2
          <5> QED
            BY <3>1, <4>1, <5>1, <5>3, ConcatProperties
        <4> QED
          BY <4>2, <4>3
      <3> QED
        BY <3>1, <3>2
    <2>3. R \in SUBSET Nat
      OBVIOUS
    <2> HIDE DEF R
    <2> QED
      BY <2>1, <2>2, <2>3, Induction
  <1>7. CASE Len(t) = 0
    <2>1. t = <<>>
      BY <1>7, EmptySeq
    <2> QED
      BY <1>4, <1>7, <2>1
  <1>8. CASE Len(t) # 0
    <2>1. Len(t) \in 1..Len(t)
      BY <1>1, <1>8
    <2> QED
      BY <1>1, <1>4, <1>6, <1>8, <2>1
  <1> QED
    BY <1>7, <1>8

LEMMA ConditionIsList ==
  ASSUME text \in Seq(Fragments)
  PROVE  isList(condition)
  <1> DEFINE D == UNION {Range(f) : f \in Fragments}
  <1>1. Fragments \subseteq Seq(D)
    <2> SUFFICES ASSUME NEW f \in Fragments PROVE f \in Seq(D)
      OBVIOUS
    <2>1. isList(f) /\ Range(f) \subseteq D
      BY LoadedAssumption DEF isList
    <2> HIDE DEF D
    <2> QED
      BY <2>1, ListIn
  <1> HIDE DEF D
  <1>2. text \in Seq(Seq(D))
    <2>1. Len(text) \in Nat /\ text \in [1..Len(text) -> Fragments]
      BY LenProperties
    <2>2. text \in [1..Len(text) -> Seq(D)]
      BY <1>1, <2>1
    <2> QED
      BY <2>1, <2>2, ListOf
  <1> QED
    BY <1>2, FlattenType, SeqIsList DEF condition

\* What the load checks see of the condition.
LEMMA ParsedIsWell ==
  ASSUME NEW toks, isList(toks)
  PROVE  LET p == parseCondition(toks)
         IN /\ p.ok \in BOOLEAN /\ (~p.ok => p.code # "none")
            /\ p.ok => /\ p.tree \in p.nodes /\ Ranked(p.nodes, Range(p.refs))
                       /\ isList(p.refs) /\ \A r \in Range(p.refs) : RefShape(r)
  <1> DEFINE w == parseTokens(toks)
  <1>1. WellRead(w)
    BY ParserIsWell
  <1>2. w.ok \in BOOLEAN
    BY DEF parseTokens, whole, SyntaxFault
  <1>3. CASE Len(toks) > MAX_CONDITION_LENGTH
    BY <1>3 DEF parseCondition
  <1>4. CASE ~(Len(toks) > MAX_CONDITION_LENGTH)
    <2>1. parseCondition(toks) = conditionOf(w)
      BY <1>4 DEF parseCondition
    <2> HIDE DEF w
    <2> QED
      BY <1>1, <1>2, <2>1 DEF conditionOf, WellRead
  <1> QED
    BY <1>3, <1>4


\* The stages that stage i reaches along depends_on are before it, where no stage
\* depends on itself or on a later one.
Before(i, S) == \A m \in DOMAIN stages : stages[m].id \in S => m < i

LEMMA DependenciesAreBefore ==
  ASSUME isList(stages), \A n \in DOMAIN stages : ~forwardReference(n),
         NEW i \in DOMAIN stages, NEW S, Before(i, S)
  PROVE  Before(i, withDependencies(S)) /\ Before(i, stages[i].depends_on)
  <1>1. PICK len \in Nat : DOMAIN stages = 1..len
    BY ListBasics
  <1>2. \A n, m \in DOMAIN stages : stages[m].id \in stages[n].depends_on => m < n
    BY <1>1 DEF forwardReference
  <1>3. Before(i, stages[i].depends_on)
    BY <1>2 DEF Before
  <1>4. ASSUME NEW m \in DOMAIN stages, stages[m].id \in withDependencies(S) PROVE m < i
    <2>1. CASE stages[m].id \in S
      BY <2>1 DEF Before
    <2>2. CASE stages[m].id \in dependsOn(S)
      <3>1. PICK n \in DOMAIN stages :
                stages[n].id \in S /\ stages[m].id \in stages[n].depends_on
        BY <2>2 DEF dependsOn
      <3>2. n < i /\ m < n
        BY <1>2, <3>1 DEF Before
      <3> QED
        BY <1>1, <3>2
    <2> QED
      BY <1>4, <2>1, <2>2 DEF withDependencies
  <1> QED
    BY <1>3, <1>4 DEF Before

Reaches(i, n, f) ==
    f = [m \in 0..n |-> IF m = 0 THEN stages[i].depends_on ELSE withDependencies(f[m - 1])]

LEMMA ReachesExist ==
  ASSUME NEW i, NEW n \in Nat
  PROVE  \E f : Reaches(i, n, f)
  <1> DEFINE S == {m \in Nat : \E f : Reaches(i, m, f)}
  <1> DEFINE first == stages[i].depends_on
  <1> DEFINE next(x) == withDependencies(x)
  <1>1. 0 \in S
    <2>1. Reaches(i, 0, [m \in 0..0 |-> first])
      BY DEF Reaches
    <2> QED
      BY <2>1
  <1>2. ASSUME NEW m \in S PROVE m + 1 \in S
    <2>1. m \in Nat /\ m + 1 \in Nat
      OBVIOUS
    <2>2. PICK f : Reaches(i, m, f)
      OBVIOUS
    <2> HIDE DEF next, first
    <2>3. f = [j \in 0..m |-> IF j = 0 THEN first ELSE next(f[j - 1])]
      BY <2>2 DEF Reaches, next, first
    <2> DEFINE g == [j \in 0..(m + 1) |-> IF j = m + 1 THEN next(f[m]) ELSE f[j]]
    <2>4. \A j \in 0..(m + 1) : g[j] = IF j = 0 THEN first ELSE next(g[j - 1])
      <3> TAKE j \in 0..(m + 1)
      <3>1. CASE j = m + 1
        BY <2>1, <3>1
      <3>2. CASE j # m + 1
        <4>1. j \in 0..m /\ g[j] = f[j]
          BY <2>1, <3>2
        <4>2. j # 0 => j - 1 \in 0..m /\ g[j - 1] = f[j - 1]
          BY <2>1, <4>1
        <4> QED
          BY <2>3, <4>1, <4>2
      <3> QED
        BY <3>1, <3>2
    <2>5. g = [j \in 0..(m + 1) |-> g[j]]
      OBVIOUS
    <2> HIDE DEF g
    <2>6. g = [j \in 0..(m + 1) |-> IF j = 0 THEN first ELSE next(g[j - 1])]
      BY <2>4, <2>5
    <2>7. Reaches(i, m + 1, g)
      BY <2>6 DEF Reaches, next, first
    <2> QED
      BY <2>1, <2>7
  <1>3. S \in SUBSET Nat
    OBVIOUS
  <1>4. S = Nat
    <2> HIDE DEF S
    <2> QED
      BY <1>1, <1>2, <1>3, Induction
  <1> QED
    BY <1>4

LEMMA AncestorsAreBefore ==
  ASSUME isList(stages), \A n \in DOMAIN stages : ~forwardReference(n),
         NEW i \in DOMAIN stages
  PROVE  Before(i, ancestorsOf(i))
  <1>1. PICK N \in Nat : N = Len(stages)
    BY ListBasics
  <1> DEFINE f == CHOOSE g : Reaches(i, N, g)
  <1>2. Reaches(i, N, f)
    BY ReachesExist
  <1>3. ancestorsOf(i) = f[N] \ {stages[i].id}
    BY <1>1 DEF ancestorsOf, Reaches
  <1> HIDE DEF f
  <1>4. \A m \in 0..N : f[m] = IF m = 0 THEN stages[i].depends_on ELSE withDependencies(f[m - 1])
    BY <1>2 DEF Reaches
  <1> DEFINE S == {m \in Nat : m <= N => Before(i, f[m])}
  <1>5. S = Nat
    <2>1. 0 \in S
      <3>1. f[0] = stages[i].depends_on
        BY <1>1, <1>4
      <3>2. Before(i, {})
        BY DEF Before
      <3>3. Before(i, f[0])
        BY <3>1, <3>2, DependenciesAreBefore
      <3> QED
        BY <3>3
    <2>2. ASSUME NEW m \in S PROVE m + 1 \in S
      <3>1. m \in Nat /\ (m <= N => Before(i, f[m]))
        OBVIOUS
      <3>2. ASSUME m + 1 <= N PROVE Before(i, f[m + 1])
        <4>1. m <= N /\ m + 1 \in 0..N /\ m + 1 # 0 /\ (m + 1) - 1 = m
          BY <1>1, <3>1, <3>2
        <4>2. f[m + 1] = withDependencies(f[m])
          BY <1>4, <4>1
        <4>3. Before(i, f[m])
          BY <3>1, <4>1
        <4> QED
          BY <4>2, <4>3, DependenciesAreBefore
      <3> QED
        BY <3>1, <3>2
    <2>3. S \in SUBSET Nat
      OBVIOUS
    <2> HIDE DEF S
    <2> QED
      BY <2>1, <2>2, <2>3, Induction
  <1>6. Before(i, f[N])
    BY <1>1, <1>5
  <1> QED
    BY <1>3, <1>6 DEF Before

\* The faults that a reference of an accepted condition does not have.
LEMMA NoReferenceFault ==
  ASSUME NEW i \in DOMAIN stages, isList(condition), conditionFault(i) = "none"
  PROVE  LET p == parseCondition(condition)
         IN p.ok /\ \A r \in Range(p.refs) : referenceFault(r, i) = "none"
  <1> DEFINE p == parseCondition(condition)
  <1> DEFINE faulty == {n \in DOMAIN p.refs : referenceFault(p.refs[n], i) # "none"}
  <1>1. conditionFault(i) = CASE ~p.ok -> p.code
                              [] p.ok /\ faulty # {} -> referenceFault(p.refs[Min(faulty)], i)
                              [] OTHER -> "none"
    BY Zenon DEF conditionFault
  <1>2. /\ p.ok \in BOOLEAN /\ (~p.ok => p.code # "none")
        /\ p.ok => isList(p.refs)
    BY ParsedIsWell
  <1>3. p.ok
    <2> HIDE DEF p
    <2> QED
      BY <1>1, <1>2
  <1>4. faulty = {}
    <2> SUFFICES ASSUME faulty # {} PROVE FALSE
      OBVIOUS
    <2>1. faulty \in SUBSET Nat
      <3>1. DOMAIN p.refs = 1..Len(p.refs) /\ Len(p.refs) \in Nat
        BY <1>2, <1>3, ListBasics
      <3> QED
        BY <3>1
    <2>2. Min(faulty) \in faulty
      <3> HIDE DEF faulty
      <3>1. \E m \in faulty : \A n \in faulty : m <= n
        BY <2>1, LeastNat
      <3> QED
        BY <3>1, Zenon DEF Min
    <2>3. conditionFault(i) = referenceFault(p.refs[Min(faulty)], i)
      <3> HIDE DEF p, faulty
      <3> QED
        BY <1>1, <1>3
    <2>4. referenceFault(p.refs[Min(faulty)], i) # "none"
      BY <2>2
    <2> QED
      BY <2>3, <2>4
  <1>5. \A r \in Range(p.refs) : referenceFault(r, i) = "none"
    BY <1>4 DEF Range
  <1> QED
    BY <1>3, <1>5

\* What the condition of a stage of an accepted pipeline may read.
LEMMA AcceptedReferences ==
  ASSUME isList(stages), isList(condition), refusalReasons = {},
         NEW i \in DOMAIN stages, stages[i].condition
  PROVE  LET p == parseCondition(condition)
         IN /\ p.ok
            /\ \A r \in Range(p.refs) :
                 /\ r.kind \in {"param", "passed", "step"}
                 /\ r.kind = "param" => r.name \in declaredParameters
                 /\ r.kind \in {"passed", "step"} =>
                      \E m \in DOMAIN stages : m < i /\ stages[m].id = r.stage
                 /\ r.kind = "step" => pipeline.allowStageSteps
  <1> DEFINE p == parseCondition(condition)
  <1>1. loadErrors = {} /\ ~(~pipeline.allowStageSteps /\ readsStepOutput)
    <2>1. loadErrors \subseteq refusalReasons
      BY DEF refusalReasons
    <2>2. loadErrors = {} /\ ~pipeline.allowStageSteps /\ readsStepOutput
             => "STEP_OUTPUT_STEPS_DISABLED" \in refusalReasons
      BY DEF refusalReasons
    <2> QED
      BY <2>1, <2>2
  <1>2. \A n \in DOMAIN stages : stageErrors(n) = {}
    BY <1>1 DEF loadErrors
  <1>3. \A n \in DOMAIN stages : ~forwardReference(n)
    <2> TAKE n \in DOMAIN stages
    <2>1. forwardReference(n) => "forward_reference" \in stageErrors(n)
      BY DEF stageErrors
    <2> QED
      BY <1>2, <2>1
  <1>4. conditionFault(i) = "none"
    <2>1. conditioned(i)
      BY DEF conditioned
    <2>2. {conditionFault(i)} \ {"none"} \subseteq stageErrors(i)
      BY <2>1 DEF stageErrors
    <2> QED
      BY <1>2, <2>2
  <1>5. p.ok /\ \A r \in Range(p.refs) : referenceFault(r, i) = "none"
    BY <1>4, NoReferenceFault
  <1>6. \A r \in Range(p.refs) : RefShape(r)
    BY <1>5, ParsedIsWell
  <1>7. \A r \in Range(p.refs) : r.kind = "step" => pipeline.allowStageSteps
    BY <1>1 DEF readsStepOutput, conditioned
  <1> HIDE DEF p
  <1>8. ASSUME NEW r \in Range(p.refs)
        PROVE  /\ r.kind \in {"param", "passed", "step"}
               /\ r.kind = "param" => r.name \in declaredParameters
               /\ r.kind \in {"passed", "step"} =>
                    \E m \in DOMAIN stages : m < i /\ stages[m].id = r.stage
    <2>1. referenceFault(r, i) = "none" /\ RefShape(r)
      BY <1>5, <1>6
    <2>2. CASE r.kind = "fault"
      BY <2>1, <2>2 DEF referenceFault, RefShape
    <2>3. CASE r.kind = "param"
      BY <2>1, <2>3 DEF referenceFault
    <2>4. CASE r.kind \in {"passed", "step"}
      <3>1. r.stage \in ids /\ r.stage \in ancestorsOf(i)
        BY <2>1, <2>4 DEF referenceFault
      <3>2. PICK m \in DOMAIN stages : stages[m].id = r.stage
        BY <3>1 DEF ids
      <3>3. m < i
        BY <1>3, <3>1, <3>2, AncestorsAreBefore DEF Before
      <3> QED
        BY <2>4, <3>2, <3>3
    <2> QED
      BY <2>1, <2>2, <2>3, <2>4 DEF RefShape
  <1> QED
    BY <1>5, <1>7, <1>8 DEF p

-----------------------------------------------------------------------------
(***************************************************************************)
(* The steps of a load and of the run it lets through.                     *)
(***************************************************************************)
\* What the pipelines and inputs are.
Sound ==
    /\ pipeline \in Pipelines \union {NoPipeline}
    /\ input \in Inputs \union {NoInput}

\* Stages end only behind a load that refused nothing, and while there are some left.
Accepted ==
    /\ phase \notin {"running", "over"} => ended = <<>>
    /\ phase = "running" => refusalReasons = {} /\ Len(ended) < Len(stages)

LoadIInv ==
    LoadTypeOK /\ isList(ended) /\ isList(values) /\ Sound /\ Accepted

LEMMA LoadedIsSound ==
  ASSUME Sound
  PROVE  /\ isList(stages)
         /\ \A i \in DOMAIN stages : stages[i].condition \in BOOLEAN
         /\ E \notin Range(pipeline.defaults)
         /\ E \notin Range(input.params) /\ E # input.target
  <1>1. Range(<<>>) = {} /\ isList(<<>>)
    BY EmptyList
  <1>2. E \notin Range(input.params) /\ E # input.target
    BY <1>1, ParametersAssumption DEF Sound, NoInput, E
  <1>3. CASE pipeline = NoPipeline
    <2>1. stages = <<>> /\ pipeline.defaults = <<>>
      BY <1>3 DEF NoPipeline, stages
    <2> QED
      BY <1>1, <1>2, <2>1
  <1>4. CASE pipeline \in Pipelines
    <2>1. isList(stages) /\ \A s \in Range(stages) : s.condition \in BOOLEAN
      BY <1>4, LoadedAssumption DEF stages, isList
    <2>2. \A i \in DOMAIN stages : stages[i] \in Range(stages)
      BY DEF Range
    <2> QED
      BY <1>2, <1>4, <2>1, <2>2, ParametersAssumption
  <1> QED
    BY <1>3, <1>4 DEF Sound

\* A stage at hand is one of the pipeline.
LEMMA StageAtHand ==
  ASSUME LoadIInv, phase = "running"
  PROVE  /\ Len(ended) \in Nat /\ DOMAIN ended = 1..Len(ended)
         /\ Len(ended) + 1 \in DOMAIN stages
         /\ Len(stages) \in Nat /\ Len(ended) + 1 <= Len(stages)
  <1>1. /\ Len(ended) \in Nat /\ DOMAIN ended = 1..Len(ended)
        /\ Len(stages) \in Nat /\ DOMAIN stages = 1..Len(stages)
    BY ListBasics, LoadedIsSound DEF LoadIInv
  <1> QED
    BY <1>1 DEF LoadIInv, Accepted

LEMMA InitEstablishesLoad ==
  ASSUME LoadInit
  PROVE  LoadIInv
  <1>1. isList(<<>>) /\ Range(<<>>) = {} /\ DOMAIN <<>> = {} /\ Len(<<>>) = 0
    BY EmptyList
  <1>2. text \in Seq(Fragments)
    BY DEF LoadInit
  <1> QED
    BY <1>1, <1>2 DEF LoadInit, LoadIInv, LoadTypeOK, Sound, Accepted

\* What the load checks say of a pipeline is a matter of its text, itself
\* and what it is started with.
LEMMA ReasonsAreStatic ==
  ASSUME UNCHANGED <<text, pipeline, input>>
  PROVE  refusalReasons' = refusalReasons /\ stages' = stages
  BY DEF refusalReasons, stages, loadErrors, duplicateIds, stageErrors, strayKeys,
         forwardReference, conditioned, conditionFault, thresholdFaults, readsStepOutput,
         hardGatedSteps, stepsStage, missingVocabulary, condition, referenceFault,
         declaredParameters, ids, ancestorsOf, withDependencies, dependsOn,
         nulParameter, boundParams

LEMMA WritePreserves ==
  ASSUME LoadIInv, Write
  PROVE  LoadIInv'
  <1>1. text' \in Seq(Fragments)
    BY AppendProperties DEF LoadIInv, LoadTypeOK, Write
  <1>2. stages' = stages
    BY DEF Write, stages
  <1> QED
    BY <1>1, <1>2 DEF LoadIInv, LoadTypeOK, Sound, Accepted, isList, Write

LEMMA SubmitPreserves ==
  ASSUME LoadIInv, Submit
  PROVE  LoadIInv'
  <1>1. pipeline' \in Pipelines /\ input' \in Inputs \union {NoInput}
    <2>1. (CHOOSE p \in Pipelines : TRUE) \in Pipelines
      BY LoadedAssumption
    <2> QED
      BY <2>1 DEF Submit
  <1>2. ended = <<>> /\ ended' = ended /\ DOMAIN ended = {}
    BY DEF LoadIInv, Accepted, Submit
  <1> QED
    BY <1>1, <1>2 DEF LoadIInv, LoadTypeOK, Sound, Accepted, isList, Submit

LEMMA CheckLoadPreserves ==
  ASSUME LoadIInv, CheckLoad
  PROVE  LoadIInv'
  <1>1. ended = <<>> /\ ended' = ended /\ DOMAIN ended = {} /\ Len(ended) = 0
    BY DEF LoadIInv, Accepted, CheckLoad
  <1>2. refusalReasons' = refusalReasons /\ stages' = stages
    BY ReasonsAreStatic DEF CheckLoad
  <1>3. Len(stages) \in Nat /\ (Len(stages) = 0 <=> stages = <<>>)
    BY ListBasics, LoadedIsSound DEF LoadIInv
  <1>4. Sound'
    BY DEF LoadIInv, Sound, CheckLoad
  <1>5. LoadTypeOK' /\ isList(ended)' /\ isList(values)'
    BY <1>1, <1>2 DEF LoadIInv, LoadTypeOK, CheckLoad, isList
  <1>6. Accepted'
    BY <1>1, <1>2, <1>3 DEF Accepted, CheckLoad
  <1> QED
    BY <1>4, <1>5, <1>6 DEF LoadIInv

\* However the stage at hand ends.
LEMMA EndsPreserves ==
  ASSUME LoadIInv, phase = "running", NEW value, NEW outcome, ends(value, outcome),
         UNCHANGED <<text, pipeline, input, refusal>>,
         DOMAIN stepResults' \subseteq DOMAIN stepResults \union {stage.id}
  PROVE  LoadIInv'
  <1>1. refusalReasons' = refusalReasons /\ stages' = stages
    BY ReasonsAreStatic
  <1>2. PICK n \in Nat : n = Len(ended) /\ DOMAIN ended = 1..n
    BY StageAtHand
  <1>3. PICK N \in Nat : N = Len(stages) /\ n + 1 <= N
    BY <1>2, StageAtHand
  <1>4. /\ isList(ended)' /\ Range(ended') = Range(ended) \union {stage.id}
        /\ Len(ended') = n + 1
        /\ ended'[n + 1] = stage.id /\ \A i \in DOMAIN ended : ended'[i] = ended[i]
    <2>1. ended' = Append(ended, stage.id) /\ isList(ended)
      BY DEF ends, LoadIInv
    <2>2. /\ isList(Append(ended, stage.id))
          /\ Range(Append(ended, stage.id)) = Range(ended) \union {stage.id}
          /\ Len(Append(ended, stage.id)) = Len(ended) + 1
          /\ Append(ended, stage.id)[Len(ended) + 1] = stage.id
          /\ \A i \in DOMAIN ended : Append(ended, stage.id)[i] = ended[i]
      BY <2>1, AppendList
    <2>3. isList(ended') /\ Len(ended') = n + 1 /\ ended'[n + 1] = stage.id
      BY <1>2, <2>1, <2>2, Zenon
    <2> QED
      BY <2>1, <2>2, <2>3 DEF isList
  <1>5. isList(values)' /\ Len(values') = n + 1
    <2>1. values' = Append(values, value) /\ isList(values)
      BY DEF ends, LoadIInv
    <2>2. isList(Append(values, value)) /\ Len(Append(values, value)) = Len(values) + 1
      BY <2>1, AppendList
    <2> QED
      BY <1>2, <2>1, <2>2 DEF isList, LoadIInv, LoadTypeOK
  <1>6. \A i \in DOMAIN ended' : ended'[i] = stages'[i].id
    <2> TAKE i \in DOMAIN ended'
    <2>1. i \in 1..(n + 1)
      <3>1. DOMAIN ended' = 1..Len(ended')
        BY <1>4, ListBasics DEF isList
      <3> QED
        BY <1>4, <3>1
    <2>2. CASE i = n + 1
      BY <1>1, <1>2, <1>4, <2>2 DEF stage
    <2>3. CASE i # n + 1
      <3>1. i \in DOMAIN ended
        BY <1>2, <2>1, <2>3
      <3> QED
        BY <1>1, <1>4, <3>1 DEF LoadIInv, LoadTypeOK
    <2> QED
      BY <2>2, <2>3
  <1>7. DOMAIN passed' = Range(ended') /\ DOMAIN stepResults' \subseteq Range(ended')
    BY <1>4 DEF ends, LoadIInv, LoadTypeOK
  <1>8. phase' \in {"running", "over"} /\ (phase' = "running" => n + 1 # N)
    BY <1>2, <1>3 DEF ends
  <1>9. LoadTypeOK'
    <2>1. text' \in Seq(Fragments)
      BY DEF LoadIInv, LoadTypeOK
    <2>2. refusal' = {} /\ phase' # "refused"
      BY <1>8 DEF LoadIInv, LoadTypeOK
    <2> QED
      BY <1>4, <1>5, <1>6, <1>7, <1>8, <2>1, <2>2 DEF LoadTypeOK
  <1>10. Accepted'
    BY <1>1, <1>3, <1>4, <1>8 DEF Accepted, LoadIInv
  <1>11. Sound'
    BY DEF Sound, LoadIInv
  <1> QED
    BY <1>4, <1>5, <1>9, <1>10, <1>11 DEF LoadIInv

LEMMA LoadIsInductive ==
  ASSUME LoadIInv, [LoadNext]_loadVars
  PROVE  LoadIInv'
  <1>1. CASE Write
    BY <1>1, WritePreserves
  <1>2. CASE Submit
    BY <1>2, SubmitPreserves
  <1>3. CASE CheckLoad
    BY <1>3, CheckLoadPreserves
  <1>4. CASE LaunchStage
    <2>1. PICK outcome \in BOOLEAN : ends(T, outcome)
      BY <1>4 DEF LaunchStage
    <2>2. DOMAIN stepResults' \subseteq DOMAIN stepResults \union {stage.id}
      BY <1>4 DEF LaunchStage
    <2>3. phase = "running" /\ UNCHANGED <<text, pipeline, input, refusal>>
      BY <1>4 DEF LaunchStage
    <2> QED
      BY <2>1, <2>2, <2>3, EndsPreserves
  <1>5. CASE Withhold
    <2>1. /\ phase = "running" /\ ends(valueHere, FALSE)
          /\ UNCHANGED <<text, pipeline, input, refusal, stepResults>>
      BY <1>5 DEF Withhold
    <2> QED
      BY <2>1, EndsPreserves
  <1>6. CASE SkipDependent
    <2>1. /\ phase = "running" /\ ends("unread", FALSE)
          /\ UNCHANGED <<text, pipeline, input, refusal, stepResults>>
      BY <1>6 DEF SkipDependent
    <2> QED
      BY <2>1, EndsPreserves
  <1>7. CASE UNCHANGED loadVars
    <2>1. refusalReasons' = refusalReasons /\ stages' = stages
      BY <1>7, ReasonsAreStatic DEF loadVars
    <2> QED
      BY <1>7, <2>1 DEF loadVars, LoadIInv, LoadTypeOK, Sound, Accepted, isList
  <1> QED
    BY <1>1, <1>2, <1>3, <1>4, <1>5, <1>6, <1>7 DEF LoadNext


-----------------------------------------------------------------------------
(* What the theorems say of a state. *)

LEMMA TokensAreRead ==
  ASSUME LoadIInv, NEW c, NEW p, p = parseCondition(condition), p.ok
  PROVE  /\ p.tree \in p.nodes /\ Ranked(p.nodes, Range(p.refs))
         /\ \A r \in Range(p.refs) : RefShape(r)
         /\ valueOf(p, c) = evaluate(p.tree, p.nodes, c)
  <1>1. isList(condition)
    BY ConditionIsList DEF LoadIInv, LoadTypeOK
  <1>2. /\ p.tree \in p.nodes /\ Ranked(p.nodes, Range(p.refs))
        /\ \A r \in Range(p.refs) : RefShape(r)
    BY <1>1, ParsedIsWell
  <1> QED
    BY <1>2 DEF valueOf

\* The results of steps that passed are the same in a completion.
LEMMA CompletionsKeepWhatPassed ==
  ASSUME NEW c \in completions, NEW r, RefShape(r),
         read(r, context) # E
  PROVE  read(r, [context EXCEPT !.steps = c]) = read(r, context)
  <1> DEFINE d == [context EXCEPT !.steps = c]
  <1>1. /\ context.steps = stepResults /\ d.steps = c
        /\ d.params = context.params /\ d.passed = context.passed
    BY DEF context
  <1>2. DOMAIN c = DOMAIN stepResults
        /\ \A s \in DOMAIN stepResults : c[s] \in passing(s, stepResults[s])
    BY DEF completions
  <1> HIDE DEF d
  <1>3. CASE r.kind = "fault"
    BY <1>3 DEF read
  <1>4. CASE r.kind \in {"param", "passed"}
    BY <1>1, <1>4 DEF read
  <1>5. CASE r.kind = "step"
    <2>1. read(r, context) = readStep(r, context) /\ read(r, d) = readStep(r, d)
      BY <1>5 DEF read
    <2>2. /\ r.stage \in DOMAIN stepResults
          /\ r.step \in DOMAIN stepResults[r.stage]
          /\ stepResults[r.stage][r.step].status = "passed"
          /\ readStep(r, context) = stepResults[r.stage][r.step].output
      BY <1>1, <2>1 DEF readStep
    <2>3. c[r.stage] \in passing(r.stage, stepResults[r.stage])
      BY <1>2, <2>2
    <2>4. DOMAIN c[r.stage] = DOMAIN stepResults[r.stage]
          /\ c[r.stage][r.step] = stepResults[r.stage][r.step]
      BY <2>2, <2>3 DEF passing
    <2>5. r.stage \in DOMAIN c /\ r.step \in DOMAIN c[r.stage]
      BY <1>2, <2>2, <2>4
    <2>6. readStep(r, d) = c[r.stage][r.step].output
      BY <1>1, <2>2, <2>4, <2>5, Zenon DEF readStep
    <2>7. readStep(r, d) = readStep(r, context)
      BY <2>2, <2>4, <2>6, Zenon
    <2> QED
      BY <2>1, <2>7, Zenon DEF d
  <1> QED
    BY <1>3, <1>4, <1>5 DEF RefShape, d

LEMMA UnpassedDoesNotDecide ==
  ASSUME LoadIInv
  PROVE  UnpassedOutputNeverDecides
  <1> DEFINE p == parseCondition(condition)
  <1> SUFFICES ASSUME valueOf(p, context) # E, NEW c \in completions
               PROVE  valueOf(p, [context EXCEPT !.steps = c]) = valueOf(p, context)
    BY Zenon DEF UnpassedOutputNeverDecides
  <1> DEFINE d == [context EXCEPT !.steps = c]
  <1>1. p.ok
    BY DEF valueOf
  <1>2. /\ p.tree \in p.nodes /\ Ranked(p.nodes, Range(p.refs))
        /\ \A r \in Range(p.refs) : RefShape(r)
        /\ valueOf(p, context) = evaluate(p.tree, p.nodes, context)
        /\ valueOf(p, d) = evaluate(p.tree, p.nodes, d)
    BY <1>1, TokensAreRead
  <1>3. \A r \in Range(p.refs) : read(r, context) # E => read(r, d) = read(r, context)
    BY <1>2, CompletionsKeepWhatPassed
  <1> HIDE DEF p, d
  <1>4. evaluate(p.tree, p.nodes, context) # E
    BY <1>2
  <1>5. evaluate(p.tree, p.nodes, d) = evaluate(p.tree, p.nodes, context)
    BY <1>2, <1>3, <1>4, ValuesPersist
  <1>6. valueOf(p, d) = valueOf(p, context)
    BY <1>2, <1>5, Zenon
  <1> QED
    BY <1>6 DEF d

\* Only a step has no value: every parameter has one, and a stage passed or did not.
LEMMA OnlyStepsHaveNoValue ==
  ASSUME Sound, NEW r, r.kind \in {"param", "passed", "step"}, read(r, context) = E
  PROVE  r.kind = "step"
  <1>1. CASE r.kind = "param"
    <2>1. context.params = boundParams
      BY DEF context
    <2>2. E # ABSENT
      BY DEF E, ABSENT
    <2>3. r.name \in DOMAIN boundParams /\ boundParams[r.name] = E
      BY <1>1, <2>1, <2>2 DEF read
    <2>4. \/ r.name \in DOMAIN input.params /\ boundParams[r.name] = input.params[r.name]
          \/ r.name \in DOMAIN pipeline.defaults
             /\ boundParams[r.name] = pipeline.defaults[r.name]
          \/ boundParams[r.name] = input.target
      BY <2>3 DEF boundParams, declaredParameters
    <2>5. E \in Range(input.params) \/ E \in Range(pipeline.defaults) \/ E = input.target
      BY <2>3, <2>4 DEF Range
    <2> QED
      BY <2>5, LoadedIsSound
  <1>2. CASE r.kind = "passed"
    <2>1. read(r, context) \in {"true", "false"}
      BY <1>2 DEF read
    <2> QED
      BY <2>1 DEF E
  <1> QED
    BY <1>1, <1>2

LEMMA AcceptedIsReadable ==
  ASSUME LoadIInv
  PROVE  AcceptedConditionsAreReadable
  <1> DEFINE p == parseCondition(condition)
  <1> SUFFICES ASSUME phase = "running", stage.condition
               PROVE  /\ \A r \in Range(p.refs) :
                           /\ r.kind \in {"passed", "step"} => r.stage \in Range(ended)
                           /\ r.kind = "param" => r.name \in declaredParameters
                           /\ r.kind = "step" => pipeline.allowStageSteps
                      /\ valueOf(p, context) = E =>
                           \E r \in Range(p.refs) : r.kind = "step" /\ read(r, context) = E
    BY Zenon DEF AcceptedConditionsAreReadable
  <1>1. PICK n \in Nat : /\ n = Len(ended) /\ DOMAIN ended = 1..n
                         /\ n + 1 \in DOMAIN stages /\ stage = stages[n + 1]
    BY StageAtHand DEF stage
  <1>2. isList(condition) /\ isList(stages) /\ refusalReasons = {} /\ Sound
    BY ConditionIsList, LoadedIsSound DEF LoadIInv, LoadTypeOK, Accepted
  <1>3. /\ p.ok
        /\ \A r \in Range(p.refs) :
             /\ r.kind \in {"param", "passed", "step"}
             /\ r.kind = "param" => r.name \in declaredParameters
             /\ r.kind \in {"passed", "step"} =>
                  \E m \in DOMAIN stages : m < n + 1 /\ stages[m].id = r.stage
             /\ r.kind = "step" => pipeline.allowStageSteps
    BY <1>1, <1>2, AcceptedReferences
  <1>4. /\ p.tree \in p.nodes /\ Ranked(p.nodes, Range(p.refs))
        /\ valueOf(p, context) = evaluate(p.tree, p.nodes, context)
    BY <1>3, TokensAreRead
  <1> HIDE DEF p
  <1>5. ASSUME NEW r \in Range(p.refs), r.kind \in {"passed", "step"}
        PROVE  r.stage \in Range(ended)
    <2>1. PICK m \in DOMAIN stages : m < n + 1 /\ stages[m].id = r.stage
      BY <1>3, <1>5
    <2>2. m \in 1..n
      <3>1. DOMAIN stages = 1..Len(stages) /\ Len(stages) \in Nat
        BY <1>2, ListBasics
      <3> QED
        BY <1>1, <2>1, <3>1
    <2>3. ended[m] = stages[m].id
      BY <1>1, <2>2 DEF LoadIInv, LoadTypeOK
    <2> QED
      BY <1>1, <2>1, <2>2, <2>3 DEF Range
  <1>6. ASSUME valueOf(p, context) = E
        PROVE  \E r \in Range(p.refs) : r.kind = "step" /\ read(r, context) = E
    <2>1. PICK r \in Range(p.refs) : read(r, context) = E
      BY <1>4, <1>6, NoValueNoRead
    <2> QED
      BY <1>2, <1>3, <2>1, OnlyStepsHaveNoValue
  <1> QED
    BY <1>3, <1>5, <1>6

-----------------------------------------------------------------------------
(***************************************************************************)
(* What is recorded of the stages that ended is about the same stages, in  *)
(* the order in which the pipeline declares them, whatever the text, the   *)
(* pipeline and the parameters (the stage loop of PipelineExecutor).       *)
(***************************************************************************)
THEOREM LoadTypeCorrect == LoadSpec => []LoadTypeOK
  <1>1. LoadIInv /\ [LoadNext]_loadVars => LoadIInv'
    BY LoadIsInductive
  <1>2. LoadIInv => LoadTypeOK
    BY DEF LoadIInv
  <1> QED
    BY InitEstablishesLoad, <1>1, <1>2, PTL DEF LoadSpec

(***************************************************************************)
(* Where a condition has the value true or false, it would have had it     *)
(* whatever the steps that did not pass had printed, for every text that   *)
(* parses and every result (read, evaluate of conditions.ts).              *)
(***************************************************************************)
THEOREM UnpassedNeverDecides == LoadSpec => []UnpassedOutputNeverDecides
  <1>1. LoadIInv /\ [LoadNext]_loadVars => LoadIInv'
    BY LoadIsInductive
  <1> QED
    BY InitEstablishesLoad, <1>1, UnpassedDoesNotDecide, PTL DEF LoadSpec

(***************************************************************************)
(* A condition of a pipeline the load checks accepted reads only what is   *)
(* there, and has no value only where it reads a step that did not pass,   *)
(* for every text, every graph of stages and every set of parameters       *)
(* (checkPipelineLoadRules, conditionFault, refuseBeforeLaunch).           *)
(***************************************************************************)
THEOREM AcceptedAreReadable == LoadSpec => []AcceptedConditionsAreReadable
  <1>1. LoadIInv /\ [LoadNext]_loadVars => LoadIInv'
    BY LoadIsInductive
  <1> QED
    BY InitEstablishesLoad, <1>1, AcceptedIsReadable, PTL DEF LoadSpec

(***************************************************************************)
(* The parser reads exactly the language of its grammar, and reads it one  *)
(* way, for every text of tokens, however long it is and however deep its  *)
(* groups nest (Parser of conditions.ts, and the grammar at its head).     *)
(***************************************************************************)
THEOREM ParserIsExact == LoadSpec => []ParserReadsTheGrammar
  <1>1. LoadIInv /\ [LoadNext]_loadVars => LoadIInv'
    BY LoadIsInductive
  <1>2. LoadIInv => ParserReadsTheGrammar
    <2> SUFFICES ASSUME LoadIInv PROVE ParserReadsTheGrammar
      OBVIOUS
    <2>1. isList(condition)
      BY ConditionIsList DEF LoadIInv, LoadTypeOK
    <2> QED
      BY <2>1, ParserIsTheGrammar DEF ParserReadsTheGrammar
  <1> QED
    BY InitEstablishesLoad, <1>1, <1>2, PTL DEF LoadSpec

=============================================================================
