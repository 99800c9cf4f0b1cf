------------------------ MODULE GenerationStepsProofs ------------------------
(***************************************************************************)
(* Proofs about GenerationSteps: for every provider, window, budget and    *)
(* step limit the types, and, where each count a provider reports is a     *)
(* number or is missing, what the two brakes do and what a run says of     *)
(* itself; and, where a provider's counts are whole, that each token it    *)
(* reported is priced once.                                                *)
(***************************************************************************)
EXTENDS GenerationSteps, SequenceTheorems, FiniteSetTheorems, WellFoundedInduction, TLAPS

AllReports == UNION {Reports[shape] : shape \in DOMAIN Reports}
Turns == [part : {"loop", "repair"}, report : AllReports, tools : BOOLEAN,
          finish : {"tool-calls", "stop"}]

\* Each count of a provider is a number, or it is missing.
CountsAreNumbers == \A report \in AllReports : report.input \in Nat \cup {Absent}

\* The turns of the loop: all of them, but for a repair at the end.
taken == IF turns # <<>> /\ Last(turns).part = "repair" THEN Len(turns) - 1 ELSE Len(turns)

Shape ==
    /\ turns \in Seq(Turns)
    /\ options.shape \in DOMAIN Reports /\ options.structured \in BOOLEAN
    /\ loop = 1 .. taken /\ (turns # <<>> => taken >= 1)
    /\ pc \in {"running", "finished"} => taken = Len(turns)
    /\ pc # "running" => turns # <<>>

Trackers == [window : Nat, output : Nat, evicted : BOOLEAN, evictedTokens : Nat,
             forcedWrapUp : BOOLEAN, brakeInert : BOOLEAN]
TotalFields == {"steps", "calls", "input", "output", "sawUsage", "noCache", "read", "write",
                "meta", "billed", "billedSteps", "stepWrapUp"}

\* The types, strong enough to be kept: the totals count turn by turn.
Types ==
    /\ pc \in {"running", "finished", "repairing", "returned"}
    /\ latched \in BOOLEAN /\ (latched => braked)
    /\ tracker \in Trackers
    /\ totals = [f \in TotalFields |-> totals[f]]
    /\ totals.steps = Len(turns) /\ totals.billedSteps \in 0..Len(turns)
    /\ pc # "returned" => result = Absent

-----------------------------------------------------------------------------
(* Numbers. *)

LEMMA MaxOfTwo ==
  ASSUME NEW a \in Int, NEW b \in Int
  PROVE  Max({a, b}) \in {a, b} /\ Max({a, b}) >= a /\ Max({a, b}) >= b
  <1>1. \E x \in {a, b} : \A y \in {a, b} : x >= y
    OBVIOUS
  <1> QED
    BY <1>1 DEF Max

LEMMA MinOfTwo ==
  ASSUME NEW a \in Int, NEW b \in Int
  PROVE  Min({a, b}) \in {a, b} /\ Min({a, b}) <= a /\ Min({a, b}) <= b
  <1>1. \E x \in {a, b} : \A y \in {a, b} : x <= y
    OBVIOUS
  <1> QED
    BY <1>1 DEF Min

LEMMA MaxOfRange ==
  ASSUME NEW n \in Nat \ {0}
  PROVE  Max(1 .. n) = n
  <1>1. n \in 1 .. n /\ \A y \in 1 .. n : n >= y
    OBVIOUS
  <1>2. \E x \in 1 .. n : \A y \in 1 .. n : x >= y
    BY <1>1
  <1>3. Max(1 .. n) \in 1 .. n /\ \A y \in 1 .. n : Max(1 .. n) >= y
    BY <1>2 DEF Max
  <1> QED
    BY <1>1, <1>3

\* The step limit is a number, whatever was asked, and tools go before it.
LEMMA LimitIsANumber ==
  /\ maxSteps \in Nat \ {0} /\ wrapUpAt \in Nat \ {0}
  /\ maxSteps > 1 => wrapUpAt < maxSteps
  <1> DEFINE asked == orElse(options.limit, DEFAULT_MAX_STEPS)
  <1> DEFINE whole == IF asked \in Int THEN asked ELSE DEFAULT_MAX_STEPS
  <1>1. whole \in Int
    BY BoundsAssumption
  <1> HIDE DEF whole
  <1> DEFINE least == Min({whole, MAX_STEPS_CEILING})
  <1>2. least \in {whole, MAX_STEPS_CEILING}
    <2>1. MAX_STEPS_CEILING \in Int
      BY BoundsAssumption
    <2> QED
      BY <1>1, <2>1, MinOfTwo
  <1>3. least \in Int
    BY <1>1, <1>2, BoundsAssumption
  <1>4. maxSteps = Max({1, least})
    BY DEF maxSteps, whole
  <1> HIDE DEF least
  <1>5. maxSteps \in {1, least} /\ maxSteps >= 1
    <2>1. PICK one \in Int, m \in Int : one = 1 /\ m = least
      BY <1>3
    <2>2. Max({one, m}) \in {one, m} /\ Max({one, m}) >= one
      BY MaxOfTwo
    <2> QED
      BY <1>4, <2>1, <2>2
  <1>6. maxSteps \in Nat \ {0}
    BY <1>3, <1>5
  <1> DEFINE most == (maxSteps * 8) \div 10
  <1>7. most \in Int /\ most < maxSteps
    BY <1>6
  <1>8. wrapUpAt = Max({1, most})
    BY DEF wrapUpAt
  <1> HIDE DEF most
  <1>9. wrapUpAt \in {1, most} /\ wrapUpAt >= 1
    BY <1>7, <1>8, MaxOfTwo
  <1> QED
    BY <1>6, <1>7, <1>9

\* A budget that brakes is a number above zero.
LEMMA BudgetIsANumber == braked <=> options.budget \in Nat \ {0}
  BY BoundsAssumption DEF braked, usableBudget

-----------------------------------------------------------------------------
(* The latch. *)

\* What was measured of the turns before does not change when one is added.
LEMMA PastIsKept ==
  ASSUME turns \in Seq(Turns), NEW turn \in Turns, turns' = Append(turns, turn), options' = options,
         NEW n \in 0 .. Len(turns)
  PROVE  (engaged(n)' <=> engaged(n)) /\ counted(n)' = counted(n)
         /\ \A i \in 1 .. n : turns'[i] = turns[i] /\ count(i)' = count(i)
  <1>1. \A i \in 1 .. n : turns'[i] = turns[i]
    OBVIOUS
  <1>2. counted(n)' = counted(n) /\ counted(n) \subseteq 1 .. n
    BY <1>1 DEF counted
  <1>3. \A i \in 1 .. n : count(i)' = count(i)
    BY <1>1 DEF count
  <1>4. braked' = braked
    BY DEF braked, usableBudget
  <1> QED
    BY <1>1, <1>2, <1>3, <1>4 DEF engaged

\* The brake before a turn is the latch of the definition, one turn on.
LEMMA BrakeIsTheLatch ==
  ASSUME CountsAreNumbers, turns \in Seq(Turns), turns # <<>>, latched \in BOOLEAN,
         latched <=> engaged(Len(turns) - 1)
  PROVE  brake <=> engaged(Len(turns))
  <1> DEFINE n == Len(turns)
  <1> DEFINE input == turns[n].report.input
  <1>1. n \in Nat \ {0} /\ Last(turns) = turns[n] /\ turns[n] \in Turns
    BY DEF Last
  <1>2. input \in Nat \cup {Absent}
    BY <1>1 DEF CountsAreNumbers, Turns
  <1>3. CASE ~braked
    BY <1>3 DEF brake, engaged
  <1>4. CASE braked /\ input = Absent
    <2>1. counted(n) = counted(n - 1)
      BY <1>1, <1>4 DEF counted
    <2>2. brake <=> latched
      BY <1>1, <1>4 DEF brake, latchedNext
    <2> QED
      BY <2>1, <2>2 DEF engaged
  <1>5. CASE braked /\ input # Absent
    <2>1. input \in Nat /\ options.budget \in Nat \ {0}
      BY <1>2, <1>5, BudgetIsANumber
    <2>2. counted(n) = counted(n - 1) \cup {n} /\ counted(n - 1) \subseteq 1 .. n - 1
      BY <1>1, <1>5 DEF counted
    <2>3. count(n) = input
      BY DEF count
    <2>4. brake <=> IF latched THEN input * 10 >= options.budget * 7
                    ELSE input * 10 >= options.budget * 8
      BY <1>1, <1>5, <2>1 DEF brake, latchedNext, safeTokenCount, isCount
    <2>5. engaged(n) <=> \/ input * 10 >= options.budget * 8
                         \/ engaged(n - 1) /\ input * 10 >= options.budget * 7
      <3> HIDE DEF input, n
      <3>1. n \in counted(n) /\ \A j \in counted(n) : ~(j > n)
        BY <1>1, <2>2
      <3>2. input * 10 >= options.budget * 8 => engaged(n)
        BY <1>5, <2>3, <3>1 DEF engaged
      <3>3. ASSUME engaged(n - 1), input * 10 >= options.budget * 7 PROVE engaged(n)
        <4>1. PICK i \in counted(n - 1) :
                /\ count(i) * 10 >= options.budget * 8
                /\ \A j \in counted(n - 1) : j > i => count(j) * 10 >= options.budget * 7
          BY <3>3 DEF engaged
        <4>2. i \in counted(n) /\ \A j \in counted(n) : j > i => count(j) * 10 >= options.budget * 7
          BY <2>2, <2>3, <3>3, <4>1
        <4> QED
          BY <1>5, <4>1, <4>2 DEF engaged
      <3>4. ASSUME engaged(n), ~(input * 10 >= options.budget * 8)
            PROVE  engaged(n - 1) /\ input * 10 >= options.budget * 7
        <4>1. PICK i \in counted(n) :
                /\ count(i) * 10 >= options.budget * 8
                /\ \A j \in counted(n) : j > i => count(j) * 10 >= options.budget * 7
          BY <3>4 DEF engaged
        <4>2. i \in counted(n - 1) /\ n > i
          BY <1>1, <2>2, <2>3, <3>4, <4>1
        <4> QED
          BY <1>5, <2>2, <2>3, <3>1, <4>1, <4>2 DEF engaged
      <3> QED
        BY <3>2, <3>3, <3>4
    <2>6. input * 10 >= options.budget * 8 => input * 10 >= options.budget * 7
      <3>1. PICK a \in Nat, b \in Nat : a = input /\ b = options.budget
        BY <2>1
      <3>2. a * 10 >= b * 8 => a * 10 >= b * 7
        OBVIOUS
      <3> QED
        BY <3>1, <3>2, Zenon
    <2> QED
      BY <2>4, <2>5, <2>6
  <1> QED
    BY <1>2, <1>3, <1>4, <1>5

-----------------------------------------------------------------------------
(* The steps, whatever a provider reports. *)

\* A tracker that takes a count stays one.
LEMMA TrackedTypes ==
  ASSUME NEW t \in Trackers, NEW report \in AllReports
  PROVE  /\ tracked(t, report) \in Trackers
         /\ tracked(t, report).forcedWrapUp = t.forcedWrapUp
         /\ report.input = Absent => tracked(t, report) = t
         /\ report.input \in Nat =>
              /\ tracked(t, report).window = report.input
              /\ tracked(t, report).evicted = (t.evicted \/ evicts(t.window, report.input))
  <1> DEFINE input == safeTokenCount(report.input)
  <1> DEFINE output == safeTokenCount(report.output)
  <1>1. input \in Nat /\ output \in Nat
    BY DEF safeTokenCount, isCount
  <1>2. report.input \in Nat => input = report.input /\ report.input # Absent
    BY BoundsAssumption DEF safeTokenCount, isCount
  <1>3. tracked(t, report) = IF report.input = Absent THEN t ELSE update(t, input, output)
    BY DEF tracked
  <1>4. update(t, input, output) =
          [window |-> input, output |-> t.output + output,
           evicted |-> t.evicted \/ evicts(t.window, input),
           evictedTokens |-> IF evicts(t.window, input)
                             THEN t.evictedTokens + t.window - input ELSE t.evictedTokens,
           forcedWrapUp |-> t.forcedWrapUp, brakeInert |-> t.brakeInert]
    <2> HIDE DEF input, output
    <2>1. safeTokenCount(output) = output
      BY <1>1 DEF safeTokenCount, isCount
    <2> QED
      BY <1>1, <2>1 DEF update, isCount, Trackers
  <1> HIDE DEF input, output
  <1>5. evicts(t.window, input) => t.window > input
    BY <1>1 DEF evicts, Trackers
  <1>6. evicts(t.window, input) \in BOOLEAN
    BY DEF evicts
  <1>7. update(t, input, output) \in Trackers
    <2>1. t.output + output \in Nat
      BY <1>1 DEF Trackers
    <2>2. (IF evicts(t.window, input) THEN t.evictedTokens + t.window - input
           ELSE t.evictedTokens) \in Nat
      BY <1>1, <1>5 DEF Trackers
    <2>3. (t.evicted \/ evicts(t.window, input)) \in BOOLEAN
      OBVIOUS
    <2> QED
      BY <1>1, <1>4, <2>1, <2>2, <2>3 DEF Trackers
  <1>8. CASE report.input = Absent
    <2>1. report.input \notin Nat
      BY <1>8, BoundsAssumption
    <2> QED
      BY <1>3, <1>8, <2>1
  <1>9. CASE report.input # Absent
    <2>1. tracked(t, report) = update(t, input, output)
      BY <1>3, <1>9
    <2> QED
      BY <1>2, <1>4, <1>7, <1>9, <2>1
  <1> QED
    BY <1>8, <1>9

\* A turn more is one step more, and a billed step when its bill came.
LEMMA AddedCounts ==
  ASSUME NEW t, t = [f \in TotalFields |-> t[f]], NEW report, NEW calls \in Nat, t.steps \in Nat,
         t.billedSteps \in 0 .. t.steps
  PROVE  /\ added(t, report, calls) = [f \in TotalFields |-> added(t, report, calls)[f]]
         /\ added(t, report, calls).steps = t.steps + 1
         /\ added(t, report, calls).billedSteps \in 0 .. t.steps + 1
         /\ added(t, report, calls).stepWrapUp = t.stepWrapUp
  <1> DEFINE grown == added(t, report, calls)
  <1>1. DOMAIN t = TotalFields
    OBVIOUS
  <1>2. grown = [f \in TotalFields |-> grown[f]]
    BY <1>1, ZenonT(30) DEF added
  <1>3. grown.steps = t.steps + 1 /\ grown.stepWrapUp = t.stepWrapUp
    BY <1>1 DEF added, TotalFields
  <1>4. grown.billedSteps = IF report.billed # Absent THEN t.billedSteps + 1 ELSE t.billedSteps
    BY <1>1 DEF added, TotalFields
  <1> QED
    BY <1>2, <1>3, <1>4

\* A turn of the loop, its effects one by one.
LEMMA TurnFacts ==
  ASSUME Shape, Types, Turn
  PROVE  \E report \in AllReports, turn \in Turns :
           /\ turn.part = "loop" /\ turn.report = report /\ turn.tools = offersTools
           /\ turns' = Append(turns, turn)
           /\ latched' = brake
           /\ tracker' = tracked([tracker EXCEPT !.forcedWrapUp = IF braked THEN brake ELSE @], report)
           /\ totals'.steps = Len(turns) + 1 /\ totals'.billedSteps \in 0 .. Len(turns) + 1
           /\ totals' = [f \in TotalFields |-> totals'[f]]
           /\ totals'.stepWrapUp = IF Len(turns) >= wrapUpAt /\ totals.stepWrapUp = Absent
                                   THEN Len(turns) ELSE totals.stepWrapUp
           /\ pc = "running" /\ pc' \in {"running", "finished"}
           /\ pc' = "finished" /\ turn.finish = "tool-calls" => Len(turns) + 1 >= stepLimit
           /\ options' = options /\ result' = result
  <1>1. PICK report \in Reports[options.shape] : \E calls \in 0..1 :
          LET again == calls > 0 /\ Len(turns) + 1 < stepLimit
              wrapsUp == Len(turns) >= wrapUpAt /\ totals.stepWrapUp = Absent
              grown == added(totals, report, calls)
          IN /\ turns' = Append(turns, [part |-> "loop", report |-> report, tools |-> offersTools,
                                        finish |-> IF calls > 0 THEN "tool-calls" ELSE "stop"])
             /\ latched' = brake
             /\ tracker' = tracked([tracker EXCEPT !.forcedWrapUp =
                                      IF braked THEN brake ELSE @], report)
             /\ totals' = IF wrapsUp THEN [grown EXCEPT !.stepWrapUp = Len(turns)] ELSE grown
             /\ pc' = IF again THEN "running" ELSE "finished"
    BY DEF Turn
  <1>2. PICK calls \in 0..1 :
          /\ turns' = Append(turns, [part |-> "loop", report |-> report, tools |-> offersTools,
                                     finish |-> IF calls > 0 THEN "tool-calls" ELSE "stop"])
          /\ latched' = brake
          /\ tracker' = tracked([tracker EXCEPT !.forcedWrapUp = IF braked THEN brake ELSE @], report)
          /\ totals' = IF Len(turns) >= wrapUpAt /\ totals.stepWrapUp = Absent
                       THEN [added(totals, report, calls) EXCEPT !.stepWrapUp = Len(turns)]
                       ELSE added(totals, report, calls)
          /\ pc' = IF calls > 0 /\ Len(turns) + 1 < stepLimit THEN "running" ELSE "finished"
    BY <1>1
  <1> DEFINE turn == [part |-> "loop", report |-> report, tools |-> offersTools,
                      finish |-> IF calls > 0 THEN "tool-calls" ELSE "stop"]
  <1>3. report \in AllReports
    BY <1>1 DEF AllReports, Shape
  <1>4. offersTools \in BOOLEAN
    BY DEF offersTools
  <1>5. turn \in Turns
    BY <1>3, <1>4 DEF Turns
  <1>6. Len(turns) \in Nat
    BY DEF Shape
  <1> DEFINE grown == added(totals, report, calls)
  <1>7. /\ grown = [f \in TotalFields |-> grown[f]]
        /\ grown.steps = Len(turns) + 1 /\ grown.billedSteps \in 0 .. Len(turns) + 1
        /\ grown.stepWrapUp = totals.stepWrapUp
    BY <1>6, AddedCounts DEF Types
  <1>8. totals' = IF Len(turns) >= wrapUpAt /\ totals.stepWrapUp = Absent
                  THEN [grown EXCEPT !.stepWrapUp = Len(turns)] ELSE grown
    BY <1>2
  <1>9. stepLimit \in Int
    BY LimitIsANumber DEF stepLimit
  <1> HIDE DEF grown
  <1>10. /\ totals'.steps = Len(turns) + 1 /\ totals'.billedSteps \in 0 .. Len(turns) + 1
         /\ totals' = [f \in TotalFields |-> totals'[f]]
         /\ totals'.stepWrapUp = IF Len(turns) >= wrapUpAt /\ totals.stepWrapUp = Absent
                                 THEN Len(turns) ELSE totals.stepWrapUp
    BY <1>7, <1>8 DEF TotalFields
  <1>11. pc' \in {"running", "finished"} /\ (pc' = "finished" /\ turn.finish = "tool-calls"
                                              => Len(turns) + 1 >= stepLimit)
    BY <1>2, <1>6, <1>9
  <1>12. pc = "running" /\ options' = options /\ result' = result
    BY DEF Turn
  <1>13. turn.part = "loop" /\ turn.report = report /\ turn.tools = offersTools
    OBVIOUS
  <1> HIDE DEF turn
  <1> QED
    BY <1>2, <1>3, <1>5, <1>10, <1>11, <1>12, <1>13 DEF turn

\* A turn of the loop keeps the types, and the turns in their order.
LEMMA TurnTypes ==
  ASSUME Shape, Types, Turn
  PROVE  Shape' /\ Types' /\ taken' = Len(turns) + 1
  <1>1. PICK report \in AllReports : \E turn \in Turns :
          /\ turn.part = "loop" /\ turn.report = report /\ turn.tools = offersTools
          /\ turns' = Append(turns, turn)
          /\ latched' = brake
          /\ tracker' = tracked([tracker EXCEPT !.forcedWrapUp = IF braked THEN brake ELSE @], report)
          /\ totals'.steps = Len(turns) + 1 /\ totals'.billedSteps \in 0 .. Len(turns) + 1
          /\ totals' = [f \in TotalFields |-> totals'[f]]
          /\ pc = "running" /\ pc' \in {"running", "finished"}
          /\ options' = options /\ result' = result
    BY TurnFacts
  <1>2. PICK turn \in Turns :
          /\ turn.part = "loop" /\ turn.report = report /\ turn.tools = offersTools
          /\ turns' = Append(turns, turn)
          /\ latched' = brake
          /\ tracker' = tracked([tracker EXCEPT !.forcedWrapUp = IF braked THEN brake ELSE @], report)
          /\ totals'.steps = Len(turns) + 1 /\ totals'.billedSteps \in 0 .. Len(turns) + 1
          /\ totals' = [f \in TotalFields |-> totals'[f]]
          /\ pc = "running" /\ pc' \in {"running", "finished"}
          /\ options' = options /\ result' = result
    BY <1>1
  <1>3. brake \in BOOLEAN /\ (brake => braked)
    <2>1. ASSUME braked PROVE latchedNext(Last(turns)) \in BOOLEAN
      <3> DEFINE size == safeTokenCount(Last(turns).report.input)
      <3>1. size \in Nat /\ options.budget \in Nat
        BY <2>1, BudgetIsANumber DEF safeTokenCount, isCount
      <3> HIDE DEF size
      <3>2. /\ (size * 10 >= options.budget * 7) \in BOOLEAN
            /\ (size * 10 >= options.budget * 8) \in BOOLEAN
        BY <3>1
      <3>3. \/ latchedNext(Last(turns)) = latched
            \/ latchedNext(Last(turns)) = (size * 10 >= options.budget * 7)
            \/ latchedNext(Last(turns)) = (size * 10 >= options.budget * 8)
        BY Zenon DEF latchedNext, size
      <3> QED
        BY <3>2, <3>3 DEF Types
    <2>2. latched \in BOOLEAN /\ (latched => braked)
      BY DEF Types
    <2>3. CASE braked /\ turns # <<>>
      BY <2>1, <2>3 DEF brake
    <2>4. CASE ~(braked /\ turns # <<>>)
      BY <2>2, <2>4 DEF brake
    <2> QED
      BY <2>3, <2>4
  <1>4. [tracker EXCEPT !.forcedWrapUp = IF braked THEN brake ELSE @] \in Trackers
    BY <1>3 DEF Types, Trackers
  <1>5. tracker' \in Trackers
    BY <1>2, <1>4, TrackedTypes
  <1>6. braked' = braked
    BY <1>2 DEF braked, usableBudget
  <1>7. turns \in Seq(Turns) /\ taken = Len(turns) /\ loop = 1 .. taken
    BY <1>2 DEF Shape
  <1>8. /\ turns' \in Seq(Turns) /\ Len(turns') = Len(turns) + 1 /\ turns' # <<>>
        /\ Last(turns').part = "loop"
        /\ \A i \in 1 .. Len(turns) : turns'[i] = turns[i]
        /\ turns'[Len(turns) + 1] = turn
    BY <1>2, <1>7 DEF Last
  <1>9. taken' = Len(turns) + 1
    BY <1>8 DEF taken
  <1>10. loop' = 1 .. Len(turns) + 1
    <2>1. \A i \in 1 .. Len(turns) + 1 : turns'[i].part = "loop"
      BY <1>2, <1>7, <1>8 DEF loop
    <2>2. DOMAIN turns' = 1 .. Len(turns) + 1
      BY <1>8
    <2> QED
      BY <2>1, <2>2 DEF loop
  <1>11. Shape'
    BY <1>2, <1>7, <1>8, <1>9, <1>10 DEF Shape
  <1>12. Types'
    BY <1>2, <1>3, <1>5, <1>6, <1>8 DEF Types
  <1> QED
    BY <1>9, <1>11, <1>12

\* A repair adds a turn that is none of the loop's.
LEMMA RepairTypes ==
  ASSUME Shape, Types, Repairs
  PROVE  /\ Shape' /\ Types' /\ taken' = taken /\ taken = Len(turns)
         /\ \E turn \in Turns : turn.part = "repair" /\ turns' = Append(turns, turn)
         /\ tracker' = tracker /\ latched' = latched /\ options' = options /\ pc' = "repairing"
         /\ totals'.stepWrapUp = totals.stepWrapUp
  <1>1. /\ pc = "finished" /\ pc' = "repairing" /\ options' = options /\ latched' = latched
        /\ result' = result
    BY DEF Repairs
  <1>2. PICK report \in Reports[options.shape] :
          /\ totals' = added(totals, report, 0)
          /\ turns' = Append(turns, [part |-> "repair", report |-> report,
                                     tools |-> FALSE, finish |-> "stop"])
          /\ tracker' = repairTracker(report)
    BY DEF Repairs
  <1> DEFINE turn == [part |-> "repair", report |-> report, tools |-> FALSE, finish |-> "stop"]
  <1>3. turn \in Turns /\ turn.part = "repair"
    BY <1>2 DEF Turns, AllReports, Shape
  <1>4. turns \in Seq(Turns) /\ taken = Len(turns) /\ loop = 1 .. taken /\ turns # <<>>
    BY <1>1 DEF Shape
  <1> HIDE DEF turn
  <1>5. turns' = Append(turns, turn)
    BY <1>2 DEF turn
  <1>6. /\ turns' \in Seq(Turns) /\ Len(turns') = Len(turns) + 1 /\ turns' # <<>>
        /\ Last(turns').part = "repair"
        /\ \A i \in 1 .. Len(turns) : turns'[i] = turns[i]
        /\ turns'[Len(turns) + 1] = turn
    BY <1>3, <1>4, <1>5 DEF Last
  <1>7. taken' = Len(turns)
    BY <1>4, <1>6 DEF taken
  <1>8. loop' = 1 .. Len(turns)
    <2>1. \A i \in 1 .. Len(turns) : turns'[i].part = "loop"
      BY <1>4, <1>6 DEF loop
    <2>2. DOMAIN turns' = 1 .. Len(turns) + 1
      BY <1>6
    <2> QED
      BY <1>3, <1>4, <1>6, <2>1, <2>2 DEF loop
  <1>9. Shape'
    BY <1>1, <1>4, <1>6, <1>7, <1>8 DEF Shape
  <1>10. /\ totals'.steps = Len(turns) + 1 /\ totals'.billedSteps \in 0 .. Len(turns) + 1
         /\ totals' = [f \in TotalFields |-> totals'[f]]
         /\ totals'.stepWrapUp = totals.stepWrapUp
    BY <1>2, <1>4, AddedCounts DEF Types
  <1>11. tracker' = tracker /\ braked' = braked
    BY <1>1, <1>2 DEF repairTracker, braked, usableBudget
  <1>12. Types'
    BY <1>1, <1>6, <1>10, <1>11 DEF Types
  <1> QED
    BY <1>1, <1>3, <1>4, <1>5, <1>7, <1>9, <1>10, <1>11, <1>12

\* The end of a call leaves its turns, and what they left, as they were.
LEMMA ReturnTypes ==
  ASSUME Shape, Types, Answers \/ FallsBack \/ RepairReturns \/ UNCHANGED vars
  PROVE  /\ Shape' /\ Types'
         /\ options' = options /\ turns' = turns /\ latched' = latched /\ tracker' = tracker
         /\ totals' = totals
         /\ pc' = "returned" \/ pc' = pc
  <1>1. /\ options' = options /\ turns' = turns /\ latched' = latched /\ tracker' = tracker
        /\ totals' = totals
        /\ (pc' = "returned" /\ pc # "running") \/ (pc' = pc /\ result' = result)
    BY DEF Answers, FallsBack, RepairReturns, vars
  <1>2. loop' = loop /\ taken' = taken /\ braked' = braked
    BY <1>1 DEF loop, taken, braked, usableBudget
  <1>3. Shape'
    BY <1>1, <1>2 DEF Shape
  <1>4. Types'
    BY <1>1, <1>2 DEF Types
  <1> QED
    BY <1>1, <1>3, <1>4

LEMMA InitTypes ==
  ASSUME Init
  PROVE  Shape /\ Types
  <1>1. /\ pc = "running" /\ turns = <<>> /\ latched = FALSE /\ totals = noTotals
        /\ result = Absent
    BY DEF Init
  <1>2. options.shape \in DOMAIN Reports /\ options.structured \in BOOLEAN
    BY DEF Init
  <1>3. tracker \in Trackers
    <2>1. noTracker \in Trackers
      BY DEF noTracker, Trackers
    <2>2. \E inert \in BOOLEAN : tracker = [noTracker EXCEPT !.brakeInert = inert]
      BY DEF Init
    <2> QED
      BY <2>1, <2>2 DEF Trackers
  <1>4. turns \in Seq(Turns) /\ Len(turns) = 0 /\ taken = 0 /\ loop = 1 .. 0
    BY <1>1 DEF taken, loop
  <1>5. Shape
    BY <1>1, <1>2, <1>4 DEF Shape
  <1>6. Types
    <2>1. totals = [f \in TotalFields |-> totals[f]]
      BY <1>1 DEF noTotals, TotalFields
    <2>2. totals.steps = 0 /\ totals.billedSteps = 0
      BY <1>1 DEF noTotals
    <2>3. totals.steps = Len(turns) /\ totals.billedSteps \in 0 .. Len(turns)
      BY <1>4, <2>2
    <2> QED
      BY <1>1, <1>3, <2>1, <2>3 DEF Types
  <1> QED
    BY <1>5, <1>6

-----------------------------------------------------------------------------
(* What the brakes and the markers are, where each count is a number. *)

shrank(n, i, j) ==
    /\ i < j /\ \A k \in counted(n) : ~(i < k /\ k < j)
    /\ count(j) > 0 /\ (count(i) - count(j)) * 20 > count(i)

\* The latch and the marker follow what was measured before the last turn.
BrakesStand ==
    /\ turns = <<>> => ~latched /\ ~tracker.forcedWrapUp
    /\ pc = "running" /\ turns # <<>> => (latched <=> engaged(Len(turns) - 1))
    /\ turns # <<>> => (tracker.forcedWrapUp <=> engaged(taken - 1))
    /\ totals.stepWrapUp # Absent <=> taken > wrapUpAt

\* The window is the last one measured.
WindowIsLast ==
    \/ counted(taken) = {} /\ tracker.window = 0
    \/ \E m \in counted(taken) : /\ tracker.window = count(m)
                                 /\ \A k \in counted(taken) : k <= m
EvictionIsSeen == tracker.evicted <=> \E i, j \in counted(taken) : shrank(taken, i, j)

Measured ==
    /\ BrakesStand /\ WindowIsLast /\ EvictionIsSeen
    /\ BrakesFollowTheWindow /\ AnswerTurnIsLeft

\* A turn that was counted reported a number.
LEMMA CountedAreNumbers ==
  ASSUME CountsAreNumbers, turns \in Seq(Turns), NEW n \in 0 .. Len(turns), NEW i \in counted(n)
  PROVE  count(i) \in Nat /\ i \in 1 .. n
  <1>1. i \in 1 .. n /\ i \in 1 .. Len(turns) /\ count(i) # Absent
    BY DEF counted, count
  <1>2. turns[i] \in Turns
    BY <1>1
  <1> QED
    BY <1>1, <1>2 DEF CountsAreNumbers, Turns, count

\* The limits read the options and nothing else.
LEMMA LimitIsKept ==
  ASSUME options' = options
  PROVE  wrapUpAt' = wrapUpAt /\ maxSteps' = maxSteps /\ braked' = braked
  BY DEF wrapUpAt, maxSteps, braked, usableBudget, orElse

\* A turn after n others reaches a tracker that held what t does.
takesTurn(n, turn, t) ==
    /\ n \in Nat /\ Len(turns) = n /\ taken = n /\ taken' = n + 1 /\ options' = options
    /\ turn \in Turns /\ turns' = Append(turns, turn)
    /\ t \in Trackers /\ t.window = tracker.window /\ t.evicted = tracker.evicted
    /\ tracker' = tracked(t, turn.report)

\* A turn more and the tracker still tells what was measured.
LEMMA TurnIsMeasured ==
  ASSUME CountsAreNumbers, Shape, WindowIsLast, EvictionIsSeen, tracker \in Trackers,
         NEW n, NEW turn, NEW t, takesTurn(n, turn, t)
  PROVE  WindowIsLast' /\ EvictionIsSeen'
  <1> /\ n \in Nat /\ Len(turns) = n /\ taken = n /\ taken' = n + 1 /\ options' = options
      /\ turn \in Turns /\ turns' = Append(turns, turn)
      /\ t \in Trackers /\ t.window = tracker.window /\ t.evicted = tracker.evicted
      /\ tracker' = tracked(t, turn.report)
    BY DEF takesTurn
  <1> DEFINE input == turn.report.input
  <1>1. turns \in Seq(Turns)
    BY DEF Shape
  <1>2. turn.report \in AllReports /\ input \in Nat \cup {Absent}
    BY DEF Turns, CountsAreNumbers
  <1>3. /\ counted(n)' = counted(n)
        /\ \A i \in 1 .. n : turns'[i] = turns[i] /\ count(i)' = count(i)
    BY <1>1, PastIsKept
  <1>4. turns'[n + 1] = turn /\ Len(turns') = n + 1
    BY <1>1
  <1>5. counted(n) \subseteq 1 .. n /\ \A i \in counted(n) : count(i) \in Nat
    BY <1>1, CountedAreNumbers
  <1>6. CASE input = Absent
    <2>1. counted(n + 1)' = counted(n)
      BY <1>1, <1>3, <1>4, <1>6 DEF counted
    <2>2. tracker' = t
      BY <1>2, <1>6, TrackedTypes
    <2> HIDE DEF input
    <2>3. counted(taken)' = counted(n) /\ counted(taken) = counted(n)
      BY <2>1
    <2>4. \A i \in counted(n) : count(i)' = count(i)
      BY <1>3, <1>5
    <2>5. WindowIsLast'
      BY <2>2, <2>3, <2>4 DEF WindowIsLast
    <2>6. \A i, j \in counted(n) : shrank(taken, i, j)' <=> shrank(taken, i, j)
      BY <2>3, <2>4 DEF shrank
    <2> QED
      BY <2>2, <2>3, <2>5, <2>6 DEF EvictionIsSeen
  <1>7. CASE input # Absent
    <2>1. input \in Nat
      BY <1>2, <1>7
    <2>2. counted(n + 1)' = counted(n) \cup {n + 1}
      BY <1>1, <1>3, <1>4, <1>7 DEF counted
    <2>3. tracker'.window = input /\ tracker'.evicted = (tracker.evicted \/ evicts(tracker.window, input))
      BY <1>2, <2>1, TrackedTypes
    <2>4. count(n + 1)' = input
      BY <1>4 DEF count
    <2>5. n \in Nat /\ taken' = n + 1 /\ taken = n
      OBVIOUS
    <2> HIDE DEF input
    <2>6. counted(taken)' = counted(n) \cup {n + 1} /\ counted(taken) = counted(n)
      BY <2>2, <2>5
    <2>7. \A i \in counted(n) : count(i)' = count(i) /\ i < n + 1 /\ i \in Nat
      BY <1>3, <1>5, <2>5
    <2>8. WindowIsLast'
      BY <2>3, <2>4, <2>5, <2>6, <2>7 DEF WindowIsLast
    <2>9. \A i, j \in counted(n) : shrank(taken, i, j)' <=> shrank(taken, i, j)
      BY <2>5, <2>6, <2>7 DEF shrank
    <2>10. \A j \in counted(taken)' : ~shrank(taken, n + 1, j)'
      BY <2>5, <2>6, <2>7 DEF shrank
    <2>11. evicts(tracker.window, input) <=> \E i \in counted(n) : shrank(taken, i, n + 1)'
      <3>1. CASE counted(n) = {} /\ tracker.window = 0
        BY <3>1 DEF evicts
      <3>2. CASE counted(n) # {}
        <4>1. PICK m \in counted(n) :
                tracker.window = count(m) /\ \A k \in counted(n) : k <= m
          BY <2>5, <3>2 DEF WindowIsLast
        <4>2. \A i \in counted(n) : shrank(taken, i, n + 1)' => i = m
          <5> SUFFICES ASSUME NEW i \in counted(n), shrank(taken, i, n + 1)'  PROVE i = m
            OBVIOUS
          <5>1. ~(i < m /\ m < n + 1)
            BY <2>6, <4>1 DEF shrank
          <5> QED
            BY <2>5, <2>7, <4>1, <5>1
        <4>3. shrank(taken, m, n + 1)' <=> input > 0 /\ (count(m) - input) * 20 > count(m)
          <5>1. \A k \in counted(taken)' : ~(m < k /\ k < n + 1)
            BY <2>5, <2>6, <2>7, <4>1
          <5>2. m < n + 1 /\ count(m)' = count(m)
            BY <2>7
          <5> QED
            BY <2>4, <5>1, <5>2 DEF shrank
        <4>4. count(m) \in Nat
          BY <1>5
        <4>5. evicts(tracker.window, input) <=> input > 0 /\ (count(m) - input) * 20 > count(m)
          BY <2>1, <4>1, <4>4 DEF evicts
        <4> QED
          BY <4>2, <4>3, <4>5
      <3> QED
        BY <2>5, <3>1, <3>2 DEF WindowIsLast
    <2>12. (\E i, j \in counted(taken)' : shrank(taken, i, j)') <=>
             \/ \E i, j \in counted(n) : shrank(taken, i, j)
             \/ \E i \in counted(n) : shrank(taken, i, n + 1)'
      BY <2>6, <2>9, <2>10
    <2>13. tracker'.evicted <=> tracker.evicted \/ evicts(tracker.window, input)
      BY <2>3
    <2>14. EvictionIsSeen'
      BY <2>5, <2>11, <2>12, <2>13 DEF EvictionIsSeen
    <2> QED
      BY <2>8, <2>14
  <1> QED
    BY <1>6, <1>7

-----------------------------------------------------------------------------
(* The steps, where each count is a number. *)

LEMMA TurnKeeps ==
  ASSUME CountsAreNumbers, Shape, Types, Measured, Turn
  PROVE  Measured'
  <1>1. PICK report \in AllReports : \E turn \in Turns :
          /\ turn.part = "loop" /\ turn.report = report /\ turn.tools = offersTools
          /\ turns' = Append(turns, turn)
          /\ latched' = brake
          /\ tracker' = tracked([tracker EXCEPT !.forcedWrapUp = IF braked THEN brake ELSE @], report)
          /\ totals'.stepWrapUp = IF Len(turns) >= wrapUpAt /\ totals.stepWrapUp = Absent
                                  THEN Len(turns) ELSE totals.stepWrapUp
          /\ pc = "running"
          /\ pc' = "finished" /\ turn.finish = "tool-calls" => Len(turns) + 1 >= stepLimit
          /\ options' = options
    BY TurnFacts
  <1>2. PICK turn \in Turns :
          /\ turn.part = "loop" /\ turn.report = report /\ turn.tools = offersTools
          /\ turns' = Append(turns, turn)
          /\ latched' = brake
          /\ tracker' = tracked([tracker EXCEPT !.forcedWrapUp = IF braked THEN brake ELSE @], report)
          /\ totals'.stepWrapUp = IF Len(turns) >= wrapUpAt /\ totals.stepWrapUp = Absent
                                  THEN Len(turns) ELSE totals.stepWrapUp
          /\ pc = "running"
          /\ pc' = "finished" /\ turn.finish = "tool-calls" => Len(turns) + 1 >= stepLimit
          /\ options' = options
    BY <1>1
  <1>3. turns \in Seq(Turns) /\ taken = Len(turns) /\ loop = 1 .. taken
    BY <1>2 DEF Shape
  <1>4. PICK n \in Nat : n = Len(turns)
    BY <1>3
  <1>5. Shape' /\ taken' = n + 1
    BY <1>4, TurnTypes
  <1>6. /\ turns' \in Seq(Turns) /\ Len(turns') = n + 1 /\ turns' # <<>>
        /\ turns'[n + 1] = turn /\ \A i \in 1 .. n : turns'[i] = turns[i]
    BY <1>2, <1>3, <1>4
  <1>7. loop' = 1 .. n + 1
    BY <1>5 DEF Shape
  <1>8. wrapUpAt' = wrapUpAt /\ maxSteps' = maxSteps /\ braked' = braked
    BY <1>2, LimitIsKept
  <1>9. wrapUpAt \in Nat \ {0} /\ maxSteps \in Nat \ {0}
    BY LimitIsANumber
  <1>10. brake <=> engaged(n)
    <2>1. CASE turns = <<>>
      <3>1. n = 0 /\ counted(n) = {}
        BY <1>3, <1>4, <2>1 DEF counted
      <3>2. ~engaged(n)
        BY <3>1 DEF engaged
      <3>3. ~brake
        BY <2>1 DEF brake, Measured, BrakesStand
      <3> QED
        BY <3>2, <3>3
    <2>2. CASE turns # <<>>
      <3>1. latched \in BOOLEAN /\ (latched <=> engaged(Len(turns) - 1))
        BY <1>2, <2>2 DEF Measured, BrakesStand, Types
      <3>2. brake <=> engaged(Len(turns))
        BY <1>3, <2>2, <3>1, BrakeIsTheLatch
      <3> QED
        BY <1>4, <3>2
    <2> QED
      BY <2>1, <2>2
  <1>11. \A k \in 0 .. n : engaged(k)' <=> engaged(k)
    BY <1>2, <1>3, <1>4, PastIsKept
  <1> DEFINE before == [tracker EXCEPT !.forcedWrapUp = IF braked THEN brake ELSE @]
  <1>12. /\ before \in Trackers /\ before.window = tracker.window /\ before.evicted = tracker.evicted
         /\ before.forcedWrapUp = IF braked THEN brake ELSE tracker.forcedWrapUp
    <2>1. brake \in BOOLEAN
      BY TurnTypes, <1>2 DEF Types
    <2> QED
      BY <2>1 DEF Types, Trackers
  <1>13. tracker' = tracked(before, turn.report)
    BY <1>2
  <1>14. WindowIsLast' /\ EvictionIsSeen'
    <2> HIDE DEF before
    <2>1. WindowIsLast /\ EvictionIsSeen /\ tracker \in Trackers
      BY DEF Measured, Types
    <2>2. Len(turns) = n /\ taken = n /\ taken' = n + 1
      BY <1>3, <1>4, <1>5
    <2>3. takesTurn(n, turn, before)
      BY <1>2, <1>12, <1>13, <2>2, Zenon DEF takesTurn
    <2> QED
      BY <2>1, <2>3, TurnIsMeasured, Zenon
  <1>15. tracker'.forcedWrapUp <=> engaged(n)
    <2>1. tracker'.forcedWrapUp = before.forcedWrapUp
      <3> HIDE DEF before
      <3>1. before \in Trackers /\ turn.report \in AllReports
        BY <1>12 DEF Turns
      <3>2. tracked(before, turn.report).forcedWrapUp = before.forcedWrapUp
        BY <3>1, TrackedTypes
      <3> QED
        BY <1>13, <3>2
    <2>2. CASE braked
      BY <1>10, <1>12, <2>1, <2>2
    <2>3. CASE ~braked
      <3>1. \A k \in Nat : ~engaged(k)
        BY <2>3 DEF engaged
      <3>2. ~tracker.forcedWrapUp
        <4>1. CASE turns = <<>>
          BY <4>1 DEF Measured, BrakesStand
        <4>2. CASE turns # <<>>
          <5>1. ~engaged(taken - 1)
            BY <2>3 DEF engaged
          <5> QED
            BY <4>2, <5>1 DEF Measured, BrakesStand
        <4> QED
          BY <4>1, <4>2
      <3> QED
        BY <1>12, <2>1, <2>3, <3>1, <3>2
    <2> QED
      BY <2>2, <2>3
  <1>16. totals'.stepWrapUp # Absent <=> n + 1 > wrapUpAt
    <2>1. totals.stepWrapUp # Absent <=> n > wrapUpAt
      BY <1>3, <1>4 DEF Measured, BrakesStand
    <2>2. n # Absent
      BY BoundsAssumption
    <2> QED
      BY <1>2, <1>4, <1>9, <2>1, <2>2
  <1>17. BrakesStand'
    <2>1. pc' = "running" /\ turns' # <<>> => (latched' <=> engaged(Len(turns) - 1)')
      <3>1. latched' <=> engaged(n)'
        BY <1>2, <1>10, <1>11
      <3>2. Len(turns') - 1 = n
        BY <1>6
      <3> QED
        BY <3>1, <3>2
    <2>2. tracker'.forcedWrapUp <=> engaged(taken - 1)'
      <3>1. tracker'.forcedWrapUp <=> engaged(n)'
        BY <1>11, <1>15
      <3>2. taken' - 1 = n
        BY <1>5
      <3> QED
        BY <3>1, <3>2
    <2> QED
      BY <1>5, <1>6, <1>8, <1>16, <2>1, <2>2 DEF BrakesStand
  <1>18. BrakesFollowTheWindow'
    <2>1. turn.tools <=> ~engaged(n) /\ n + 1 <= wrapUpAt
      <3>1. n < wrapUpAt <=> n + 1 <= wrapUpAt
        BY <1>9
      <3>2. offersTools <=> ~brake /\ n < wrapUpAt
        BY <1>4, Zenon DEF offersTools
      <3> QED
        BY <1>2, <1>10, <3>1, <3>2
    <2>2. \A i \in 1 .. n : turns[i].tools <=> ~engaged(i - 1) /\ i <= wrapUpAt
      BY <1>3, <1>4 DEF Measured, BrakesFollowTheWindow
    <2>3. \A i \in 1 .. n + 1 : turns'[i].tools <=> ~engaged(i - 1)' /\ i <= wrapUpAt
      <3> SUFFICES ASSUME NEW i \in 1 .. n + 1
                   PROVE  turns'[i].tools <=> ~engaged(i - 1)' /\ i <= wrapUpAt
        OBVIOUS
      <3>1. engaged(i - 1)' <=> engaged(i - 1)
        BY <1>11
      <3>2. CASE i \in 1 .. n
        BY <1>6, <2>2, <3>1, <3>2
      <3>3. CASE i = n + 1
        <4>1. i - 1 = n
          BY <3>3
        <4> QED
          BY <1>6, <2>1, <3>1, <3>3, <4>1
      <3> QED
        BY <3>2, <3>3
    <2> QED
      BY <1>7, <1>8, <2>3 DEF BrakesFollowTheWindow
  <1>19. AnswerTurnIsLeft'
    <2> SUFFICES ASSUME pc' = "finished", turn.finish = "tool-calls", maxSteps > 1
                 PROVE  ~turn.tools
      <3>1. Last(turns') = turn /\ n + 1 \in loop'
        BY <1>6, <1>7 DEF Last
      <3> QED
        BY <1>6, <1>8, <3>1 DEF AnswerTurnIsLeft
    <2>1. stepLimit \in {maxSteps, maxSteps + 2}
      BY <1>9 DEF stepLimit
    <2>2. n + 1 >= stepLimit
      BY <1>2, <1>4
    <2>3. wrapUpAt < maxSteps
      BY LimitIsANumber
    <2>4. ~(n < wrapUpAt)
      BY <1>9, <2>1, <2>2, <2>3
    <2> QED
      BY <1>2, <1>4, <2>4 DEF offersTools
  <1> QED
    BY <1>14, <1>17, <1>18, <1>19 DEF Measured

LEMMA RepairKeeps ==
  ASSUME CountsAreNumbers, Shape, Types, Measured, Repairs
  PROVE  Measured'
  <1>1. /\ Shape' /\ taken' = taken /\ taken = Len(turns)
        /\ tracker' = tracker /\ latched' = latched /\ options' = options /\ pc' = "repairing"
        /\ totals'.stepWrapUp = totals.stepWrapUp
    BY RepairTypes
  <1>2. PICK turn \in Turns : turn.part = "repair" /\ turns' = Append(turns, turn)
    BY RepairTypes
  <1>3. turns \in Seq(Turns) /\ loop = 1 .. taken /\ turns # <<>>
    BY DEF Shape, Repairs
  <1>4. PICK n \in Nat : n = Len(turns)
    BY <1>3
  <1>5. loop' = loop /\ loop = 1 .. n /\ n > 0
    BY <1>1, <1>3, <1>4 DEF Shape
  <1>6. turns' # <<>> /\ \A i \in 1 .. n : turns'[i] = turns[i] /\ count(i)' = count(i)
    BY <1>1, <1>2, <1>3, <1>4, PastIsKept
  <1>7. counted(n)' = counted(n) /\ \A k \in 0 .. n : engaged(k)' <=> engaged(k)
    BY <1>1, <1>2, <1>3, <1>4, PastIsKept
  <1>8. wrapUpAt' = wrapUpAt /\ maxSteps' = maxSteps
    BY <1>1, LimitIsKept
  <1>9. counted(n) \subseteq 1 .. n /\ \A i \in counted(n) : count(i)' = count(i)
    BY <1>6 DEF counted
  <1>10. counted(taken)' = counted(n) /\ counted(taken) = counted(n) /\ taken' = n /\ taken = n
    BY <1>1, <1>4, <1>7
  <1>11. WindowIsLast'
    BY <1>1, <1>9, <1>10 DEF Measured, WindowIsLast
  <1>12. EvictionIsSeen'
    <2>1. \A i, j \in counted(n) : shrank(taken, i, j)' <=> shrank(taken, i, j)
      BY <1>9, <1>10 DEF shrank
    <2> QED
      BY <1>1, <1>10, <2>1 DEF Measured, EvictionIsSeen
  <1>13. BrakesStand'
    <2>1. engaged(taken - 1)' <=> engaged(taken - 1)
      <3>1. PICK k \in 0 .. n : k = n - 1
        BY <1>5
      <3>2. taken' - 1 = k /\ taken - 1 = k
        BY <1>10, <3>1
      <3>3. engaged(k)' <=> engaged(k)
        BY <1>7
      <3> QED
        BY <3>2, <3>3
    <2> QED
      BY <1>1, <1>3, <1>6, <1>8, <2>1 DEF Measured, BrakesStand
  <1>14. BrakesFollowTheWindow'
    <2>1. \A i \in loop : engaged(i - 1)' <=> engaged(i - 1)
      BY <1>5, <1>7
    <2> QED
      BY <1>5, <1>6, <1>8, <2>1 DEF Measured, BrakesFollowTheWindow
  <1>15. AnswerTurnIsLeft'
    BY <1>1 DEF AnswerTurnIsLeft
  <1> QED
    BY <1>11, <1>12, <1>13, <1>14, <1>15 DEF Measured

LEMMA ReturnKeeps ==
  ASSUME Shape, Types, Measured, Answers \/ FallsBack \/ RepairReturns \/ UNCHANGED vars
  PROVE  Measured'
  <1>1. /\ options' = options /\ turns' = turns /\ latched' = latched /\ tracker' = tracker
        /\ totals' = totals
        /\ pc' = "returned" \/ pc' = pc
    BY ReturnTypes
  <1>2. /\ loop' = loop /\ taken' = taken /\ wrapUpAt' = wrapUpAt /\ maxSteps' = maxSteps
        /\ braked' = braked
    BY <1>1, LimitIsKept DEF loop, taken
  <1>3. \A n : counted(n)' = counted(n) /\ count(n)' = count(n) /\ (engaged(n)' <=> engaged(n))
    BY <1>1, <1>2 DEF counted, count, engaged
  <1>4. \A n, i, j : shrank(n, i, j)' <=> shrank(n, i, j)
    BY <1>3 DEF shrank
  <1>5. BrakesStand'
    <2>1. engaged(taken - 1)' <=> engaged(taken - 1)
      BY <1>1, <1>2, <1>3 DEF engaged, counted, count
    <2>2. engaged(Len(turns) - 1)' <=> engaged(Len(turns) - 1)
      BY <1>1, <1>2, <1>3 DEF engaged, counted, count
    <2> QED
      BY <1>1, <1>2, <2>1, <2>2 DEF Measured, BrakesStand
  <1>6. counted(taken)' = counted(taken)
    BY <1>1, <1>2 DEF counted
  <1>7. WindowIsLast'
    BY <1>1, <1>3, <1>6 DEF Measured, WindowIsLast
  <1>8. EvictionIsSeen'
    <2>1. \A i, j : shrank(taken, i, j)' <=> shrank(taken, i, j)
      BY <1>2, <1>3, <1>6 DEF shrank
    <2> QED
      BY <1>1, <1>6, <2>1 DEF Measured, EvictionIsSeen
  <1>9. BrakesFollowTheWindow'
    BY <1>1, <1>2, <1>3 DEF Measured, BrakesFollowTheWindow
  <1>10. AnswerTurnIsLeft'
    BY <1>1, <1>2 DEF Measured, AnswerTurnIsLeft
  <1> QED
    BY <1>5, <1>7, <1>8, <1>9, <1>10 DEF Measured

LEMMA InitIsMeasured ==
  ASSUME Init
  PROVE  Measured
  <1>1. /\ pc = "running" /\ turns = <<>> /\ latched = FALSE /\ totals = noTotals
    BY DEF Init
  <1>2. tracker.window = 0 /\ tracker.evicted = FALSE /\ tracker.forcedWrapUp = FALSE
    BY DEF Init, noTracker
  <1>3. taken = 0 /\ loop = {} /\ counted(taken) = {}
    BY <1>1 DEF taken, loop, counted
  <1>4. BrakesStand
    BY <1>1, <1>2, <1>3, LimitIsANumber DEF BrakesStand, noTotals
  <1> QED
    BY <1>1, <1>2, <1>3, <1>4
       DEF Measured, WindowIsLast, EvictionIsSeen, BrakesFollowTheWindow, AnswerTurnIsLeft

-----------------------------------------------------------------------------
(* The results. *)

LEMMA TypesHold == Spec => [](Shape /\ Types)
  <1>1. Init => Shape /\ Types
    BY InitTypes
  <1>2. Shape /\ Types /\ [Next]_vars => (Shape /\ Types)'
    BY TurnTypes, RepairTypes, ReturnTypes DEF Next
  <1> QED
    BY <1>1, <1>2, PTL DEF Spec

\* Whatever a provider reports, an operator sets and a model does: the latch needs
\* a budget, the tracker stays a tracker and the totals count every turn.
THEOREM TypeCorrect == Spec => []TypeOK
  <1>1. Shape /\ Types => TypeOK
    BY DEF Types, TypeOK, Trackers
  <1> QED
    BY <1>1, TypesHold, PTL

LEMMA MeasuredHolds ==
  ASSUME CountsAreNumbers
  PROVE  Spec => [](Shape /\ Measured)
  <1>1. Init => Measured
    BY InitIsMeasured
  <1>2. Shape /\ Types /\ Measured /\ [Next]_vars => Measured'
    BY TurnKeeps, RepairKeeps, ReturnKeeps DEF Next
  <1> QED
    BY <1>1, <1>2, TypesHold, PTL DEF Spec

\* For every budget, step limit and number of turns: where each count is a number,
\* a turn has tools unless the window holds the budget brake or the limit is near,
\* and a run cut in a tool call was asked for its answer (buildBudgetPrepareStep,
\* prepareStep, STEP_WRAP_UP_FRACTION).
THEOREM BrakesHold ==
  ASSUME CountsAreNumbers
  PROVE  Spec => []BrakesAreSound
  <1>1. Measured => BrakesAreSound
    BY DEF Measured, BrakesAreSound
  <1> QED
    BY <1>1, MeasuredHolds, PTL

\* And its markers say what its turns show: the brake on its last turn, a shrunken
\* window, a turn past the step wrap-up (TokenBudgetTracker, StepTotals).
THEOREM MarkersTold ==
  ASSUME CountsAreNumbers
  PROVE  Spec => []MarkersTellTheRun
  <1>1. Shape /\ Measured => MarkersTellTheRun
    <2> SUFFICES ASSUME Shape, Measured, turns # <<>>
                 PROVE  /\ tracker.forcedWrapUp <=> engaged(taken - 1)
                        /\ tracker.evicted <=> \E i, j \in counted(taken) : shrank(taken, i, j)
                        /\ totals.stepWrapUp # Absent <=> taken > wrapUpAt
      <3>1. ASSUME Shape, turns # <<>> PROVE Max(loop) = taken
        <4>1. taken \in Nat \ {0}
          <5>1. Len(turns) \in Nat /\ taken >= 1
            BY <3>1 DEF Shape
          <5>2. taken = Len(turns) - 1 \/ taken = Len(turns)
            BY DEF taken
          <5> QED
            BY <5>1, <5>2
        <4> QED
          BY <3>1, <4>1, MaxOfRange DEF Shape
      <3> QED
        BY <3>1 DEF MarkersTellTheRun, shrank
    <2> QED
      BY DEF Measured, BrakesStand, EvictionIsSeen
  <1> QED
    BY <1>1, MeasuredHolds, PTL

-----------------------------------------------------------------------------
(* Totals of numbers. *)

\* Induction: a set of numbers with 0 and the successors of its elements is
\* all of them.
LEMMA Induction ==
  ASSUME NEW S \in SUBSET Nat, 0 \in S, \A n \in S : n + 1 \in S
  PROVE  S = Nat
  <1> DEFINE R == {ss \in Nat \X Nat : ss[1] < ss[2]}
  <1> SUFFICES ASSUME Nat \ S # {} PROVE FALSE
    OBVIOUS
  <1>1. IsWellFoundedOn(R, Nat)
    BY NatLessThanWellFounded DEF OpToRel
  <1>2. \A x, y \in Nat : <<y, x>> \in R <=> y < x
    OBVIOUS
  <1> HIDE DEF R
  <1>3. PICK m \in Nat \ S : \A n \in Nat \ S : ~(<<n, m>> \in R)
    BY <1>1, WFMin
  <1>4. \A n \in Nat \ S : ~(n < m)
    BY <1>2, <1>3
  <1>5. m # 0 /\ m - 1 \in Nat /\ m - 1 < m
    BY <1>3
  <1>6. m - 1 \in S
    BY <1>4, <1>5
  <1>7. (m - 1) + 1 = m
    BY <1>3
  <1> QED
    BY <1>3, <1>6, <1>7

\* A total is the last of its partial sums.
LEMMA TotalUnfolds ==
  ASSUME NEW w \in Seq(Nat)
  PROVE  \E f \in [0..Len(w) -> Nat] :
            /\ f[0] = 0
            /\ \A n \in 1..Len(w) : f[n] = f[n - 1] + w[n]
            /\ total(w) = f[Len(w)]
  <1> DEFINE P(f, n) == f = [k \in 0..n |-> IF k = 0 THEN 0 ELSE plus(f[k - 1], w[k])]
  <1> DEFINE Q(n) == \E f \in [0..n -> Nat] : P(f, n)
  <1> DEFINE S == {n \in Nat : n <= Len(w) => Q(n)}
  <1>1. Len(w) \in Nat
    OBVIOUS
  <1>2. S = Nat
    <2>1. 0 \in S
      <3>1. P([k \in 0..0 |-> 0], 0)
        OBVIOUS
      <3>2. [k \in 0..0 |-> 0] \in [0..0 -> Nat]
        OBVIOUS
      <3> QED
        BY <3>1, <3>2
    <2>2. ASSUME NEW n \in S PROVE n + 1 \in S
      <3>1. n \in Nat
        OBVIOUS
      <3> HIDE DEF Q
      <3> SUFFICES ASSUME n + 1 <= Len(w) PROVE Q(n + 1)
        BY <3>1
      <3>2. Q(n)
        BY <1>1, <3>1
      <3> USE DEF Q
      <3>3. PICK f \in [0..n -> Nat] : P(f, n)
        BY <3>2
      <3> DEFINE g == [k \in 0..(n + 1) |-> IF k = n + 1 THEN f[n] + w[n + 1] ELSE f[k]]
      <3>4. w[n + 1] \in Nat /\ f[n] \in Nat
        BY <1>1, <3>1
      <3>5. g \in [0..(n + 1) -> Nat]
        BY <3>1, <3>4
      <3>6. \A k \in 0..n : f[k] = IF k = 0 THEN 0 ELSE plus(f[k - 1], w[k])
        BY <3>3
      <3>7. \A k \in 0..(n + 1) : g[k] = IF k = 0 THEN 0 ELSE plus(g[k - 1], w[k])
        <4> TAKE k \in 0..(n + 1)
        <4>1. CASE k = n + 1
          <5>1. g[k] = f[n] + w[n + 1] /\ g[k - 1] = f[n] /\ k # 0
            BY <4>1, <3>1
          <5>2. plus(f[n], w[n + 1]) = f[n] + w[n + 1]
            BY <3>4 DEF plus, isCount
          <5> QED
            BY <4>1, <5>1, <5>2
        <4>2. CASE k # n + 1
          <5>1. k \in 0..n /\ g[k] = f[k]
            BY <4>2, <3>1
          <5>2. CASE k = 0
            BY <5>1, <5>2, <3>6
          <5>3. CASE k # 0
            <6>1. k - 1 \in 0..n /\ g[k - 1] = f[k - 1]
              BY <5>1, <5>3, <3>1
            <6> QED
              BY <5>1, <5>3, <6>1, <3>6
          <5> QED
            BY <5>2, <5>3
        <4> QED
          BY <4>1, <4>2
      <3> HIDE DEF g
      <3>8. P(g, n + 1)
        BY <3>5, <3>7
      <3> QED
        BY <3>5, <3>8
    <2>3. S \in SUBSET Nat
      OBVIOUS
    <2> HIDE DEF S
    <2> QED
      BY <2>1, <2>2, <2>3, Induction
  <1>3. PICK f \in [0..Len(w) -> Nat] : P(f, Len(w))
    <2>1. Len(w) \in S
      BY <1>1, <1>2
    <2> QED
      BY <2>1
  <1> DEFINE g == CHOOSE f1 : P(f1, Len(w))
  <1>4. P(g, Len(w))
    BY <1>3
  <1>5. total(w) = g[Len(w)]
    BY DEF total
  <1>6. \A k \in 0..Len(w) : g[k] = IF k = 0 THEN 0 ELSE plus(g[k - 1], w[k])
    <2> HIDE DEF g
    <2> QED
      BY <1>4
  <1>7. DOMAIN g = 0..Len(w) /\ g = [k \in DOMAIN g |-> g[k]]
    <2> HIDE DEF g
    <2> QED
      BY <1>4
  <1> HIDE DEF g, P
  <1> DEFINE T == {n \in Nat : n <= Len(w) => g[n] \in Nat}
  <1>8. T = Nat
    <2>1. 0 \in T
      BY <1>1, <1>6
    <2>2. ASSUME NEW n \in T PROVE n + 1 \in T
      <3>1. n \in Nat
        OBVIOUS
      <3> SUFFICES ASSUME n + 1 <= Len(w) PROVE g[n + 1] \in Nat
        BY <3>1
      <3>2. n \in 0..Len(w) /\ n + 1 \in 0..Len(w) /\ n + 1 # 0 /\ (n + 1) - 1 = n
        BY <1>1, <3>1
      <3>3. g[n] \in Nat /\ w[n + 1] \in Nat
        BY <1>1, <3>1
      <3>4. g[n + 1] = plus(g[n], w[n + 1])
        BY <1>6, <3>2
      <3> QED
        BY <3>3, <3>4 DEF plus, isCount
    <2>3. T \in SUBSET Nat
      OBVIOUS
    <2> HIDE DEF T
    <2> QED
      BY <2>1, <2>2, <2>3, Induction
  <1>9. \A k \in 0..Len(w) : g[k] \in Nat
    BY <1>1, <1>8
  <1>10. g[0] = 0
    BY <1>1, <1>6
  <1>11. \A n \in 1..Len(w) : g[n] = g[n - 1] + w[n]
    <2> TAKE n \in 1..Len(w)
    <2>1. n \in 0..Len(w) /\ n - 1 \in 0..Len(w) /\ n # 0 /\ w[n] \in Nat
      BY <1>1
    <2>2. g[n] = plus(g[n - 1], w[n])
      BY <1>6, <2>1
    <2>3. g[n - 1] \in Nat
      BY <1>9, <2>1
    <2> QED
      BY <2>1, <2>2, <2>3 DEF plus, isCount
  <1>12. g \in [0..Len(w) -> Nat]
    BY <1>7, <1>9
  <1> QED
    BY <1>5, <1>10, <1>11, <1>12

\* One more number makes the total that much more.
LEMMA TotalOfAppend ==
  ASSUME NEW w \in Seq(Nat), NEW x \in Nat
  PROVE  /\ total(w) \in Nat
         /\ total(Append(w, x)) = total(w) + x
  <1> DEFINE v == Append(w, x)
  <1>1. Len(w) \in Nat /\ v \in Seq(Nat) /\ Len(v) = Len(w) + 1 /\ v[Len(w) + 1] = x
        /\ \A k \in 1..Len(w) : v[k] = w[k]
    OBVIOUS
  <1>2. PICK f \in [0..Len(w) -> Nat] :
            /\ f[0] = 0
            /\ \A n \in 1..Len(w) : f[n] = f[n - 1] + w[n]
            /\ total(w) = f[Len(w)]
    BY TotalUnfolds
  <1> HIDE DEF v
  <1>3. PICK g \in [0..Len(v) -> Nat] :
            /\ g[0] = 0
            /\ \A n \in 1..Len(v) : g[n] = g[n - 1] + v[n]
            /\ total(v) = g[Len(v)]
    BY <1>1, TotalUnfolds
  <1> DEFINE T == {n \in Nat : n <= Len(w) => g[n] = f[n]}
  <1>4. T = Nat
    <2>1. 0 \in T
      BY <1>2, <1>3
    <2>2. ASSUME NEW n \in T PROVE n + 1 \in T
      <3>1. n \in Nat /\ (n <= Len(w) => g[n] = f[n])
        OBVIOUS
      <3> SUFFICES ASSUME n + 1 <= Len(w) PROVE g[n + 1] = f[n + 1]
        BY <3>1
      <3>2. n + 1 \in 1..Len(w) /\ n + 1 \in 1..Len(v) /\ (n + 1) - 1 = n /\ n <= Len(w)
        BY <1>1, <3>1
      <3>3. v[n + 1] = w[n + 1]
        BY <1>1, <3>2
      <3>4. g[n + 1] = g[n] + v[n + 1]
        BY <1>3, <3>2
      <3>5. f[n + 1] = f[n] + w[n + 1]
        BY <1>2, <3>2
      <3> QED
        BY <3>1, <3>2, <3>3, <3>4, <3>5
    <2>3. T \in SUBSET Nat
      OBVIOUS
    <2> HIDE DEF T
    <2> QED
      BY <2>1, <2>2, <2>3, Induction
  <1>5. g[Len(w)] = f[Len(w)]
    BY <1>1, <1>4
  <1>6. Len(v) \in 1..Len(v) /\ Len(v) - 1 = Len(w) /\ Len(w) \in 0..Len(w)
    BY <1>1
  <1>7. g[Len(v)] = g[Len(w)] + x
    BY <1>1, <1>3, <1>6
  <1>8. f[Len(w)] \in Nat
    BY <1>6
  <1> QED
    BY <1>2, <1>3, <1>5, <1>7, <1>8 DEF v

-----------------------------------------------------------------------------
(* What is priced, where a provider's counts are whole. *)

\* It splits its input into the three pools, or reports what its cache served
\* and took beside the input; metadata come with a count.
SplitsInput(report) ==
    \/ /\ report.input = Absent /\ report.noCache = Absent /\ report.read = Absent
       /\ report.write = Absent /\ report.meta = Absent
    \/ /\ report.noCache \in Nat /\ report.read \in Nat /\ report.write \in Nat
       /\ report.input = report.noCache + report.read + report.write
CacheBeside(report) ==
    /\ report.noCache = Absent /\ report.read = Absent /\ report.write = Absent
    /\ report.input \in Nat \cup {Absent}
    /\ report.meta # Absent =>
         /\ report.meta.cached \in Nat \cup {Absent} /\ report.meta.created \in Nat \cup {Absent}
         /\ report.input \in Nat
         /\ orElse(report.meta.cached, 0) + orElse(report.meta.created, 0) <= report.input
splits(shape) == \A report \in Reports[shape] : SplitsInput(report)
beside(shape) == \A report \in Reports[shape] : CacheBeside(report)

CountsAreWhole ==
    /\ \A shape \in DOMAIN Reports : splits(shape) \/ beside(shape)
    /\ \A report \in AllReports : /\ report.output \in Nat \cup {Absent}
                                  /\ report.billed \in Nat \cup {Absent}

Pools == {"noCache", "read", "write"}
Counted == {"input", "output", "billed"} \cup Pools
saw(field) == \E i \in DOMAIN turns : turns[i].report[field] # Absent

\* The sums of what was reported, and the totals that follow them turn by turn.
Summed ==
    /\ \A i \in DOMAIN turns : turns[i].report \in Reports[options.shape]
    /\ \A field \in Counted : ~saw(field) => reportedSum(field) = 0
    /\ \A i \in DOMAIN turns : count(i) # Absent => count(i) <= reportedSum("input")
    /\ splits(options.shape) =>
         reportedSum("input") = reportedSum("noCache") + reportedSum("read") + reportedSum("write")
Totalled ==
    /\ totals.input = reportedSum("input") /\ totals.output = reportedSum("output")
    /\ totals.billed = reportedSum("billed")
    /\ totals.sawUsage \in BOOLEAN
    /\ totals.sawUsage <=> saw("input") \/ saw("output")
    /\ \A field \in Pools :
         totals[field] = IF saw(field) THEN reportedSum(field) ELSE Absent
    /\ totals.billedSteps = Len(turns) => billedTurns = DOMAIN turns
    /\ totals.meta # Absent => \E i \in DOMAIN turns : totals.meta = turns[i].report.meta

LEMMA ReportsAreWhole ==
  ASSUME CountsAreWhole, NEW shape \in DOMAIN Reports, NEW report \in Reports[shape]
  PROVE  \A field \in Counted : report[field] \in Nat \cup {Absent}
  <1>1. report \in AllReports
    BY DEF AllReports
  <1>2. report.output \in Nat \cup {Absent} /\ report.billed \in Nat \cup {Absent}
    BY <1>1 DEF CountsAreWhole
  <1>3. SplitsInput(report) \/ CacheBeside(report)
    BY DEF CountsAreWhole, splits, beside
  <1>4. /\ report.input \in Nat \cup {Absent} /\ report.noCache \in Nat \cup {Absent}
        /\ report.read \in Nat \cup {Absent} /\ report.write \in Nat \cup {Absent}
    BY <1>3 DEF SplitsInput, CacheBeside
  <1> QED
    BY <1>2, <1>4 DEF Counted, Pools

\* A turn more adds its count to each sum.
LEMMA SumsGrow ==
  ASSUME turns \in Seq(Turns), NEW turn \in Turns, turns' = Append(turns, turn), NEW field
  PROVE  /\ reportedSum(field) \in Nat
         /\ reportedSum(field)' = reportedSum(field) + safeTokenCount(turn.report[field])
         /\ saw(field)' <=> saw(field) \/ turn.report[field] # Absent
         /\ Len(turns') = Len(turns) + 1 /\ DOMAIN turns' = DOMAIN turns \cup {Len(turns) + 1}
         /\ turns'[Len(turns) + 1] = turn /\ \A i \in DOMAIN turns : turns'[i] = turns[i]
  <1> DEFINE w == [i \in DOMAIN turns |-> safeTokenCount(turns[i].report[field])]
  <1> DEFINE v == [i \in DOMAIN turns' |-> safeTokenCount(turns'[i].report[field])]
  <1> DEFINE x == safeTokenCount(turn.report[field])
  <1>1. PICK n \in Nat : n = Len(turns)
    OBVIOUS
  <1>2. /\ Len(turns') = n + 1 /\ DOMAIN turns = 1..n /\ DOMAIN turns' = 1..n + 1
        /\ turns'[n + 1] = turn /\ \A i \in 1..n : turns'[i] = turns[i]
    BY <1>1
  <1>3. x \in Nat /\ \A i \in 1..n : safeTokenCount(turns[i].report[field]) \in Nat
    BY DEF safeTokenCount, isCount
  <1>4. w \in [1..n -> Nat]
    BY <1>2, <1>3
  <1>5. w \in Seq(Nat) /\ Len(w) = n
    <2> HIDE DEF w
    <2> QED
      BY <1>4
  <1>6. \A i \in 1..n + 1 : v[i] = IF i = n + 1 THEN x ELSE w[i]
    BY <1>2
  <1>7. DOMAIN v = 1..n + 1 /\ v = [i \in DOMAIN v |-> v[i]]
    BY <1>2
  <1>8. v = Append(w, x)
    <2> HIDE DEF w, v, x
    <2>1. /\ Append(w, x) \in Seq(Nat) /\ Len(Append(w, x)) = n + 1
          /\ \A i \in 1..n + 1 : Append(w, x)[i] = IF i = n + 1 THEN x ELSE w[i]
      BY <1>3, <1>5
    <2>2. \A i \in 1..n + 1 : v[i] \in Nat
      BY <1>3, <1>5, <1>6
    <2>3. v \in [1..n + 1 -> Nat]
      BY <1>7, <2>2
    <2>4. v \in Seq(Nat) /\ Len(v) = n + 1
      BY <2>3
    <2> QED
      BY <1>6, <2>1, <2>4, SeqEqual
  <1>9. reportedSum(field) = total(w) /\ reportedSum(field)' = total(v)
    BY DEF reportedSum, total
  <1>10. total(w) \in Nat /\ total(v) = total(w) + x
    <2> HIDE DEF w, v, x
    <2> QED
      BY <1>3, <1>5, <1>8, TotalOfAppend
  <1>11. saw(field)' <=> saw(field) \/ turn.report[field] # Absent
    <2>1. \A i \in 1..n : turns'[i].report[field] = turns[i].report[field]
      BY <1>2
    <2>2. turns'[n + 1].report[field] = turn.report[field]
      BY <1>2
    <2>3. DOMAIN turns' = DOMAIN turns \cup {n + 1}
      BY <1>2
    <2> QED
      BY <1>2, <2>1, <2>2, <2>3, Zenon DEF saw
  <1>12. /\ reportedSum(field) \in Nat
         /\ reportedSum(field)' = reportedSum(field) + x
    <2> HIDE DEF w, v, x
    <2> QED
      BY <1>9, <1>10
  <1> HIDE DEF w, v
  <1> QED
    BY <1>1, <1>2, <1>11, <1>12
\* What the totals take of a turn.
LEMMA AddedTotals ==
  ASSUME NEW t, t = [f \in TotalFields |-> t[f]], NEW report, NEW calls
  PROVE  LET grown == added(t, report, calls)
         IN /\ grown.input = plus(t.input, orElse(report.input, 0))
            /\ grown.output = plus(t.output, orElse(report.output, 0))
            /\ grown.sawUsage = (t.sawUsage \/ report.input # Absent \/ report.output # Absent)
            /\ \A f \in Pools : grown[f] = pool(t[f], report[f])
            /\ grown.meta = IF report.meta # Absent THEN report.meta ELSE t.meta
            /\ grown.billed = IF report.billed # Absent THEN t.billed + report.billed ELSE t.billed
            /\ grown.billedSteps = IF report.billed # Absent THEN t.billedSteps + 1 ELSE t.billedSteps
  <1>1. DOMAIN t = TotalFields
    OBVIOUS
  <1> DEFINE grown == added(t, report, calls)
  <1>2. /\ grown.input = plus(t.input, orElse(report.input, 0))
        /\ grown.output = plus(t.output, orElse(report.output, 0))
        /\ grown.sawUsage = (t.sawUsage \/ report.input # Absent \/ report.output # Absent)
    BY <1>1 DEF added, TotalFields
  <1>3. /\ grown.noCache = pool(t.noCache, report.noCache)
        /\ grown.read = pool(t.read, report.read)
        /\ grown.write = pool(t.write, report.write)
    BY <1>1 DEF added, TotalFields
  <1>4. /\ grown.meta = IF report.meta # Absent THEN report.meta ELSE t.meta
        /\ grown.billed = IF report.billed # Absent THEN t.billed + report.billed ELSE t.billed
        /\ grown.billedSteps = IF report.billed # Absent THEN t.billedSteps + 1 ELSE t.billedSteps
    BY <1>1 DEF added, TotalFields
  <1> HIDE DEF grown
  <1> QED
    BY <1>2, <1>3, <1>4 DEF grown, Pools

LEMMA SumIsANumber ==
  ASSUME turns \in Seq(Turns), NEW field
  PROVE  reportedSum(field) \in Nat
  <1> DEFINE w == [i \in DOMAIN turns |-> safeTokenCount(turns[i].report[field])]
  <1>1. PICK n \in Nat : n = Len(turns)
    OBVIOUS
  <1>2. DOMAIN turns = 1..n
    BY <1>1
  <1>3. \A i \in 1..n : safeTokenCount(turns[i].report[field]) \in Nat
    BY DEF safeTokenCount, isCount
  <1>4. w \in [1..n -> Nat]
    BY <1>2, <1>3
  <1>5. reportedSum(field) = total(w)
    BY DEF reportedSum
  <1> HIDE DEF w
  <1>6. w \in Seq(Nat)
    BY <1>4
  <1>7. total(w) \in Nat /\ 0 \in Nat
    BY <1>6, TotalOfAppend
  <1> QED
    BY <1>5, <1>7

\* The sum over the steps is none where nothing was reported, and the count of all
\* of it elsewhere.
LEMMA SumsAreReported ==
  ASSUME NEW field, \A i \in DOMAIN turns : turns[i].report[field] \in Nat \cup {Absent}
  PROVE  /\ sumOf(reported(field)) = IF saw(field) THEN reportedSum(field) ELSE Absent
         /\ total([i \in DOMAIN turns |-> orElse(turns[i].report[field], 0)]) = reportedSum(field)
  <1> DEFINE values == [i \in DOMAIN turns |-> turns[i].report[field]]
  <1>1. reported(field) = values /\ DOMAIN values = DOMAIN turns
        /\ \A i \in DOMAIN turns : values[i] = turns[i].report[field]
    BY DEF reported
  <1>2. \A n \in Nat \cup {Absent} : orElse(n, 0) = safeTokenCount(n)
    BY BoundsAssumption DEF orElse, safeTokenCount, isCount
  <1>3. [i \in DOMAIN turns |-> orElse(turns[i].report[field], 0)]
          = [i \in DOMAIN turns |-> safeTokenCount(turns[i].report[field])]
    BY <1>2
  <1>4. [i \in DOMAIN values |-> orElse(values[i], 0)]
          = [i \in DOMAIN turns |-> orElse(turns[i].report[field], 0)]
    BY <1>1
  <1> HIDE DEF values
  <1>5. total([i \in DOMAIN turns |-> orElse(turns[i].report[field], 0)]) = reportedSum(field)
    BY <1>3 DEF reportedSum
  <1>6. (\A i \in DOMAIN values : values[i] = Absent) <=> ~saw(field)
    BY <1>1 DEF saw
  <1>7. sumOf(values) = IF saw(field)
                        THEN total([i \in DOMAIN values |-> orElse(values[i], 0)]) ELSE Absent
    BY <1>6, Zenon DEF sumOf
  <1> QED
    BY <1>1, <1>4, <1>5, <1>7

\* Each input token is in one pool, whether the provider splits its input or reports
\* its cache beside it.
LEMMA UsageIsPriced ==
  ASSUME CountsAreWhole, options.shape \in DOMAIN Reports, turns \in Seq(Turns), Summed,
         NEW u, NEW meta,
         u.input \in {reportedSum("input"), Absent}, u.input = Absent => reportedSum("input") = 0,
         u.output \in {reportedSum("output"), Absent}, u.output = Absent => reportedSum("output") = 0,
         \A field \in Pools : u[field] = IF saw(field) THEN reportedSum(field) ELSE Absent,
         meta # Absent => \E i \in DOMAIN turns : meta = turns[i].report.meta
  PROVE  LET usage == mapUsage(u, meta)
         IN /\ usage.input + usage.served + usage.created = reportedSum("input")
            /\ usage.output = reportedSum("output")
  <1> DEFINE S(field) == reportedSum(field)
  <1>1. /\ S("input") \in Nat /\ S("output") \in Nat /\ S("noCache") \in Nat
        /\ S("read") \in Nat /\ S("write") \in Nat
    BY SumIsANumber
  <1>2. Absent \notin Nat /\ Absent \notin Int
    BY BoundsAssumption
  <1>3. safeTokenCount(u.input) = S("input") /\ safeTokenCount(u.output) = S("output")
    BY <1>1, <1>2 DEF safeTokenCount, isCount
  <1>4. /\ u.noCache = IF saw("noCache") THEN S("noCache") ELSE Absent
        /\ u.read = IF saw("read") THEN S("read") ELSE Absent
        /\ u.write = IF saw("write") THEN S("write") ELSE Absent
    BY DEF Pools
  <1>5. \A n \in Nat : safeTokenCount(n) = n
    BY DEF safeTokenCount, isCount
  <1> HIDE DEF S
  <1>6. uncached(u, meta) + cacheServed(u, meta) + cacheCreated(u, meta) = S("input")
    <2>1. CASE saw("noCache") /\ saw("read") /\ saw("write") /\ splits(options.shape)
      <3>1. /\ uncached(u, meta) = S("noCache") /\ cacheServed(u, meta) = S("read")
            /\ cacheCreated(u, meta) = S("write")
        BY <1>1, <1>2, <1>4, <1>5, <2>1 DEF uncached, cacheServed, cacheCreated
      <3>2. S("input") = S("noCache") + S("read") + S("write")
        BY <2>1 DEF Summed, S
      <3> QED
        BY <1>1, <3>1, <3>2
    <2>2. CASE ~saw("noCache") /\ ~saw("read") /\ ~saw("write")
      <3>1. u.noCache = Absent /\ u.read = Absent /\ u.write = Absent
        BY <1>4, <2>2
      <3>2. CASE meta = Absent
        <4>1. cacheServed(u, meta) = 0 /\ cacheCreated(u, meta) = 0
          BY <3>1, <3>2 DEF cacheServed, cacheCreated
        <4>2. uncached(u, meta) = Max({0, S("input") - 0 - 0})
          BY <1>3, <3>1, <4>1 DEF uncached
        <4>3. PICK s \in Nat : s = S("input")
          BY <1>1
        <4>4. Max({0, s - 0 - 0}) = s
          <5>1. s - 0 - 0 = s /\ s \in Int /\ 0 \in Int
            OBVIOUS
          <5>2. Max({0, s}) \in {0, s} /\ Max({0, s}) >= s
            BY <5>1, MaxOfTwo
          <5>3. Max({0, s}) = s
            BY <5>2
          <5> QED
            BY <5>1, <5>3
        <4> QED
          BY <4>1, <4>2, <4>3, <4>4
      <3>3. CASE meta # Absent
        <4>1. PICK i \in DOMAIN turns : meta = turns[i].report.meta
          BY <3>3
        <4>2. turns[i].report \in Reports[options.shape]
          BY DEF Summed
        <4>3. ~SplitsInput(turns[i].report)
          <5>1. turns[i].report.noCache = Absent
            BY <2>2 DEF saw
          <5> QED
            BY <1>2, <3>3, <4>1, <5>1 DEF SplitsInput
        <4>4. CacheBeside(turns[i].report)
          BY <4>2, <4>3 DEF CountsAreWhole, splits, beside
        <4> DEFINE served == orElse(meta.cached, 0)
        <4> DEFINE created == orElse(meta.created, 0)
        <4>5. /\ meta.cached \in Nat \cup {Absent} /\ meta.created \in Nat \cup {Absent}
              /\ count(i) \in Nat /\ served + created <= count(i)
          BY <3>3, <4>1, <4>4 DEF CacheBeside, count
        <4>6. count(i) <= S("input")
          BY <1>2, <4>5 DEF Summed, S
        <4>7. cacheServed(u, meta) = served /\ cacheCreated(u, meta) = created
          <5>1. \A n \in Nat \cup {Absent} : orElse(optionalTokenCount(n), 0) = orElse(n, 0)
            BY <1>5 DEF orElse, optionalTokenCount
          <5> QED
            BY <3>1, <3>3, <4>5, <5>1 DEF cacheServed, cacheCreated
        <4>8. served \in Nat /\ created \in Nat
          BY <4>5 DEF orElse
        <4> HIDE DEF served, created
        <4>9. uncached(u, meta) = Max({0, S("input") - served - created})
          BY <1>3, <3>1, <4>7 DEF uncached
        <4>10. PICK a \in Nat, b \in Nat, c \in Nat, s \in Nat :
                 a = served /\ b = created /\ c = count(i) /\ s = S("input")
          BY <1>1, <4>5, <4>8
        <4>11. a + b <= c /\ c <= s
          BY <4>5, <4>6, <4>10
        <4>12. Max({0, s - a - b}) = s - a - b
          <5>1. PICK d \in Nat : d = s - a - b
            BY <4>11
          <5>2. Max({0, d}) \in {0, d} /\ Max({0, d}) >= d
            <6>1. 0 \in Int /\ d \in Int
              OBVIOUS
            <6> QED
              BY <6>1, MaxOfTwo
          <5>3. Max({0, d}) = d
            BY <5>2
          <5> QED
            BY <5>1, <5>3
        <4>13. (s - a - b) + a + b = s
          OBVIOUS
        <4> QED
          BY <4>7, <4>9, <4>10, <4>12, <4>13
      <3> QED
        BY <3>2, <3>3
    <2>3. \/ saw("noCache") /\ saw("read") /\ saw("write") /\ splits(options.shape)
          \/ ~saw("noCache") /\ ~saw("read") /\ ~saw("write")
      <3>1. ASSUME beside(options.shape)
            PROVE  ~saw("noCache") /\ ~saw("read") /\ ~saw("write")
        BY <3>1 DEF beside, CacheBeside, saw, Summed
      <3>2. ASSUME splits(options.shape)
            PROVE  /\ saw("noCache") <=> saw("read")
                   /\ saw("noCache") <=> saw("write")
        <4>1. \A i \in DOMAIN turns :
                LET report == turns[i].report
                IN /\ report.noCache # Absent <=> report.read # Absent
                   /\ report.noCache # Absent <=> report.write # Absent
          BY <1>2, <3>2 DEF splits, SplitsInput, Summed
        <4> QED
          BY <4>1 DEF saw
      <3> QED
        BY <3>1, <3>2 DEF CountsAreWhole
    <2> QED
      BY <2>1, <2>2, <2>3
  <1>7. /\ mapUsage(u, meta).input = uncached(u, meta)
        /\ mapUsage(u, meta).served = cacheServed(u, meta)
        /\ mapUsage(u, meta).created = cacheCreated(u, meta)
        /\ mapUsage(u, meta).output = safeTokenCount(u.output)
    BY DEF mapUsage
  <1> QED
    BY <1>3, <1>6, <1>7 DEF S

\* The turns and the totals stay in step, with a turn of the loop and with a repair.
LEMMA TotalsFollow ==
  ASSUME CountsAreWhole, Shape, Types, Summed, Totalled,
         NEW turn \in Turns, turn.report \in Reports[options.shape],
         turns' = Append(turns, turn), options' = options, NEW calls,
         \A field \in TotalFields \ {"stepWrapUp"} :
           totals'[field] = added(totals, turn.report, calls)[field]
  PROVE  Summed' /\ Totalled'
  <1> DEFINE report == turn.report
  <1>1. PICK n \in Nat : n = Len(turns)
    BY DEF Shape
  <1>2. turns \in Seq(Turns) /\ options.shape \in DOMAIN Reports /\ DOMAIN turns = 1..n
    BY <1>1 DEF Shape
  <1>3. \A field \in Counted : report[field] \in Nat \cup {Absent}
    BY <1>2, ReportsAreWhole
  <1>4. \A field : /\ reportedSum(field) \in Nat
                   /\ reportedSum(field)' = reportedSum(field) + safeTokenCount(report[field])
                   /\ saw(field)' <=> saw(field) \/ report[field] # Absent
    BY <1>2, SumsGrow
  <1>5. /\ Len(turns') = n + 1 /\ DOMAIN turns' = DOMAIN turns \cup {n + 1}
        /\ turns'[n + 1] = turn /\ \A i \in DOMAIN turns : turns'[i] = turns[i]
    BY <1>1, <1>2, SumsGrow
  <1>6. Absent \notin Nat
    BY BoundsAssumption
  <1>7. \A m \in Nat \cup {Absent} : /\ safeTokenCount(m) = orElse(m, 0)
                                     /\ safeTokenCount(m) \in Nat
    BY <1>6 DEF safeTokenCount, orElse, isCount
  <1>8. /\ totals'.input = plus(totals.input, orElse(report.input, 0))
        /\ totals'.output = plus(totals.output, orElse(report.output, 0))
        /\ totals'.sawUsage = (totals.sawUsage \/ report.input # Absent \/ report.output # Absent)
        /\ \A f \in Pools : totals'[f] = pool(totals[f], report[f])
        /\ totals'.meta = IF report.meta # Absent THEN report.meta ELSE totals.meta
        /\ totals'.billed = IF report.billed # Absent THEN totals.billed + report.billed
                            ELSE totals.billed
        /\ totals'.billedSteps = IF report.billed # Absent THEN totals.billedSteps + 1
                                 ELSE totals.billedSteps
    <2> DEFINE grown == added(totals, report, calls)
    <2>1. totals = [f \in TotalFields |-> totals[f]]
      BY DEF Types
    <2>2. /\ grown.input = plus(totals.input, orElse(report.input, 0))
          /\ grown.output = plus(totals.output, orElse(report.output, 0))
          /\ grown.sawUsage = (totals.sawUsage \/ report.input # Absent \/ report.output # Absent)
          /\ \A f \in Pools : grown[f] = pool(totals[f], report[f])
          /\ grown.meta = IF report.meta # Absent THEN report.meta ELSE totals.meta
          /\ grown.billed = IF report.billed # Absent THEN totals.billed + report.billed
                            ELSE totals.billed
          /\ grown.billedSteps = IF report.billed # Absent THEN totals.billedSteps + 1
                                 ELSE totals.billedSteps
      BY <2>1, AddedTotals
    <2>3. \A f \in {"input", "output", "sawUsage", "meta", "billed", "billedSteps"} \cup Pools :
            totals'[f] = grown[f]
      BY DEF TotalFields, Pools
    <2> HIDE DEF grown
    <2> QED
      BY <2>2, <2>3
  <1> DEFINE size(field) == safeTokenCount(report[field])
  <1>9. \A field \in Counted : size(field) = orElse(report[field], 0) /\ size(field) \in Nat
    BY <1>3, <1>7
  <1>10. \A field \in Counted : ~saw(field)' => reportedSum(field)' = 0
    <2> TAKE field \in Counted
    <2>1. ~saw(field)' => ~saw(field) /\ report[field] = Absent
      BY <1>4
    <2>2. report[field] = Absent => size(field) = 0
      BY <1>9 DEF orElse
    <2>3. ~saw(field) => reportedSum(field) = 0
      BY DEF Summed
    <2>4. reportedSum(field)' = reportedSum(field) + size(field)
      BY <1>4
    <2> HIDE DEF size
    <2> QED
      BY <2>1, <2>2, <2>3, <2>4
  <1>11. \A i \in DOMAIN turns' : count(i)' # Absent => count(i)' <= reportedSum("input")'
    <2> TAKE i \in DOMAIN turns'
    <2>1. PICK s \in Nat, x \in Nat : /\ s = reportedSum("input") /\ x = size("input")
                                      /\ reportedSum("input")' = s + x
      BY <1>4, <1>9 DEF Counted
    <2>2. CASE i \in DOMAIN turns
      <3>1. count(i)' = count(i)
        BY <1>5, <2>2 DEF count
      <3>2. count(i) # Absent => count(i) \in Nat
        <4>1. turns[i].report \in Reports[options.shape]
          BY <2>2 DEF Summed
        <4>2. \A field \in Counted : turns[i].report[field] \in Nat \cup {Absent}
          BY <1>2, <4>1, ReportsAreWhole
        <4> QED
          BY <4>2 DEF count, Counted
      <3>3. count(i) # Absent => count(i) <= s
        BY <2>1, <2>2 DEF Summed
      <3> QED
        BY <2>1, <3>1, <3>2, <3>3
    <2>3. CASE i = n + 1
      <3>1. count(i)' = report.input
        BY <1>5, <2>3 DEF count
      <3>2. report.input # Absent => report.input = x
        BY <1>9, <2>1 DEF Counted, orElse
      <3> QED
        BY <2>1, <3>1, <3>2
    <2> QED
      BY <1>5, <2>2, <2>3
  <1>12. splits(options.shape) =>
           reportedSum("input")' = reportedSum("noCache")' + reportedSum("read")' + reportedSum("write")'
    <2> SUFFICES ASSUME splits(options.shape)
                 PROVE  reportedSum("input")' = reportedSum("noCache")' + reportedSum("read")'
                                                + reportedSum("write")'
      OBVIOUS
    <2>1. size("input") = size("noCache") + size("read") + size("write")
      <3>1. SplitsInput(report)
        BY DEF splits
      <3>2. \A m \in Nat : safeTokenCount(m) = m
        BY DEF safeTokenCount, isCount
      <3>3. safeTokenCount(Absent) = 0
        BY <1>6 DEF safeTokenCount, isCount
      <3> QED
        BY <3>1, <3>2, <3>3 DEF SplitsInput
    <2>2. reportedSum("input") = reportedSum("noCache") + reportedSum("read") + reportedSum("write")
      BY DEF Summed
    <2>3. \A field \in {"input", "noCache", "read", "write"} :
            /\ reportedSum(field) \in Nat /\ size(field) \in Nat
            /\ reportedSum(field)' = reportedSum(field) + size(field)
      BY <1>4, <1>9 DEF Counted, Pools
    <2> HIDE DEF size
    <2> QED
      BY <2>1, <2>2, <2>3
  <1>13. Summed'
    <2>1. \A i \in DOMAIN turns' : turns'[i].report \in Reports[options.shape]
      BY <1>5 DEF Summed
    <2>2. splits(options.shape)' <=> splits(options.shape)
      BY DEF splits, SplitsInput
    <2>3. options.shape' = options.shape
      OBVIOUS
    <2> QED
      BY <1>10, <1>11, <1>12, <2>1, <2>2, <2>3 DEF Summed
  <1>14. totals'.input = reportedSum("input")' /\ totals'.output = reportedSum("output")'
    <2>1. /\ plus(reportedSum("input"), size("input")) = reportedSum("input") + size("input")
          /\ plus(reportedSum("output"), size("output")) = reportedSum("output") + size("output")
      BY <1>4, <1>9 DEF plus, isCount, Counted
    <2>2. size("input") = orElse(report.input, 0) /\ size("output") = orElse(report.output, 0)
      BY <1>9 DEF Counted
    <2>3. /\ reportedSum("input")' = reportedSum("input") + size("input")
          /\ reportedSum("output")' = reportedSum("output") + size("output")
      BY <1>4
    <2> HIDE DEF size
    <2> QED
      BY <1>8, <2>1, <2>2, <2>3 DEF Totalled
  <1>15. totals'.billed = reportedSum("billed")'
    <2>1. size("billed") = orElse(report.billed, 0) /\ reportedSum("billed") \in Nat
      BY <1>4, <1>9 DEF Counted
    <2>2. reportedSum("billed")' = reportedSum("billed") + size("billed")
      BY <1>4
    <2>3. totals.billed = reportedSum("billed")
      BY DEF Totalled
    <2> HIDE DEF size
    <2> QED
      BY <1>8, <2>1, <2>2, <2>3 DEF orElse
  <1>16. totals'.sawUsage \in BOOLEAN /\ (totals'.sawUsage <=> saw("input")' \/ saw("output")')
    BY <1>4, <1>8 DEF Totalled
  <1>17. \A field \in Pools :
           totals'[field] = IF saw(field)' THEN reportedSum(field)' ELSE Absent
    <2> TAKE field \in Pools
    <2>1. field \in Counted
      BY DEF Counted
    <2>2. totals'[field] = pool(totals[field], report[field])
      BY <1>8
    <2>3. totals[field] = IF saw(field) THEN reportedSum(field) ELSE Absent
      BY DEF Totalled
    <2>4. ~saw(field) => reportedSum(field) = 0
      BY <2>1 DEF Summed
    <2>5. PICK s \in Nat : s = reportedSum(field) /\ reportedSum(field)' = s + size(field)
      BY <1>4
    <2>6. orElse(totals[field], 0) = s
      BY <1>6, <2>3, <2>4, <2>5 DEF orElse
    <2>7. CASE report[field] = Absent
      <3>1. size(field) = 0 /\ totals'[field] = totals[field]
        BY <1>9, <2>1, <2>2, <2>7 DEF pool, orElse
      <3>2. saw(field)' <=> saw(field)
        BY <1>4, <2>7
      <3>3. s + 0 = s
        OBVIOUS
      <3> QED
        BY <2>3, <2>5, <3>1, <3>2, <3>3
    <2>8. CASE report[field] # Absent
      <3>1. totals'[field] = s + size(field)
        BY <2>2, <2>6, <2>8 DEF pool
      <3>2. saw(field)'
        BY <1>4, <2>8
      <3> QED
        BY <2>5, <3>1, <3>2
    <2> QED
      BY <2>7, <2>8
  <1>18. totals'.billedSteps = Len(turns') => billedTurns' = DOMAIN turns'
    <2> SUFFICES ASSUME totals'.billedSteps = n + 1
                 PROVE  \A i \in DOMAIN turns' : turns'[i].report.billed # Absent
      BY <1>5 DEF billedTurns
    <2>1. totals.billedSteps \in 0..n
      BY <1>1 DEF Types
    <2>2. report.billed # Absent /\ totals.billedSteps = n
      BY <1>8, <2>1
    <2>3. billedTurns = DOMAIN turns
      BY <1>1, <2>2 DEF Totalled
    <2> QED
      BY <1>5, <2>2, <2>3 DEF billedTurns
  <1>19. totals'.meta # Absent => \E i \in DOMAIN turns' : totals'.meta = turns'[i].report.meta
    <2>1. CASE report.meta # Absent
      BY <1>5, <1>8, <2>1
    <2>2. CASE report.meta = Absent
      BY <1>5, <1>8, <2>2 DEF Totalled
    <2> QED
      BY <2>1, <2>2
  <1> QED
    BY <1>13, <1>14, <1>15, <1>16, <1>17, <1>18, <1>19 DEF Totalled

turnsOf(report) ==
    [part : {"loop", "repair"}, report : {report}, tools : BOOLEAN, finish : {"tool-calls", "stop"}]

\* A turn, of the loop or a repair, by what it adds.
LEMMA TurnIsAdded ==
  ASSUME CountsAreWhole, Shape, Types, Summed, Totalled, Turn \/ Repairs
  PROVE  Summed' /\ Totalled' /\ result' = Absent
  <1>0. PICK report \in Reports[options.shape], calls \in 0..1 :
          \E turn \in turnsOf(report) :
             /\ turns' = Append(turns, turn)
             /\ totals' \in {added(totals, report, calls),
                             [added(totals, report, calls) EXCEPT !.stepWrapUp = Len(turns)]}
    <2>1. CASE Turn
      <3>1. PICK report \in Reports[options.shape], calls \in 0..1 :
              /\ turns' = Append(turns, [part |-> "loop", report |-> report, tools |-> offersTools,
                                         finish |-> IF calls > 0 THEN "tool-calls" ELSE "stop"])
              /\ totals' \in {added(totals, report, calls),
                              [added(totals, report, calls) EXCEPT !.stepWrapUp = Len(turns)]}
        BY <2>1 DEF Turn
      <3>2. offersTools \in BOOLEAN
        BY DEF offersTools
      <3>3. [part |-> "loop", report |-> report, tools |-> offersTools,
             finish |-> IF calls > 0 THEN "tool-calls" ELSE "stop"]
              \in turnsOf(report)
        BY <3>2 DEF turnsOf
      <3> QED
        BY <3>1, <3>3
    <2>2. CASE Repairs
      <3>1. PICK report \in Reports[options.shape] :
              /\ totals' = added(totals, report, 0)
              /\ turns' = Append(turns, [part |-> "repair", report |-> report,
                                         tools |-> FALSE, finish |-> "stop"])
        BY <2>2 DEF Repairs
      <3>2. [part |-> "repair", report |-> report, tools |-> FALSE, finish |-> "stop"]
              \in turnsOf(report)
        BY DEF turnsOf
      <3>3. 0 \in 0..1
        OBVIOUS
      <3> QED
        BY <3>1, <3>2, <3>3, Zenon
    <2> QED
      BY <2>1, <2>2
  <1>1. PICK turn \in turnsOf(report) :
          /\ turns' = Append(turns, turn)
          /\ totals' \in {added(totals, report, calls),
                          [added(totals, report, calls) EXCEPT !.stepWrapUp = Len(turns)]}
    BY <1>0
  <1>2. turn \in Turns /\ turn.report = report
    <2>1. report \in AllReports
      BY DEF AllReports, Shape
    <2> QED
      BY <1>1, <2>1 DEF Turns, turnsOf
  <1>3. \A field \in TotalFields \ {"stepWrapUp"} :
          totals'[field] = added(totals, report, calls)[field]
    <2> DEFINE grown == added(totals, report, calls)
    <2>1. grown = [f \in TotalFields |-> grown[f]]
      <3>1. DOMAIN totals = TotalFields
        BY DEF Types
      <3> QED
        BY <3>1, ZenonT(30) DEF added
    <2>2. totals' \in {grown, [grown EXCEPT !.stepWrapUp = Len(turns)]}
      BY <1>1
    <2> HIDE DEF grown
    <2>3. \A field \in TotalFields \ {"stepWrapUp"} : totals'[field] = grown[field]
      BY <2>1, <2>2
    <2> QED
      BY <2>3 DEF grown
  <1>4. options' = options /\ result' = result /\ pc # "returned"
    BY DEF Turn, Repairs
  <1>5. Summed' /\ Totalled'
    BY <1>1, <1>2, <1>3, <1>4, TotalsFollow
  <1> QED
    BY <1>4, <1>5 DEF Types

LEMMA BilledIsWhole ==
  ASSUME Shape, Types, Totalled
  PROVE  /\ billedUsdOf(totals.steps, totals.billedSteps, totals.billed) # Absent
              => /\ billedTurns = DOMAIN turns
                 /\ billedUsdOf(totals.steps, totals.billedSteps, totals.billed)
                      = reportedSum("billed")
         /\ Cardinality(billedTurns) = Len(turns) => billedTurns = DOMAIN turns
  <1>1. Cardinality(billedTurns) = Len(turns) => billedTurns = DOMAIN turns
    <2>1. PICK n \in Nat : n = Len(turns)
      BY DEF Shape
    <2>2. DOMAIN turns = 1..n /\ billedTurns \subseteq 1..n
      BY <2>1 DEF Shape, billedTurns
    <2>3. IsFiniteSet(1..n) /\ Cardinality(1..n) = n
      <3>1. 1 \in Int /\ n \in Int
        OBVIOUS
      <3>2. IsFiniteSet(1..n) /\ Cardinality(1..n) = IF 1 > n THEN 0 ELSE n - 1 + 1
        BY <3>1, FS_Interval
      <3> QED
        BY <3>2
    <2> QED
      BY <2>1, <2>2, <2>3, FS_Subset
  <1>2. billedUsdOf(totals.steps, totals.billedSteps, totals.billed)
          \in {Absent, totals.billed}
    BY DEF billedUsdOf
  <1>3. ASSUME billedUsdOf(totals.steps, totals.billedSteps, totals.billed) # Absent
        PROVE  totals.billedSteps = Len(turns)
    BY <1>3 DEF billedUsdOf, Types
  <1> QED
    BY <1>1, <1>2, <1>3 DEF Totalled

\* On either path, what is returned is priced once.
LEMMA ReturnIsPriced ==
  ASSUME CountsAreWhole, Shape, Types, Summed, Totalled, Answers \/ FallsBack \/ RepairReturns
  PROVE  TokensArePricedOnce'
  <1>1. turns \in Seq(Turns) /\ options.shape \in DOMAIN Reports /\ turns # <<>>
    BY DEF Shape, Answers, FallsBack, RepairReturns
  <1>2. turns' = turns
    BY DEF Answers, FallsBack, RepairReturns
  <1>3. billedTurns' = billedTurns /\ \A field : reportedSum(field)' = reportedSum(field)
    BY <1>2 DEF billedTurns, reportedSum
  <1>4. \A field \in Counted, i \in DOMAIN turns : turns[i].report[field] \in Nat \cup {Absent}
    BY <1>1, ReportsAreWhole DEF Summed
  <1>5. Absent \notin Nat
    BY BoundsAssumption
  <1>6. \A field \in Counted : ~saw(field) => reportedSum(field) = 0
    BY DEF Summed
  <1> SUFFICES
         /\ result'.usage.input + result'.usage.served + result'.usage.created
              = reportedSum("input")
         /\ result'.usage.output = reportedSum("output")
         /\ result'.billed # Absent => /\ billedTurns = DOMAIN turns
                                       /\ result'.billed = reportedSum("billed")
    BY <1>2, <1>3 DEF TokensArePricedOnce
  <1>7. CASE Answers
    <2> DEFINE u == totalUsage
    <2> DEFINE meta == Last(turns).report.meta
    <2>1. \A field \in Counted :
            /\ sumOf(reported(field)) = IF saw(field) THEN reportedSum(field) ELSE Absent
            /\ total([i \in DOMAIN turns |-> orElse(turns[i].report[field], 0)]) = reportedSum(field)
      BY <1>4, SumsAreReported
    <2>2. /\ u.input = sumOf(reported("input")) /\ u.output = sumOf(reported("output"))
          /\ \A field \in Pools : u[field] = sumOf(reported(field))
      BY DEF totalUsage, Pools
    <2>3. meta # Absent => \E i \in DOMAIN turns : meta = turns[i].report.meta
      <3>1. Len(turns) \in DOMAIN turns /\ Last(turns) = turns[Len(turns)]
        BY <1>1 DEF Last
      <3> QED
        BY <3>1
    <2> HIDE DEF u, meta
    <2>4. /\ u.input \in {reportedSum("input"), Absent}
          /\ u.input = Absent => reportedSum("input") = 0
          /\ u.output \in {reportedSum("output"), Absent}
          /\ u.output = Absent => reportedSum("output") = 0
          /\ \A field \in Pools : u[field] = IF saw(field) THEN reportedSum(field) ELSE Absent
      <3>1. \A field \in Counted : reportedSum(field) # Absent
        BY <1>1, <1>5, SumIsANumber
      <3> QED
        BY <1>6, <2>1, <2>2, <3>1 DEF Counted
    <2>5. /\ mapUsage(u, meta).input + mapUsage(u, meta).served + mapUsage(u, meta).created
               = reportedSum("input")
          /\ mapUsage(u, meta).output = reportedSum("output")
      BY <1>1, <2>3, <2>4, UsageIsPriced
    <2>6. /\ result'.usage = mapUsage(u, meta)
          /\ result'.billed = billedUsdOf(Len(turns), Cardinality(billedTurns),
                total([i \in DOMAIN turns |-> orElse(turns[i].report.billed, 0)]))
      BY <1>7 DEF Answers, buildGenerateResult, priced, u, meta
    <2>7. total([i \in DOMAIN turns |-> orElse(turns[i].report.billed, 0)]) = reportedSum("billed")
      BY <2>1 DEF Counted
    <2>8. result'.billed # Absent => /\ Cardinality(billedTurns) = Len(turns)
                                     /\ result'.billed = reportedSum("billed")
      BY <2>6, <2>7 DEF billedUsdOf
    <2> QED
      BY <2>5, <2>6, <2>8, BilledIsWhole
  <1>8. CASE FallsBack \/ RepairReturns
    <2> DEFINE u == stepTotalsToUsage(totals)
    <2>1. /\ u.input = (IF totals.sawUsage THEN totals.input ELSE Absent)
          /\ u.output = (IF totals.sawUsage THEN totals.output ELSE Absent)
          /\ \A field \in Pools : u[field] = totals[field]
      BY DEF stepTotalsToUsage, Pools
    <2>2. /\ result'.usage = mapUsage(u, totals.meta)
          /\ result'.billed = billedUsdOf(totals.steps, totals.billedSteps, totals.billed)
      BY <1>8 DEF FallsBack, RepairReturns, buildFallbackResult, priced
    <2> HIDE DEF u
    <2>3. /\ u.input \in {reportedSum("input"), Absent}
          /\ u.input = Absent => reportedSum("input") = 0
          /\ u.output \in {reportedSum("output"), Absent}
          /\ u.output = Absent => reportedSum("output") = 0
          /\ \A field \in Pools : u[field] = IF saw(field) THEN reportedSum(field) ELSE Absent
      <3>1. reportedSum("input") # Absent /\ reportedSum("output") # Absent
        BY <1>1, <1>5, SumIsANumber
      <3>2. ~totals.sawUsage => reportedSum("input") = 0 /\ reportedSum("output") = 0
        BY <1>6 DEF Totalled, Counted
      <3> QED
        BY <2>1, <3>1, <3>2 DEF Totalled
    <2>4. totals.meta # Absent => \E i \in DOMAIN turns : totals.meta = turns[i].report.meta
      BY DEF Totalled
    <2>5. /\ mapUsage(u, totals.meta).input + mapUsage(u, totals.meta).served
               + mapUsage(u, totals.meta).created = reportedSum("input")
          /\ mapUsage(u, totals.meta).output = reportedSum("output")
      BY <1>1, <2>3, <2>4, UsageIsPriced
    <2> QED
      BY <2>2, <2>5, BilledIsWhole
  <1> QED
    BY <1>7, <1>8

LEMMA InitIsPriced ==
  ASSUME Init
  PROVE  Summed /\ Totalled /\ TokensArePricedOnce
  <1>1. turns = <<>> /\ totals = noTotals /\ result = Absent /\ DOMAIN turns = {} /\ Len(turns) = 0
    BY DEF Init
  <1>2. \A field : reportedSum(field) = 0
    <2> TAKE field
    <2> DEFINE w == [i \in DOMAIN turns |-> safeTokenCount(turns[i].report[field])]
    <2>1. w \in [1..0 -> Nat]
      BY <1>1
    <2>2. reportedSum(field) = total(w)
      BY DEF reportedSum
    <2> HIDE DEF w
    <2>3. w \in Seq(Nat) /\ Len(w) = 0
      BY <2>1
    <2>4. PICK f \in [0..Len(w) -> Nat] : f[0] = 0 /\ total(w) = f[Len(w)]
      BY <2>3, TotalUnfolds
    <2> QED
      BY <2>2, <2>3, <2>4
  <1>3. \A field : ~saw(field)
    BY <1>1 DEF saw
  <1>4. Summed
    BY <1>1, <1>2, <1>3 DEF Summed
  <1>5. Totalled
    BY <1>1, <1>2, <1>3 DEF Totalled, noTotals, Pools, billedTurns
  <1> QED
    BY <1>1, <1>4, <1>5 DEF TokensArePricedOnce

\* For every provider whose counts are whole, every number of turns, and on either
\* path, with a repair or without: each input token the provider reported is priced
\* in one pool, and a billed amount is the whole bill (mapUsage, stepTotalsToUsage,
\* billedUsdOf).
THEOREM PricedOnce ==
  ASSUME CountsAreWhole
  PROVE  Spec => []TokensArePricedOnce
  <1> DEFINE PricedInv == Summed /\ Totalled /\ TokensArePricedOnce
  <1>1. Init => PricedInv
    BY InitIsPriced
  <1>2. Shape /\ Types /\ PricedInv /\ [Next]_vars => PricedInv'
    <2> SUFFICES ASSUME Shape, Types, PricedInv, [Next]_vars PROVE PricedInv'
      OBVIOUS
    <2>1. CASE Turn \/ Repairs
      BY <2>1, TurnIsAdded DEF TokensArePricedOnce
    <2>2. CASE Answers \/ FallsBack \/ RepairReturns \/ UNCHANGED vars
      <3>1. turns' = turns /\ totals' = totals /\ options' = options
        BY <2>2, ReturnTypes
      <3>2. /\ billedTurns' = billedTurns /\ \A field : reportedSum(field)' = reportedSum(field)
            /\ \A field : saw(field)' <=> saw(field)
            /\ \A i : count(i)' = count(i)
        BY <3>1 DEF billedTurns, reportedSum, saw, count
      <3>3. Summed' /\ Totalled'
        BY <3>1, <3>2 DEF Summed, Totalled, splits, SplitsInput
      <3>4. TokensArePricedOnce'
        <4>1. CASE Answers \/ FallsBack \/ RepairReturns
          BY <4>1, ReturnIsPriced
        <4>2. CASE UNCHANGED vars
          BY <3>1, <3>2, <4>2 DEF vars, TokensArePricedOnce
        <4> QED
          BY <2>2, <4>1, <4>2
      <3> QED
        BY <3>3, <3>4
    <2> QED
      BY <2>1, <2>2 DEF Next
  <1> HIDE DEF PricedInv
  <1>3. PricedInv => TokensArePricedOnce
    BY DEF PricedInv
  <1> QED
    BY <1>1, <1>2, <1>3, TypesHold, PTL DEF Spec

=============================================================================
