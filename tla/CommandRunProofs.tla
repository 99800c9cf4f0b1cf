--------------------------- MODULE CommandRunProofs ---------------------------
(***************************************************************************)
(* Theorems about CommandRun: for any commands, answers and caller's       *)
(* signals.                                                                *)
(***************************************************************************)
EXTENDS CommandRun, FiniteSetTheorems, WellFoundedInduction, TLAPS

-----------------------------------------------------------------------------
(* The records of settled units (StopVerdict). *)

\* An answer makes a record.
LEMMA AnsweredType == \A class \in Classes, score \in Int : answered(class, score) \in Record
  BY DEF answered, Record, Marks

\* So does the placeholder of a rejection, whatever it was.
LEMMA PlaceholderType == \A code, sig : placeholderFor(rejectionKind(code, sig)) \in Record
  <1>1. crashPlaceholder \in Record
    BY DEF crashPlaceholder, Record, Marks, Classes, NoScore
  <1>2. withDeadlineMark(crashPlaceholder) \in Record
    BY <1>1 DEF withDeadlineMark, Record, Marks
  <1>3. abortedPlaceholder \in Record
    BY DEF abortedPlaceholder, Record, Marks, Classes, NoScore
  <1> QED
    BY <1>1, <1>2, <1>3 DEF placeholderFor, rejectionKind

-----------------------------------------------------------------------------
(***************************************************************************)
(* The invariant: which agents may be in flight beside the records left,   *)
(* and what a record tells of the signal.                                  *)
(***************************************************************************)
N == Len(def.weights)

Left(r) == \/ ~r.synthesized /\ r.marks = {}
           \/ r = crashPlaceholder
           \/ r = abortedPlaceholder /\ signal = "aborted"
           \/ r = withDeadlineMark(crashPlaceholder) /\ signal = "deadline"

RecordsTell == \A i \in DOMAIN outcomes : Left(outcomes[i])

\* In order: the settled agents come first, all but the last of them answered,
\* and one that is in flight is the next and has only answers before it.
InOrder ==
    \E k \in 0..N :
        /\ DOMAIN outcomes = 1..k
        /\ running \subseteq {k + 1}
        /\ \A i \in 1..(k - 1) : ~outcomes[i].synthesized
        /\ running # {} => \A i \in 1..k : ~outcomes[i].synthesized

PanelInv ==
    /\ running \intersect DOMAIN outcomes = {}
    /\ pc = "preflight" => running = {} /\ DOMAIN outcomes = {}
    /\ pc \in {"await", "returned"} =>
          IF def.sequential THEN InOrder ELSE running \union DOMAIN outcomes = Agents
    /\ pc \in {"await", "returned"} /\ single => \A i \in DOMAIN outcomes : ~outcomes[i].synthesized
    /\ pc = "returned" => running = {} /\ ~(def.sequential /\ more)
    /\ pc = "threw" /\ ~single =>
          \A i \in DOMAIN outcomes : isCrashRecord(outcomes[i]) /\ ~stopReached(outcomes[i])

IInv == TypeOK /\ RecordsTell /\ PanelInv

\* How many agents a command has.
LEMMA AgentsType == ASSUME TypeOK PROVE def \in Command /\ N \in Nat
  BY CommandsAssumption DEF TypeOK, Command, N

\* The records that a rejection may leave, and when.
LEMMA RejectionLeaves ==
  ASSUME signal \in Signals, NEW code
  PROVE  Left(placeholderFor(rejectionKind(code, signal)))
  BY DEF Left, placeholderFor, rejectionKind, isRunStopAbort, isDeadlineSignal, Signals

\* The invariant holds when execute() is called.
LEMMA InitIInv == Init => IInv
  <1> SUFFICES ASSUME Init PROVE IInv
    OBVIOUS
  <1>1. outcomes = <<>> /\ DOMAIN outcomes = {} /\ outcomes \in [DOMAIN outcomes -> Record]
    BY DEF Init
  <1>2. TypeOK
    BY <1>1, CallerSignalsAssumption DEF Init, TypeOK
  <1>3. RecordsTell
    BY <1>1 DEF RecordsTell
  <1>4. PanelInv
    BY <1>1 DEF Init, PanelInv
  <1> QED
    BY <1>2, <1>3, <1>4 DEF IInv

\* A failed check preserves the invariant.
LEMMA PreflightFailsInv == ASSUME IInv, PreflightFails PROVE IInv'
  <1>1. TypeOK'
    BY DEF IInv, TypeOK, PreflightFails, Agents
  <1>2. RecordsTell'
    BY DEF IInv, RecordsTell, Left, PreflightFails
  <1>3. PanelInv'
    BY DEF IInv, PanelInv, PreflightFails, single
  <1> QED
    BY <1>1, <1>2, <1>3 DEF IInv

\* Dispatching the first agents preserves the invariant.
LEMMA DispatchInv == ASSUME IInv, Dispatch PROVE IInv'
  <1>1. TypeOK'
    BY DEF IInv, TypeOK, Dispatch, Agents
  <1>2. RecordsTell'
    BY DEF IInv, RecordsTell, Left, Dispatch
  <1>3. DOMAIN outcomes = {} /\ DOMAIN outcomes' = {}
    BY DEF IInv, PanelInv, Dispatch
  <1>4. CASE def.sequential
    <2>1. InOrder'
      <3>1. N' = N /\ N \in Nat
        BY AgentsType DEF IInv, Dispatch, N
      <3>2. DOMAIN outcomes' = 1..0 /\ running' \subseteq {0 + 1}
        BY <1>3, <1>4 DEF Dispatch
      <3>3. /\ \A i \in 1..(0 - 1) : ~outcomes'[i].synthesized
            /\ \A i \in 1..0 : ~outcomes'[i].synthesized
        OBVIOUS
      <3>4. 0 \in 0..N'
        BY <3>1
      <3> QED
        BY <3>2, <3>3, <3>4 DEF InOrder
    <2> QED
      BY <1>1, <1>2, <1>3, <1>4, <2>1 DEF IInv, PanelInv, Dispatch
  <1>5. CASE ~def.sequential
    BY <1>1, <1>2, <1>3, <1>5 DEF IInv, PanelInv, Dispatch, Agents
  <1> QED
    BY <1>4, <1>5

\* Dispatching the next agent preserves the invariant.
LEMMA DispatchNextInv == ASSUME IInv, DispatchNext PROVE IInv'
  <1>1. PICK k \in 0..N : /\ DOMAIN outcomes = 1..k
                          /\ \A i \in 1..k : ~outcomes[i].synthesized
    BY DEF IInv, PanelInv, DispatchNext, InOrder, more
  <1>2. N \in Nat /\ N' = N /\ Agents' = Agents /\ Agents = 1..N
    BY AgentsType DEF IInv, DispatchNext, N, Agents
  <1>3. Cardinality(DOMAIN outcomes) = k
    BY <1>1, <1>2, FS_Interval
  <1>4. k + 1 \in Agents
    BY <1>1, <1>2 DEF DispatchNext, more
  <1>5. running' = {k + 1} /\ outcomes' = outcomes
    BY <1>3 DEF DispatchNext
  <1>6. TypeOK'
    BY <1>2, <1>4, <1>5 DEF IInv, TypeOK, DispatchNext
  <1>7. RecordsTell'
    BY DEF IInv, RecordsTell, Left, DispatchNext
  <1>8. InOrder'
    BY <1>1, <1>2, <1>5 DEF InOrder
  <1>9. running' \intersect DOMAIN outcomes' = {}
    BY <1>1, <1>5
  <1> QED
    BY <1>6, <1>7, <1>8, <1>9 DEF IInv, PanelInv, DispatchNext, single

\* An agent that leaves a record preserves the invariant, if one alone leaves an
\* answer or ends the command.
LEMMA SettlesInv ==
  ASSUME IInv, NEW i, NEW r \in Record, settles(i, r), Left(r),
         \/ pc' = pc /\ thrown' = thrown /\ (single => ~r.synthesized)
         \/ single /\ pc' = "threw" /\ thrown' \in {"CANCELLED", "other"}
  PROVE  IInv'
  <1>1. /\ i \in running /\ i \in Agents
        /\ running' = running \ {i}
        /\ DOMAIN outcomes' = DOMAIN outcomes \union {i}
        /\ outcomes'[i] = r
        /\ \A j \in DOMAIN outcomes : j # i /\ outcomes'[j] = outcomes[j]
        /\ def' = def /\ signal' = signal /\ pc = "await"
    BY DEF settles, IInv, TypeOK, PanelInv
  <1>2. Agents' = Agents /\ single' = single /\ N' = N
    BY <1>1 DEF Agents, single, N
  <1>3. outcomes' \in [DOMAIN outcomes' -> Record]
    BY <1>1 DEF settles, IInv, TypeOK
  <1>4. TypeOK'
    BY <1>1, <1>2, <1>3 DEF IInv, TypeOK
  <1>5. RecordsTell'
    BY <1>1 DEF IInv, RecordsTell, Left
  <1>6. running' \intersect DOMAIN outcomes' = {}
    BY <1>1 DEF IInv, PanelInv
  <1>7. CASE def.sequential
    <2>1. PICK k \in 0..N : /\ DOMAIN outcomes = 1..k
                            /\ running \subseteq {k + 1}
                            /\ \A j \in 1..k : ~outcomes[j].synthesized
      BY <1>1, <1>7 DEF IInv, PanelInv, InOrder
    <2>2. i = k + 1 /\ running' = {} /\ k + 1 \in 0..N
      BY <1>1, <2>1, AgentsType DEF Agents, N, IInv
    <2>3. DOMAIN outcomes' = 1..(k + 1)
      BY <1>1, <2>1, <2>2
    <2>4. \A j \in 1..((k + 1) - 1) : ~outcomes'[j].synthesized
      BY <1>1, <2>1, <2>2
    <2>5. InOrder'
      BY <1>2, <2>2, <2>3, <2>4 DEF InOrder
    <2> QED
      BY <1>1, <1>2, <1>4, <1>5, <1>6, <1>7, <2>5 DEF IInv, PanelInv
  <1>8. CASE ~def.sequential
    BY <1>1, <1>2, <1>4, <1>5, <1>6, <1>8 DEF IInv, PanelInv
  <1> QED
    BY <1>7, <1>8

\* However an agent settles, the invariant is preserved.
LEMMA AgentSettlesInv == ASSUME IInv, AgentSettles PROVE IInv'
  <1>1. ASSUME NEW i \in running, Answer(i) PROVE IInv'
    <2>1. PICK a \in Answers : settles(i, answered(a.class, a.score))
      BY <1>1 DEF Answer
    <2>2. answered(a.class, a.score) \in Record
      BY AnsweredType, AgentAnswersAssumption
    <2>3. /\ Left(answered(a.class, a.score))
          /\ ~answered(a.class, a.score).synthesized
      BY DEF Left, answered
    <2> QED
      BY <1>1, <2>1, <2>2, <2>3, SettlesInv DEF Answer
  <1>2. ASSUME NEW i \in running, NEW code \in {"CANCELLED", "other"}, Reject(i, code) PROVE IInv'
    <2> DEFINE r == placeholderFor(rejectionKind(code, signal))
    <2>1. r \in Record
      BY PlaceholderType
    <2>2. Left(r)
      BY RejectionLeaves DEF IInv, TypeOK
    <2>3. settles(i, r)
      BY <1>2 DEF Reject
    <2>4. IF single THEN pc' = "threw" /\ thrown' = code ELSE UNCHANGED <<pc, thrown>>
      BY <1>2 DEF Reject
    <2> HIDE DEF r
    <2> QED
      BY <1>2, <2>1, <2>2, <2>3, <2>4, SettlesInv
  <1> QED
    BY <1>1, <1>2 DEF AgentSettles

\* Returning preserves the invariant.
LEMMA ReturnInv == ASSUME IInv, Return PROVE IInv'
  <1>1. TypeOK'
    BY DEF IInv, TypeOK, Return, Agents
  <1>2. RecordsTell'
    BY DEF IInv, RecordsTell, Left, Return
  <1>3. InOrder => InOrder'
    BY DEF InOrder, Return, N
  <1> QED
    BY <1>1, <1>2, <1>3 DEF IInv, PanelInv, Return, over, single, Agents, more

\* Throwing over a panel of crashes preserves the invariant.
LEMMA AllCrashedInv == ASSUME IInv, AllCrashed PROVE IInv'
  <1>1. TypeOK'
    BY DEF IInv, TypeOK, AllCrashed, Agents
  <1>2. RecordsTell'
    BY DEF IInv, RecordsTell, Left, AllCrashed
  <1>3. \A i \in DOMAIN outcomes : isCrashRecord(outcomes[i]) /\ ~stopReached(outcomes[i])
    BY DEF AllCrashed, allCrashed, children
  <1> QED
    BY <1>1, <1>2, <1>3 DEF IInv, PanelInv, AllCrashed

\* The signal that fires preserves the invariant.
LEMMA SignalFiresInv ==
  ASSUME IInv, NEW kind \in {"aborted", "deadline"}, SignalFires(kind) PROVE IInv'
  <1>1. TypeOK'
    BY DEF IInv, TypeOK, SignalFires, Agents, Signals
  <1>2. RecordsTell'
    BY DEF IInv, RecordsTell, Left, SignalFires
  <1>3. InOrder => InOrder'
    BY DEF InOrder, SignalFires, N
  <1> QED
    BY <1>1, <1>2, <1>3 DEF IInv, PanelInv, SignalFires, single, Agents, more

\* No step breaks the invariant.
LEMMA NextIInv == ASSUME IInv, [Next]_vars PROVE IInv'
  <1>1. CASE UNCHANGED vars
    <2>1. TypeOK' /\ RecordsTell'
      BY <1>1 DEF vars, IInv, TypeOK, RecordsTell, Left, Agents
    <2>2. InOrder' = InOrder /\ more' = more
      BY <1>1 DEF vars, InOrder, N, more, Agents
    <2> QED
      BY <1>1, <2>1, <2>2 DEF vars, IInv, PanelInv, Agents, single
  <1> QED
    BY <1>1, PreflightFailsInv, DispatchInv, DispatchNextInv, AgentSettlesInv, ReturnInv,
       AllCrashedInv, SignalFiresInv DEF Next, ExecutorStep

LEMMA Invariance == SafeSpec => []IInv
  BY InitIInv, NextIInv, PTL DEF SafeSpec

-----------------------------------------------------------------------------
\* Every variable keeps its type.
THEOREM TypeCorrect == SafeSpec => []TypeOK
  <1>1. IInv => TypeOK
    BY DEF IInv
  <1> QED
    BY <1>1, Invariance, PTL

\* A command that returns dispatched its whole panel, or stopped at a rejection
\* that ended the order.
LEMMA AccountedState == ASSUME IInv PROVE PanelAccounted
  <1> SUFFICES ASSUME pc = "returned"
               PROVE  \/ DOMAIN outcomes = Agents
                      \/ /\ def.sequential
                         /\ \E last \in Agents :
                               /\ DOMAIN outcomes = 1..last
                               /\ outcomes[last].synthesized
                               /\ \A i \in 1..(last - 1) : ~outcomes[i].synthesized
    BY DEF PanelAccounted, IInv, PanelInv
  <1>1. CASE ~def.sequential
    BY <1>1 DEF IInv, PanelInv
  <1>2. CASE def.sequential /\ DOMAIN outcomes # Agents
    <2>1. PICK k \in 0..N : /\ DOMAIN outcomes = 1..k
                            /\ \A i \in 1..(k - 1) : ~outcomes[i].synthesized
      BY <1>2 DEF IInv, PanelInv, InOrder
    <2>2. PICK i \in 1..k : outcomes[i].synthesized
      BY <1>2, <2>1 DEF IInv, PanelInv, more
    <2>3. i = k /\ k \in Agents
      BY <2>1, <2>2, AgentsType DEF Agents, N, IInv
    <2> QED
      BY <1>2, <2>1, <2>2, <2>3
  <1> QED
    BY <1>1, <1>2

\* PanelAccounted in every reachable state.
THEOREM Accounting == SafeSpec => []PanelAccounted
  BY AccountedState, Invariance, PTL

\* The class of a command of several agents is the one crash decides or, failing
\* a stop, the panel's.
LEMMA ResultClass ==
  ASSUME ~single
  PROVE  /\ Result.class = commandClass(outcomes)
         /\ ~Result.synthesized
         /\ Result.marks = containerMarkers(stopVerdict(children(outcomes)),
                                            \E c \in children(outcomes) : crashInside(c))
  BY DEF Result, containerOf, marked, answered

\* A panel without a stop is positive only if nothing in it is negative.
LEMMA PositivePanel ==
  ASSUME NEW o, panelClass(o) = "positive"
  PROVE  \A i \in DOMAIN o : o[i].class # "negative"
  BY DEF panelClass, classIn, scored

\* A negative without a score makes a panel without a stop negative.
LEMMA ScorelessNegative ==
  ASSUME NEW o, NEW i \in DOMAIN o, o[i].class = "negative", o[i].score = NoScore
  PROVE  panelClass(o) = "negative"
  <1>1. i \notin scored(o)
    BY DEF scored
  <1> QED
    BY <1>1 DEF panelClass, classIn

\* PositiveMeansWholePanel: only a whole panel, with no crash, no stop and no
\* negative in it, makes a command positive.
THEOREM WholePanel == SafeSpec => []PositiveMeansWholePanel
  <1>1. ASSUME IInv PROVE PositiveMeansWholePanel
    <2> SUFFICES ASSUME pc = "returned", ~single, Result.class = "positive"
                 PROVE  /\ DOMAIN outcomes = Agents
                        /\ \A i \in Agents : /\ ~outcomes[i].synthesized
                                             /\ outcomes[i].class # "negative"
                                             /\ ~stopReached(outcomes[i])
      BY DEF PositiveMeansWholePanel
    <2>1. stopVerdict(children(outcomes)) = "none" /\ panelClass(outcomes) = "positive"
      <3>1. commandClass(outcomes) = "positive"
        BY ResultClass
      <3>2. stopVerdict(children(outcomes)) \in {"aborted", "negative", "none"}
        BY DEF stopVerdict, stopVerdictWith
      <3> QED
        BY <3>1, <3>2 DEF commandClass
    <2>2. \A i \in DOMAIN outcomes : ~stopReached(outcomes[i])
      BY <2>1 DEF stopVerdict, stopVerdictWith, children
    <2>3. \A i \in DOMAIN outcomes : outcomes[i].class # "negative"
      BY <2>1, PositivePanel
    <2>4. \A i \in DOMAIN outcomes : ~outcomes[i].synthesized
      <3> SUFFICES ASSUME NEW i \in DOMAIN outcomes PROVE ~outcomes[i].synthesized
        OBVIOUS
      <3>1. Left(outcomes[i])
        BY <1>1 DEF IInv, RecordsTell
      <3>2. crashPlaceholder.class = "negative"
        BY DEF crashPlaceholder
      <3>3. withDeadlineMark(crashPlaceholder).class = "negative"
        BY DEF withDeadlineMark, crashPlaceholder
      <3>4. stopReached(abortedPlaceholder)
        BY DEF stopReached, abortedPlaceholder, isAbortedRecord
      <3> QED
        BY <2>2, <2>3, <3>1, <3>2, <3>3, <3>4 DEF Left
    <2>5. DOMAIN outcomes = Agents
      <3>1. N \in Nat /\ Agents = 1..N
        BY <1>1, AgentsType DEF IInv, Agents, N
      <3> QED
        BY <1>1, <2>4, <3>1, AccountedState DEF PanelAccounted
    <2> QED
      BY <2>2, <2>3, <2>4, <2>5
  <1> QED
    BY <1>1, Invariance, PTL

\* What a settled agent's record is: an answer that tells nothing, a crash, or
\* the trace of a stop.
LEMMA OutcomeTells ==
  ASSUME IInv, NEW i \in DOMAIN outcomes
  PROVE  /\ stopReached(outcomes[i]) => signal # "live"
         /\ stopReached(outcomes[i]) /\ ~crashInside(outcomes[i]) =>
               signal = "aborted" /\ isAbortedRecord(outcomes[i])
         /\ isCrashRecord(outcomes[i]) => crashInside(outcomes[i])
         /\ crashInside(outcomes[i]) => isCrashRecord(outcomes[i])
  <1>1. Left(outcomes[i])
    BY DEF IInv, RecordsTell
  <1> DEFINE r == outcomes[i]
  <1>2. CASE ~r.synthesized /\ r.marks = {}
    BY <1>2 DEF stopReached, isAbortedRecord, crashInside, isCrashRecord
  <1>3. CASE r = crashPlaceholder
    BY <1>3 DEF crashPlaceholder, stopReached, isAbortedRecord, crashInside, isCrashRecord
  <1>4. CASE r = abortedPlaceholder /\ signal = "aborted"
    BY <1>4 DEF abortedPlaceholder, stopReached, isAbortedRecord, crashInside, isCrashRecord
  <1>5. CASE r = withDeadlineMark(crashPlaceholder) /\ signal = "deadline"
    BY <1>5 DEF withDeadlineMark, crashPlaceholder, stopReached, isAbortedRecord, crashInside,
                isCrashRecord
  <1> QED
    BY <1>1, <1>2, <1>3, <1>4, <1>5 DEF Left

\* The answer of a command of one agent tells nothing.
LEMMA SingleAnswer ==
  ASSUME IInv, single, pc \in {"await", "returned"}, running = {}, ~(def.sequential /\ more)
  PROVE  ~Result.synthesized /\ Result.marks = {}
  <1>1. N = 1 /\ Agents = {1}
    BY DEF single, N, Agents
  <1>2. 1 \in DOMAIN outcomes /\ ~outcomes[1].synthesized
    <2>1. CASE def.sequential
      <3>1. DOMAIN outcomes = Agents
        BY <2>1 DEF IInv, PanelInv, more
      <3> QED
        BY <1>1, <3>1 DEF IInv, PanelInv
    <2>2. CASE ~def.sequential
      BY <1>1, <2>2 DEF IInv, PanelInv
    <2> QED
      BY <2>1, <2>2
  <1>3. Left(outcomes[1])
    BY <1>2 DEF IInv, RecordsTell
  <1>4. outcomes[1].marks = {}
    BY <1>2, <1>3 DEF Left, crashPlaceholder, abortedPlaceholder, withDeadlineMark
  <1> QED
    BY <1>2, <1>4 DEF Result

\* AbortedMeansNothingCrashed: a command reads ABORTED for a decision to stop and
\* nothing else.
THEOREM AbortedIsNoCrash == SafeSpec => []AbortedMeansNothingCrashed
  <1>1. ASSUME IInv PROVE AbortedMeansNothingCrashed
    <2> SUFFICES ASSUME pc = "returned", "run_stopped" \in Result.marks
                 PROVE  /\ signal = "aborted"
                        /\ \E i \in DOMAIN outcomes : isAbortedRecord(outcomes[i])
                        /\ \A i \in DOMAIN outcomes : ~isCrashRecord(outcomes[i])
      BY DEF AbortedMeansNothingCrashed
    <2>1. ~single
      BY <1>1, SingleAnswer DEF IInv, PanelInv
    <2>2. stopVerdict(children(outcomes)) = "aborted"
      BY <2>1, ResultClass DEF containerMarkers
    <2>3. /\ \E i \in DOMAIN outcomes : stopReached(outcomes[i])
          /\ \A i \in DOMAIN outcomes : ~crashInside(outcomes[i])
      BY <2>2 DEF stopVerdict, stopVerdictWith, children
    <2> QED
      BY <1>1, <2>3, OutcomeTells
  <1> QED
    BY <1>1, Invariance, PTL

\* ThrowLosesNoStop: an error carries no marks, and no stop is lost with it.
THEOREM ThrowIsNoStop == SafeSpec => []ThrowLosesNoStop
  <1>1. IInv => ThrowLosesNoStop
    BY DEF IInv, PanelInv, ThrowLosesNoStop
  <1> QED
    BY <1>1, Invariance, PTL

-----------------------------------------------------------------------------
(* A crash that came before the stop. *)

CrashLeft == \E i \in DOMAIN outcomes : isCrashRecord(outcomes[i])

\* A crash stays a crash, whatever happens after it.
LEMMA CrashStays == ASSUME IInv, CrashLeft, [Next]_vars PROVE CrashLeft'
  <1>1. PICK i \in DOMAIN outcomes : isCrashRecord(outcomes[i])
    BY DEF CrashLeft
  <1>2. ASSUME NEW j, NEW r, settles(j, r) PROVE CrashLeft'
    <2>1. i # j
      BY <1>1, <1>2 DEF settles, IInv, PanelInv
    <2>2. i \in DOMAIN outcomes' /\ outcomes'[i] = outcomes[i]
      BY <1>1, <1>2, <2>1 DEF settles
    <2> QED
      BY <1>1, <2>2 DEF CrashLeft
  <1>3. CASE AgentSettles
    BY <1>2, <1>3 DEF AgentSettles, Answer, Reject
  <1>4. CASE outcomes' = outcomes
    BY <1>1, <1>4 DEF CrashLeft
  <1> QED
    BY <1>3, <1>4 DEF Next, ExecutorStep, PreflightFails, Dispatch, DispatchNext, Return,
                      AllCrashed, SignalFires, vars

\* A crash makes a command negative, stopped or not.
LEMMA CrashIsNegative ==
  ASSUME IInv, CrashLeft, pc = "returned"
  PROVE  Result.class = "negative"
  <1>1. PICK i \in DOMAIN outcomes : isCrashRecord(outcomes[i])
    BY DEF CrashLeft
  <1>2. ~single
    BY <1>1 DEF IInv, PanelInv, isCrashRecord
  <1>3. crashInside(outcomes[i])
    BY <1>1, OutcomeTells
  <1>4. stopVerdict(children(outcomes)) \in {"negative", "none"}
    BY <1>3 DEF stopVerdict, stopVerdictWith, children
  <1>5. outcomes[i].class = "negative" /\ outcomes[i].score = NoScore
    <2>1. Left(outcomes[i])
      BY DEF IInv, RecordsTell
    <2> QED
      BY <1>1, <2>1 DEF Left, isCrashRecord, isAbortedRecord, crashPlaceholder,
                        abortedPlaceholder, withDeadlineMark
  <1>6. panelClass(outcomes) = "negative"
    BY <1>5, ScorelessNegative
  <1> QED
    BY <1>2, <1>4, <1>6, ResultClass DEF commandClass

\* CrashBeforeStopDecides: a stop that comes after a crash does not turn the
\* command into a stopped one.
THEOREM EarlierCrashDecides == SafeSpec => CrashBeforeStopDecides
  <1> DEFINE P == signal = "live" /\ \E i \in DOMAIN outcomes : outcomes[i].synthesized
             Q == pc = "returned" => Result.class = "negative"
  <1>1. ASSUME IInv, P PROVE CrashLeft
    <2>1. PICK i \in DOMAIN outcomes : outcomes[i].synthesized
      BY <1>1
    <2>2. outcomes[i] = crashPlaceholder
      BY <1>1, <2>1 DEF IInv, RecordsTell, Left
    <2> QED
      BY <2>1, <2>2 DEF CrashLeft, isCrashRecord, isAbortedRecord, crashPlaceholder
  <1>2. ASSUME IInv, CrashLeft, [Next]_vars PROVE CrashLeft'
    BY <1>2, CrashStays
  <1>3. ASSUME IInv, CrashLeft PROVE Q
    BY <1>3, CrashIsNegative
  <1> HIDE DEF P, Q
  <1>4. SafeSpec => [](P => []Q)
    BY <1>1, <1>2, <1>3, Invariance, PTL DEF SafeSpec
  <1> QED
    BY <1>4 DEF P, Q, CrashBeforeStopDecides

-----------------------------------------------------------------------------
(* The contract with the caller. *)

\* A rejection leaves the same record wherever it is classified.
LEMMA SameRejection ==
  \A code, sig : Unit!placeholderFor(Unit!rejectionKind(code, sig)) =
                    placeholderFor(rejectionKind(code, sig))
  BY DEF Unit!placeholderFor, Unit!rejectionKind, Unit!isRunStopAbort, Unit!isDeadlineSignal,
         Unit!withDeadlineMark, Unit!crashPlaceholder, Unit!abortedPlaceholder, Unit!NoScore,
         placeholderFor, rejectionKind, isRunStopAbort, isDeadlineSignal,
         withDeadlineMark, crashPlaceholder, abortedPlaceholder, NoScore

\* What a command returns is what its contract allows.
LEMMA ResultAllowed ==
  ASSUME IInv, Return
  PROVE  commandMayAnswer(Result, signal)
  <1>1. CASE single
    BY <1>1, SingleAnswer DEF Return, over, commandMayAnswer, mayAnswer, crashInside,
                              isCrashRecord, isAbortedRecord
  <1>2. CASE ~single
    <2> DEFINE verdict == stopVerdict(children(outcomes))
               crashed == \E c \in children(outcomes) : crashInside(c)
    <2>1. /\ Result.class = commandClass(outcomes) /\ ~Result.synthesized
          /\ Result.marks = containerMarkers(verdict, crashed)
      BY <1>2, ResultClass
    <2>2. crashed => Result.class = "negative"
      <3> SUFFICES ASSUME crashed PROVE commandClass(outcomes) = "negative"
        BY <2>1
      <3>1. PICK i \in DOMAIN outcomes : crashInside(outcomes[i])
        BY DEF children
      <3>2. isCrashRecord(outcomes[i])
        BY <3>1, OutcomeTells
      <3>3. outcomes[i].class = "negative" /\ outcomes[i].score = NoScore
        <4>1. Left(outcomes[i])
          BY DEF IInv, RecordsTell
        <4> QED
          BY <3>2, <4>1 DEF Left, isCrashRecord, isAbortedRecord, crashPlaceholder,
                            abortedPlaceholder, withDeadlineMark
      <3>4. panelClass(outcomes) = "negative"
        BY <3>3, ScorelessNegative
      <3>5. verdict \in {"negative", "none"}
        BY <3>1 DEF stopVerdict, stopVerdictWith, children
      <3> QED
        BY <3>4, <3>5 DEF commandClass
    <2>3. verdict = "aborted" => signal = "aborted" /\ Result.class = "neutral" /\ ~crashed
      <3> SUFFICES ASSUME verdict = "aborted"
                   PROVE  signal = "aborted" /\ commandClass(outcomes) = "neutral" /\ ~crashed
        BY <2>1
      <3>1. /\ \E i \in DOMAIN outcomes : stopReached(outcomes[i])
            /\ \A i \in DOMAIN outcomes : ~crashInside(outcomes[i])
        BY DEF stopVerdict, stopVerdictWith, children
      <3> QED
        BY <3>1, OutcomeTells DEF commandClass, children
    <2>4. verdict = "negative" => signal # "live" /\ crashed
      <3> SUFFICES ASSUME verdict = "negative" PROVE signal # "live" /\ crashed
        OBVIOUS
      <3>1. /\ \E i \in DOMAIN outcomes : stopReached(outcomes[i])
            /\ crashed
        BY DEF stopVerdict, stopVerdictWith, children
      <3> QED
        BY <3>1, OutcomeTells
    <2> HIDE DEF verdict, crashed
    <2>5. /\ "deadline" \notin Result.marks
          /\ "run_stopped" \in Result.marks => verdict = "aborted"
          /\ "run_stopped_partial" \in Result.marks => verdict = "negative"
          /\ "child_crashed" \in Result.marks <=> crashed
      BY <2>1 DEF containerMarkers
    <2>6. crashInside(Result) => crashed
      BY <2>1, <2>4, <2>5 DEF crashInside, isCrashRecord
    <2> QED
      BY <2>1, <2>2, <2>3, <2>4, <2>5, <2>6 DEF commandMayAnswer, mayAnswer
  <1> QED
    BY <1>1, <1>2

\* A step of a command is a step of a unit, or none.
LEMMA UnitStep == ASSUME IInv, [Next]_vars PROVE [Unit!Next]_(Unit!vars)
  <1>1. CASE Return
    <2>1. commandMayAnswer(Result, signal)
      BY <1>1, ResultAllowed
    <2>2. Result' = Result
      BY <1>1 DEF Return, Result, single, containerOf, commandClass, panelClass, scored, children,
                  band, passAt, warnAt
    <2> QED
      BY <1>1, <2>1, <2>2 DEF Return, over, Unit!Next, Unit!Replies
  <1>2. CASE AllCrashed
    BY <1>2, SameRejection DEF AllCrashed, over, Unit!Next, Unit!Throws
  <1>3. CASE PreflightFails
    BY <1>3, SameRejection DEF PreflightFails, Unit!Next, Unit!Throws
  <1>4. CASE AgentSettles
    <2>1. CASE UNCHANGED <<pc, thrown>>
      BY <1>4, <2>1 DEF AgentSettles, Answer, Reject, settles, Unit!vars
    <2>2. ASSUME NEW i, NEW code \in {"CANCELLED", "other"}, Reject(i, code), single
          PROVE  Unit!Next
      BY <2>2, SameRejection DEF Reject, settles, Unit!Next, Unit!Throws
    <2> QED
      BY <1>4, <2>1, <2>2 DEF AgentSettles, Answer, Reject
  <1>5. CASE Dispatch \/ DispatchNext
    BY <1>5 DEF Dispatch, DispatchNext, Unit!vars
  <1>6. ASSUME NEW kind \in {"aborted", "deadline"}, SignalFires(kind) PROVE Unit!Next
    BY <1>6 DEF SignalFires, Unit!Next, Unit!Fires, Unit!Signals
  <1>7. CASE UNCHANGED vars
    <2>1. Result' = Result
      BY <1>7 DEF vars, Result, single, containerOf, commandClass, panelClass, scored, children,
                  band, passAt, warnAt
    <2> QED
      BY <1>7, <2>1 DEF vars, Unit!vars
  <1> QED
    BY <1>1, <1>2, <1>3, <1>4, <1>5, <1>6, <1>7 DEF Next, ExecutorStep

\* KeepsUnitContract: what pipelines and workflows assume of a command.
THEOREM Refinement == SafeSpec => KeepsUnitContract
  <1>1. Init => Unit!Init
    BY CallerSignalsAssumption DEF Init, Unit!Init, Unit!Signals, Signals
  <1>2. ASSUME IInv, [Next]_vars PROVE [Unit!Next]_(Unit!vars)
    BY <1>2, UnitStep
  <1> QED
    BY <1>1, <1>2, Invariance, PTL DEF SafeSpec, KeepsUnitContract, Unit!SafeSpec

\* What a panel tells (PanelTells): its records are the agents it dispatched, a
\* positive class rests on all of them, and neither a stop nor a throw hides a crash
\* or a stop.
THEOREM PanelIsTold == SafeSpec => []PanelTells
  BY Accounting, WholePanel, AbortedIsNoCrash, ThrowIsNoStop, PTL DEF PanelTells

\* The command keeps its word (CommandKeepsItsWord): its contract, and a crash that
\* came before the stop decides.
THEOREM KeepsWord == SafeSpec => CommandKeepsItsWord
  BY Refinement, EarlierCrashDecides, PTL DEF CommandKeepsItsWord

-----------------------------------------------------------------------------
(* Scores: sums, quotients and extremes of what is lowered are not raised. *)

\* Induction: a set of numbers with 0 and the successors of its elements is
\* all of them.
LEMMA Induction ==
  ASSUME NEW S \in SUBSET Nat, 0 \in S, \A n \in S : n + 1 \in S
  PROVE  S = Nat
  <1> DEFINE R == {ss \in Nat \X Nat : ss[1] < ss[2]}
  <1> SUFFICES ASSUME Nat \ S # {} PROVE FALSE
    OBVIOUS
  <1>1. IsWellFoundedOn(R, Nat)
    BY NatLessThanWellFounded DEF OpToRel
  <1>2. \A x, y \in Nat : <<y, x>> \in R <=> y < x
    OBVIOUS
  <1> HIDE DEF R
  <1>3. PICK m \in Nat \ S : \A n \in Nat \ S : ~(<<n, m>> \in R)
    BY <1>1, WFMin
  <1>4. \A n \in Nat \ S : ~(n < m)
    BY <1>2, <1>3
  <1>5. m # 0 /\ m - 1 \in Nat /\ m - 1 < m
    BY <1>3
  <1>6. m - 1 \in S
    BY <1>4, <1>5
  <1>7. (m - 1) + 1 = m
    BY <1>3
  <1> QED
    BY <1>3, <1>6, <1>7

\* The partial sums of value over S, for a panel of L.
PartialSums(L, S, value, f) ==
    /\ f \in [0..L -> Int] /\ f[0] = 0
    /\ \A n \in 1..L : f[n] = f[n - 1] + (IF n \in S THEN value[n] ELSE 0)

\* A sum is the last of its partial sums.
LEMMA SumUnfolds ==
  ASSUME NEW c, Len(c.weights) \in Nat, NEW S, NEW value, \A i \in S : value[i] \in Int
  PROVE  \E f : /\ PartialSums(Len(c.weights), S, value, f)
                /\ summed(c, S, value) = f[Len(c.weights)]
  <1> DEFINE L == Len(c.weights)
  <1> DEFINE part(n) == IF n \in S THEN value[n] ELSE 0
  <1> DEFINE P(f, n) ==
        f = [k \in 0..n |-> IF k = 0 THEN 0 ELSE f[k - 1] + (IF k \in S THEN value[k] ELSE 0)]
  <1> DEFINE Q(n) == \E f \in [0..n -> Int] : P(f, n)
  <1> DEFINE T == {n \in Nat : Q(n)}
  <1>1. L \in Nat /\ \A n : part(n) \in Int
    OBVIOUS
  <1>2. T = Nat
    <2>1. 0 \in T
      <3>1. P([k \in 0..0 |-> 0], 0)
        OBVIOUS
      <3>2. [k \in 0..0 |-> 0] \in [0..0 -> Int]
        OBVIOUS
      <3> QED
        BY <3>1, <3>2
    <2>2. ASSUME NEW n \in T PROVE n + 1 \in T
      <3>1. n \in Nat
        OBVIOUS
      <3>2. PICK f \in [0..n -> Int] : P(f, n)
        OBVIOUS
      <3> DEFINE g == [k \in 0..(n + 1) |-> IF k = n + 1 THEN f[n] + part(n + 1) ELSE f[k]]
      <3>3. f[n] \in Int /\ part(n + 1) \in Int
        BY <1>1, <3>1
      <3>4. g \in [0..(n + 1) -> Int]
        <4> HIDE DEF part
        <4> QED
          BY <3>1, <3>3
      <3>5. \A k \in 0..n : f[k] = IF k = 0 THEN 0 ELSE f[k - 1] + part(k)
        BY <3>2
      <3>6. \A k \in 0..(n + 1) : g[k] = IF k = 0 THEN 0 ELSE g[k - 1] + part(k)
        <4> HIDE DEF part
        <4> TAKE k \in 0..(n + 1)
        <4>1. CASE k = n + 1
          <5>1. g[k] = f[n] + part(n + 1) /\ g[k - 1] = f[n] /\ k # 0
            BY <4>1, <3>1
          <5> QED
            BY <4>1, <5>1
        <4>2. CASE k # n + 1
          <5>1. k \in 0..n /\ g[k] = f[k]
            BY <4>2, <3>1
          <5>2. CASE k = 0
            BY <5>1, <5>2, <3>5
          <5>3. CASE k # 0
            <6>1. k - 1 \in 0..n /\ g[k - 1] = f[k - 1]
              BY <5>1, <5>3, <3>1
            <6> QED
              BY <5>1, <5>3, <6>1, <3>5
          <5> QED
            BY <5>2, <5>3
        <4> QED
          BY <4>1, <4>2
      <3> HIDE DEF g
      <3>7. P(g, n + 1)
        BY <3>4, <3>6
      <3>8. Q(n + 1)
        BY <3>4, <3>7
      <3> HIDE DEF Q
      <3> QED
        BY <3>1, <3>8
    <2>3. T \in SUBSET Nat
      OBVIOUS
    <2> HIDE DEF T
    <2> QED
      BY <2>1, <2>2, <2>3, Induction
  <1>3. PICK f \in [0..L -> Int] : P(f, L)
    <2>1. L \in T
      BY <1>1, <1>2
    <2> QED
      BY <2>1
  <1> DEFINE g == CHOOSE f1 : P(f1, L)
  <1>4. P(g, L)
    BY <1>3
  <1>5. summed(c, S, value) = g[L]
    BY DEF summed
  <1>6. \A k \in 0..L : g[k] = IF k = 0 THEN 0 ELSE g[k - 1] + part(k)
    <2> HIDE DEF g
    <2> QED
      BY <1>4
  <1>7. DOMAIN g = 0..L /\ g = [k \in DOMAIN g |-> g[k]]
    <2> HIDE DEF g
    <2> QED
      BY <1>4
  <1> HIDE DEF g, P, L, part
  <1> DEFINE U == {n \in Nat : n <= L => g[n] \in Int}
  <1>8. U = Nat
    <2>1. 0 \in U
      BY <1>1, <1>6
    <2>2. ASSUME NEW n \in U PROVE n + 1 \in U
      <3>1. n \in Nat
        OBVIOUS
      <3> SUFFICES ASSUME n + 1 <= L PROVE g[n + 1] \in Int
        BY <3>1
      <3>2. n + 1 \in 0..L /\ n + 1 # 0 /\ (n + 1) - 1 = n
        BY <1>1, <3>1
      <3>3. g[n] \in Int /\ part(n + 1) \in Int
        BY <1>1, <3>1
      <3>4. g[n + 1] = g[n] + part(n + 1)
        BY <1>6, <3>2
      <3> QED
        BY <3>3, <3>4
    <2>3. U \in SUBSET Nat
      OBVIOUS
    <2> HIDE DEF U
    <2> QED
      BY <2>1, <2>2, <2>3, Induction
  <1>9. \A k \in 0..L : g[k] \in Int
    BY <1>1, <1>8
  <1>10. g[0] = 0 /\ \A n \in 1..L : g[n] = g[n - 1] + part(n)
    BY <1>1, <1>6
  <1>11. g \in [0..L -> Int]
    BY <1>7, <1>9
  <1>12. PartialSums(L, S, value, g)
    BY <1>10, <1>11 DEF PartialSums, part
  <1> QED
    BY <1>5, <1>12 DEF L

\* What is summed lower is a lower sum.
LEMMA SumMonotone ==
  ASSUME NEW c, Len(c.weights) \in Nat, NEW S, NEW v, NEW w,
         \A i \in S : v[i] \in Int /\ w[i] \in Int /\ v[i] <= w[i]
  PROVE  /\ summed(c, S, v) \in Int /\ summed(c, S, w) \in Int
         /\ summed(c, S, v) <= summed(c, S, w)
  <1> DEFINE L == Len(c.weights)
  <1> DEFINE a(n) == IF n \in S THEN v[n] ELSE 0
  <1> DEFINE b(n) == IF n \in S THEN w[n] ELSE 0
  <1>0. (\A i \in S : v[i] \in Int) /\ (\A i \in S : w[i] \in Int)
    OBVIOUS
  <1>f. PICK f : PartialSums(L, S, v, f) /\ summed(c, S, v) = f[L]
    BY <1>0, SumUnfolds
  <1>g. PICK g : PartialSums(L, S, w, g) /\ summed(c, S, w) = g[L]
    BY <1>0, SumUnfolds
  <1>1. f \in [0..L -> Int] /\ f[0] = 0 /\ \A n \in 1..L : f[n] = f[n - 1] + a(n)
    BY <1>f DEF PartialSums
  <1>2. g \in [0..L -> Int] /\ g[0] = 0 /\ \A n \in 1..L : g[n] = g[n - 1] + b(n)
    BY <1>g DEF PartialSums
  <1>3. \A n : a(n) \in Int /\ b(n) \in Int /\ a(n) <= b(n)
    OBVIOUS
  <1>4. L \in Nat
    OBVIOUS
  <1> HIDE DEF L, a, b
  <1> DEFINE T == {n \in Nat : n <= L => f[n] <= g[n]}
  <1>5. T = Nat
    <2>1. 0 \in T
      BY <1>1, <1>2
    <2>2. ASSUME NEW n \in T PROVE n + 1 \in T
      <3>1. n \in Nat
        OBVIOUS
      <3> SUFFICES ASSUME n + 1 <= L PROVE f[n + 1] <= g[n + 1]
        BY <3>1
      <3>2. n + 1 \in 1..L /\ n \in 0..L /\ (n + 1) - 1 = n
        BY <1>4, <3>1
      <3>3. f[n + 1] = f[n] + a(n + 1) /\ g[n + 1] = g[n] + b(n + 1)
        BY <1>1, <1>2, <3>2
      <3>4. f[n] \in Int /\ g[n] \in Int /\ f[n] <= g[n]
        BY <1>1, <1>2, <3>1, <3>2
      <3> QED
        BY <1>3, <3>3, <3>4
    <2>3. T \in SUBSET Nat
      OBVIOUS
    <2> HIDE DEF T
    <2> QED
      BY <2>1, <2>2, <2>3, Induction
  <1>6. L \in 0..L /\ f[L] <= g[L]
    <2>1. L \in T
      <3> HIDE DEF T
      <3> QED
        BY <1>4, <1>5
    <2>2. L <= L /\ L \in 0..L
      BY <1>4
    <2> QED
      BY <2>1, <2>2
  <1> QED
    BY <1>f, <1>g, <1>1, <1>2, <1>6

\* A sum over some agents of what is positive is positive.
LEMMA SumIsPositive ==
  ASSUME NEW c, Len(c.weights) \in Nat, NEW S, S \subseteq 1..Len(c.weights), S # {}, NEW v,
         \A i \in S : v[i] \in Int /\ v[i] > 0
  PROVE  summed(c, S, v) \in Nat \ {0}
  <1> DEFINE L == Len(c.weights)
  <1> DEFINE a(n) == IF n \in S THEN v[n] ELSE 0
  <1>0. \A i \in S : v[i] \in Int
    OBVIOUS
  <1>f. PICK f : PartialSums(L, S, v, f) /\ summed(c, S, v) = f[L]
    BY <1>0, SumUnfolds
  <1>1. f \in [0..L -> Int] /\ f[0] = 0 /\ \A n \in 1..L : f[n] = f[n - 1] + a(n)
    BY <1>f DEF PartialSums
  <1>2. \A n : a(n) \in Nat /\ (n \in S => a(n) > 0)
    <2> TAKE n
    <2>1. CASE n \in S
      BY <2>1
    <2>2. CASE n \notin S
      BY <2>2
    <2> QED
      BY <2>1, <2>2
  <1>3. L \in Nat
    OBVIOUS
  <1> HIDE DEF a
  <1> DEFINE T == {n \in Nat : n <= L => /\ f[n] >= 0 /\ \A i \in S : i <= n => f[n] > 0}
  <1>4. T = Nat
    <2>1. 0 \in T
      BY <1>1
    <2>2. ASSUME NEW n \in T PROVE n + 1 \in T
      <3>1. n \in Nat
        OBVIOUS
      <3> SUFFICES ASSUME n + 1 <= L
                   PROVE  /\ f[n + 1] >= 0 /\ \A i \in S : i <= n + 1 => f[n + 1] > 0
        BY <3>1
      <3>2. n + 1 \in 1..L /\ n \in 0..L /\ (n + 1) - 1 = n
        BY <1>3, <3>1
      <3>3. f[n + 1] = f[n] + a(n + 1)
        BY <1>1, <3>2
      <3>4. f[n] \in Int /\ f[n] >= 0 /\ \A i \in S : i <= n => f[n] > 0
        BY <1>1, <3>1, <3>2
      <3>5. a(n + 1) \in Nat
        BY <1>2
      <3>6. ASSUME NEW i \in S, i <= n + 1 PROVE f[n + 1] > 0
        <4>1. CASE i = n + 1
          BY <1>2, <3>3, <3>4, <3>5, <4>1
        <4>2. CASE i # n + 1
          <5>1. f[n] > 0
            BY <3>1, <3>4, <3>6, <4>2
          <5> QED
            BY <3>3, <3>4, <3>5, <5>1
        <4> QED
          BY <4>1, <4>2
      <3> QED
        BY <3>3, <3>4, <3>5, <3>6
    <2>3. T \in SUBSET Nat
      OBVIOUS
    <2> HIDE DEF T
    <2> QED
      BY <2>1, <2>2, <2>3, Induction
  <1>5. PICK i \in S : i <= L
    <2>1. PICK i \in S : i \in 1..L
      OBVIOUS
    <2> QED
      BY <2>1
  <1>6. L \in 0..L /\ f[L] > 0
    BY <1>3, <1>4, <1>5
  <1> QED
    BY <1>f, <1>1, <1>6

\* Dividing by more than nothing keeps the order.
LEMMA RoundedMonotone ==
  ASSUME NEW a \in Int, NEW b \in Int, NEW d \in Nat \ {0}, a <= b
  PROVE  /\ rounded(a, d) \in Int /\ rounded(b, d) \in Int
         /\ rounded(a, d) <= rounded(b, d)
  <1> DEFINE q == (2 * a + d) \div (2 * d)
  <1> DEFINE r == (2 * b + d) \div (2 * d)
  <1>1. PICK e \in Nat \ {0} : e = 2 * d
    OBVIOUS
  <1>2. PICK x \in Int, y \in Int : x = 2 * a + d /\ y = 2 * b + d /\ x <= y
    OBVIOUS
  <1>3. q = x \div e /\ r = y \div e
    BY <1>1, <1>2
  <1>4. /\ x \div e \in Int /\ y \div e \in Int
        /\ x = e * (x \div e) + (x % e) /\ y = e * (y \div e) + (y % e)
        /\ x % e \in 0..(e - 1) /\ y % e \in 0..(e - 1)
    OBVIOUS
  <1>5. x \div e <= y \div e
    <2> SUFFICES ASSUME ~(x \div e <= y \div e) PROVE FALSE
      OBVIOUS
    <2>1. PICK m \in Int, n \in Int, k \in Int, l \in Int :
            m = x \div e /\ n = y \div e /\ k = x % e /\ l = y % e
      BY <1>4
    <2>2. m >= n + 1 /\ x = e * m + k /\ y = e * n + l /\ k >= 0 /\ l < e
      BY <1>4, <2>1
    <2>3. e * m >= e * (n + 1)
      BY <2>2
    <2>4. e * (n + 1) = e * n + e
      OBVIOUS
    <2>5. PICK s \in Int, t \in Int : s = e * m /\ t = e * n
      OBVIOUS
    <2> QED
      BY <1>2, <2>2, <2>3, <2>4, <2>5
  <1> QED
    BY <1>3, <1>4, <1>5 DEF rounded

\* The least and the greatest of some agents' scores.
LEMMA ExtremeScores ==
  ASSUME NEW L \in Nat, NEW S, S \subseteq 1..L, S # {}, NEW v, \A i \in S : v[i] \in Int
  PROVE  /\ \E i \in S : v[i] = Min({v[j] : j \in S}) /\ \A j \in S : v[i] <= v[j]
         /\ \E i \in S : v[i] = Max({v[j] : j \in S}) /\ \A j \in S : v[i] >= v[j]
  <1> DEFINE least(n) == \E i \in S : i <= n /\ \A j \in S : j <= n => v[i] <= v[j]
  <1> DEFINE most(n) == \E i \in S : i <= n /\ \A j \in S : j <= n => v[i] >= v[j]
  <1> DEFINE T == {n \in Nat : (\E i \in S : i <= n) => least(n) /\ most(n)}
  <1>1. T = Nat
    <2>1. 0 \in T
      OBVIOUS
    <2>2. ASSUME NEW n \in T PROVE n + 1 \in T
      <3>1. n \in Nat /\ \A i \in S : i \in Nat
        OBVIOUS
      <3>2. CASE n + 1 \notin S
        <4>1. \A i \in S : i <= n + 1 <=> i <= n
          BY <3>1, <3>2
        <4> QED
          BY <3>1, <4>1
      <3>3. CASE n + 1 \in S
        <4>1. \A i \in S : i <= n + 1 <=> i <= n \/ i = n + 1
          BY <3>1, <3>3
        <4>2. v[n + 1] \in Int /\ n + 1 <= n + 1
          BY <3>1, <3>3
        <4>3. CASE \E i \in S : i <= n
          <5>1. PICK i \in S : i <= n /\ \A j \in S : j <= n => v[i] <= v[j]
            BY <4>3
          <5>2. PICK k \in S : k <= n /\ \A j \in S : j <= n => v[k] >= v[j]
            BY <4>3
          <5>3. v[i] \in Int /\ v[k] \in Int
            OBVIOUS
          <5>4. least(n + 1)
            <6>1. CASE v[i] <= v[n + 1]
              BY <4>1, <5>1, <6>1
            <6>2. CASE ~(v[i] <= v[n + 1])
              <7>1. \A j \in S : j <= n + 1 => v[n + 1] <= v[j]
                <8> TAKE j \in S
                <8>1. v[j] \in Int
                  OBVIOUS
                <8> QED
                  BY <4>1, <4>2, <5>1, <5>3, <6>2, <8>1
              <7> QED
                BY <3>3, <4>2, <7>1
            <6> QED
              BY <6>1, <6>2
          <5>5. most(n + 1)
            <6>1. CASE v[k] >= v[n + 1]
              BY <4>1, <5>2, <6>1
            <6>2. CASE ~(v[k] >= v[n + 1])
              <7>1. \A j \in S : j <= n + 1 => v[n + 1] >= v[j]
                <8> TAKE j \in S
                <8>1. v[j] \in Int
                  OBVIOUS
                <8> QED
                  BY <4>1, <4>2, <5>2, <5>3, <6>2, <8>1
              <7> QED
                BY <3>3, <4>2, <7>1
            <6> QED
              BY <6>1, <6>2
          <5> HIDE DEF least, most
          <5> QED
            BY <3>1, <5>4, <5>5
        <4>4. CASE ~ \E i \in S : i <= n
          <5>1. \A j \in S : j <= n + 1 => j = n + 1
            BY <4>1, <4>4
          <5>2. \A j \in S : j <= n + 1 => v[n + 1] <= v[j] /\ v[n + 1] >= v[j]
            BY <4>2, <5>1
          <5>3. least(n + 1) /\ most(n + 1)
            BY <3>3, <4>2, <5>2
          <5> HIDE DEF least, most
          <5> QED
            BY <3>1, <5>3
        <4> QED
          BY <4>3, <4>4
      <3> QED
        BY <3>2, <3>3
    <2>3. T \in SUBSET Nat
      OBVIOUS
    <2> HIDE DEF T
    <2> QED
      BY <2>1, <2>2, <2>3, Induction
  <1>2. \A j \in S : j <= L
    <2> TAKE j \in S
    <2>1. j \in 1..L
      OBVIOUS
    <2> QED
      BY <2>1
  <1>3. least(L) /\ most(L)
    <2>1. L \in T
      <3> HIDE DEF T
      <3> QED
        BY <1>1
    <2> HIDE DEF least, most
    <2> QED
      BY <1>2, <2>1
  <1>4. PICK i \in S : \A j \in S : v[i] <= v[j]
    BY <1>2, <1>3
  <1>5. PICK k \in S : \A j \in S : v[k] >= v[j]
    BY <1>2, <1>3
  <1> DEFINE V == {v[j] : j \in S}
  <1>6. v[i] \in V /\ v[k] \in V
    OBVIOUS
  <1>7. (\A y \in V : v[i] <= y) /\ (\A y \in V : v[k] >= y)
    BY <1>4, <1>5
  <1>8. Min(V) \in V /\ \A y \in V : Min(V) <= y
    <2> HIDE DEF V
    <2>1. \E x \in V : \A y \in V : x <= y
      BY <1>6, <1>7
    <2> QED
      BY <2>1 DEF Min
  <1>9. Max(V) \in V /\ \A y \in V : Max(V) >= y
    <2> HIDE DEF V
    <2>1. \E x \in V : \A y \in V : x >= y
      BY <1>6, <1>7
    <2> QED
      BY <2>1 DEF Max
  <1> QED
    BY <1>8, <1>9

valuesOf(v, S) == {v[i] : i \in S}

\* Lowering scores lowers the extremes.
LEMMA ExtremesMonotone ==
  ASSUME NEW L \in Nat, NEW S, S \subseteq 1..L, S # {}, NEW v, NEW w,
         \A i \in S : v[i] \in Int /\ w[i] \in Int /\ v[i] <= w[i]
  PROVE  LET V == valuesOf(v, S)  W == valuesOf(w, S)
         IN /\ Min(V) \in Int /\ Min(W) \in Int /\ Min(V) <= Min(W)
            /\ Max(V) \in Int /\ Max(W) \in Int /\ Max(V) <= Max(W)
  <1> DEFINE V == valuesOf(v, S)
  <1> DEFINE W == valuesOf(w, S)
  <1>1. (\A i \in S : v[i] \in Int) /\ (\A i \in S : w[i] \in Int)
    OBVIOUS
  <1>2. /\ \E i \in S : v[i] = Min(V) /\ \A j \in S : v[i] <= v[j]
        /\ \E i \in S : v[i] = Max(V) /\ \A j \in S : v[i] >= v[j]
    BY <1>1, ExtremeScores DEF valuesOf
  <1>3. /\ \E i \in S : w[i] = Min(W) /\ \A j \in S : w[i] <= w[j]
        /\ \E i \in S : w[i] = Max(W) /\ \A j \in S : w[i] >= w[j]
    BY <1>1, ExtremeScores DEF valuesOf
  <1> HIDE DEF V, W
  <1>4. PICK i \in S, k \in S : /\ v[i] = Min(V) /\ \A j \in S : v[i] <= v[j]
                                /\ v[k] = Max(V) /\ \A j \in S : v[k] >= v[j]
    BY <1>2
  <1>5. PICK m \in S, n \in S : /\ w[m] = Min(W) /\ \A j \in S : w[m] <= w[j]
                                /\ w[n] = Max(W) /\ \A j \in S : w[n] >= w[j]
    BY <1>3
  <1>6. v[i] <= v[m] /\ v[m] <= w[m]
    BY <1>4
  <1>7. v[k] <= w[k] /\ w[k] <= w[n]
    BY <1>1, <1>5
  <1>8. /\ v[i] \in Int /\ v[k] \in Int /\ v[m] \in Int
        /\ w[m] \in Int /\ w[n] \in Int /\ w[k] \in Int
    BY <1>1
  <1>9. v[i] <= w[m] /\ v[k] <= w[n]
    BY <1>6, <1>7, <1>8
  <1> QED
    BY <1>4, <1>5, <1>8, <1>9 DEF V, W

\* However scores are put together, lowering them does not raise the whole.
LEMMA AggregateMonotone ==
  ASSUME def \in Command, NEW o, NEW p, NEW S, S = scored(o), S = scored(p), S \subseteq 1..N, S # {},
         \A i \in S : o[i].score \in Int /\ p[i].score \in Int /\ p[i].score <= o[i].score
  PROVE  /\ aggregateScores(def, o) \in Int /\ aggregateScores(def, p) \in Int
         /\ aggregateScores(def, p) <= aggregateScores(def, o)
  <1> DEFINE v == [i \in S |-> p[i].score]
  <1> DEFINE w == [i \in S |-> o[i].score]
  <1> DEFINE weight == [i \in S |-> usableWeight(def.weights[i])]
  <1> DEFINE vw == [i \in S |-> v[i] * weight[i]]
  <1> DEFINE ww == [i \in S |-> w[i] * weight[i]]
  <1>1. N \in Nat /\ Len(def.weights) \in Nat /\ N = Len(def.weights)
    BY DEF Command, N
  <1>2. \A i \in S : v[i] \in Int /\ w[i] \in Int /\ v[i] <= w[i]
    OBVIOUS
  <1>3. \A i \in S : weight[i] \in Nat \ {0}
    <2> TAKE i \in S
    <2>1. def.weights[i] \in Int
      <3>1. i \in 1..Len(def.weights) /\ def.weights \in Seq(Int)
        BY <1>1 DEF Command
      <3> QED
        BY <3>1
    <2> QED
      BY <2>1 DEF usableWeight
  <1> HIDE DEF v, w, weight
  <1>4. \A i \in S : vw[i] \in Int /\ ww[i] \in Int /\ vw[i] <= ww[i]
    <2> TAKE i \in S
    <2>1. PICK a \in Int, b \in Int, k \in Nat : a = v[i] /\ b = w[i] /\ k = weight[i] /\ a <= b
      BY <1>2, <1>3
    <2>2. a * k \in Int /\ b * k \in Int /\ a * k <= b * k
      BY <2>1
    <2>3. vw[i] = a * k /\ ww[i] = b * k
      BY <2>1
    <2> QED
      BY <2>2, <2>3
  <1> HIDE DEF vw, ww
  <1>5. /\ summed(def, S, v) \in Int /\ summed(def, S, w) \in Int
        /\ summed(def, S, v) <= summed(def, S, w)
    BY <1>1, <1>2, SumMonotone
  <1>6. /\ summed(def, S, vw) \in Int /\ summed(def, S, ww) \in Int
        /\ summed(def, S, vw) <= summed(def, S, ww)
    BY <1>1, <1>4, SumMonotone
  <1>7. summed(def, S, weight) \in Nat \ {0}
    <2>1. \A i \in S : weight[i] \in Int /\ weight[i] > 0
      BY <1>3
    <2>2. S \subseteq 1..Len(def.weights)
      BY <1>1
    <2> QED
      BY <1>1, <2>1, <2>2, SumIsPositive
  <1>8. Cardinality(S) \in Nat \ {0}
    <2>1. IsFiniteSet(1..N)
      <3>1. 1 \in Int /\ N \in Int
        BY <1>1
      <3> QED
        BY <3>1, FS_Interval
    <2>2. IsFiniteSet(S)
      BY <2>1, FS_Subset
    <2> QED
      BY <2>2, FS_EmptySet, FS_CardinalityType
  <1> DEFINE V == valuesOf(v, S)
  <1> DEFINE W == valuesOf(w, S)
  <1>9. /\ Min(V) \in Int /\ Min(W) \in Int /\ Min(V) <= Min(W)
        /\ Max(V) \in Int /\ Max(W) \in Int /\ Max(V) <= Max(W)
    <2>1. PICK n \in Nat : n = N
      BY <1>1
    <2>2. S \subseteq 1..n
      BY <2>1
    <2> QED
      BY <1>2, <2>2, ExtremesMonotone
  <1> HIDE DEF V, W
  <1>11. \A q \in {p, o} :
           LET score == [i \in S |-> q[i].score]
               weighed == [i \in S |-> score[i] * weight[i]]
           IN aggregateScores(def, q) =
                CASE def.method = "min" -> Min({score[i] : i \in S})
                  [] def.method = "max" -> Max({score[i] : i \in S})
                  [] def.method = "sum" -> summed(def, S, score)
                  [] def.method = "average" -> rounded(summed(def, S, score), Cardinality(S))
                  [] def.method = "weighted_average" ->
                       rounded(summed(def, S, weighed), summed(def, S, weight))
    <2> TAKE q \in {p, o}
    <2>1. scored(q) = S
      OBVIOUS
    <2> QED
      BY <2>1 DEF aggregateScores, weight
  <1>12. /\ aggregateScores(def, p) =
              CASE def.method = "min" -> Min(V)
                [] def.method = "max" -> Max(V)
                [] def.method = "sum" -> summed(def, S, v)
                [] def.method = "average" -> rounded(summed(def, S, v), Cardinality(S))
                [] def.method = "weighted_average" ->
                     rounded(summed(def, S, vw), summed(def, S, weight))
         /\ aggregateScores(def, o) =
              CASE def.method = "min" -> Min(W)
                [] def.method = "max" -> Max(W)
                [] def.method = "sum" -> summed(def, S, w)
                [] def.method = "average" -> rounded(summed(def, S, w), Cardinality(S))
                [] def.method = "weighted_average" ->
                     rounded(summed(def, S, ww), summed(def, S, weight))
    BY <1>11 DEF v, w, vw, ww, V, W, valuesOf
  <1>13. /\ rounded(summed(def, S, v), Cardinality(S)) \in Int
         /\ rounded(summed(def, S, w), Cardinality(S)) \in Int
         /\ rounded(summed(def, S, v), Cardinality(S)) <= rounded(summed(def, S, w), Cardinality(S))
    BY <1>5, <1>8, RoundedMonotone
  <1>14. /\ rounded(summed(def, S, vw), summed(def, S, weight)) \in Int
         /\ rounded(summed(def, S, ww), summed(def, S, weight)) \in Int
         /\ rounded(summed(def, S, vw), summed(def, S, weight))
              <= rounded(summed(def, S, ww), summed(def, S, weight))
    BY <1>6, <1>7, RoundedMonotone
  <1>15. def.method \in Methods
    BY DEF Command
  <1> QED
    BY <1>5, <1>9, <1>12, <1>13, <1>14, <1>15 DEF Methods

\* A panel with one score lowered.
LEMMA LoweredScore ==
  ASSUME TypeOK, NEW i \in scored(outcomes), NEW s \in Int, s # NoScore, s < outcomes[i].score
  PROVE  LET p == [outcomes EXCEPT ![i].score = s]
         IN rank(panelClass(p)) <= rank(panelClass(outcomes))
  <1> DEFINE o == outcomes
  <1> DEFINE p == [o EXCEPT ![i].score = s]
  <1> DEFINE S == scored(o)
  <1>1. def \in Command /\ N \in Nat /\ DOMAIN o \subseteq 1..N /\ o \in [DOMAIN o -> Record]
    BY AgentsType DEF TypeOK, Agents, N
  <1>2. i \in DOMAIN o /\ o[i] \in Record
    BY <1>1 DEF scored
  <1>3. /\ DOMAIN p = DOMAIN o
        /\ \A j \in DOMAIN o : /\ p[j].class = o[j].class
                               /\ p[j].score = IF j = i THEN s ELSE o[j].score
    <2>1. p = [o EXCEPT ![i] = [o[i] EXCEPT !.score = s]]
      OBVIOUS
    <2>2. [o[i] EXCEPT !.score = s].class = o[i].class /\ [o[i] EXCEPT !.score = s].score = s
      BY <1>2 DEF Record
    <2> HIDE DEF p
    <2> QED
      BY <1>2, <2>1, <2>2
  <1> HIDE DEF p
  <1>4. scored(p) = S /\ S \subseteq DOMAIN o /\ i \in S
    BY <1>2, <1>3 DEF scored
  <1>5. \A j \in S : o[j].score \in Int /\ p[j].score \in Int /\ p[j].score <= o[j].score
    <2> TAKE j \in S
    <2>1. j \in DOMAIN o /\ o[j] \in Record
      BY <1>1, <1>4
    <2>2. o[j].score \in Int
      BY <2>1 DEF Record
    <2>3. p[j].score = IF j = i THEN s ELSE o[j].score
      BY <1>3, <2>1
    <2> QED
      BY <2>2, <2>3
  <1>6. S \subseteq 1..N /\ S # {}
    BY <1>1, <1>4
  <1>7. PICK a \in Int, b \in Int : /\ a = aggregateScores(def, p) /\ b = aggregateScores(def, o)
                                   /\ a <= b
    BY <1>1, <1>4, <1>5, <1>6, AggregateMonotone
  <1>8. \A class, T : T \subseteq DOMAIN o => (classIn(p, T, class) <=> classIn(o, T, class))
    BY <1>3 DEF classIn
  <1>9. passAt \in Int /\ warnAt \in Int
    BY <1>1 DEF passAt, warnAt, Command
  <1>10. /\ band(a) \in {"negative", "conditional", "positive"}
         /\ band(b) \in {"negative", "conditional", "positive"}
         /\ band(b) = "negative" => band(a) = "negative"
         /\ band(b) = "conditional" => band(a) \in {"negative", "conditional"}
    BY <1>7, <1>9 DEF band
  <1> DEFINE unscored == classIn(o, DOMAIN o \ S, "negative")
  <1> DEFINE judged == classIn(o, S, "negative")
  <1> DEFINE class(fromScore) ==
        IF fromScore = "negative" \/ unscored THEN "negative"
        ELSE IF fromScore = "positive" /\ judged THEN "conditional" ELSE fromScore
  <1>11. panelClass(o) = class(band(b)) /\ panelClass(p) = class(band(a))
    <2>1. panelClass(o) = class(band(b))
      BY <1>6, <1>7 DEF panelClass
    <2>2. /\ classIn(p, DOMAIN p \ S, "negative") <=> unscored
          /\ classIn(p, S, "negative") <=> judged
      BY <1>3, <1>4, <1>8
    <2>3. panelClass(p) = class(band(a))
      <3> HIDE DEF unscored, judged
      <3> QED
        BY <1>4, <1>6, <1>7, <2>2 DEF panelClass
    <2> QED
      BY <2>1, <2>3
  <1> HIDE DEF unscored, judged
  <1>12. rank("negative") = 0 /\ rank("conditional") = 1 /\ rank("positive") = 2
    BY DEF rank
  <1>13. rank(class(band(a))) <= rank(class(band(b)))
    BY <1>10, <1>12
  <1> QED
    BY <1>11, <1>13 DEF p

\* For any panel, weights, thresholds and way of putting scores together: with any
\* agent's score lowered, the class would be the same or worse (aggregateScores,
\* usableWeight, CommandExecutor.aggregateResults).
THEOREM BetterIsNotWorse == SafeSpec => []BetterScoresNeverReadWorse
  <1>1. TypeOK => BetterScoresNeverReadWorse
    <2> SUFFICES ASSUME TypeOK, NEW i \in scored(outcomes), NEW a \in Answers,
                        a.score # NoScore, a.score < outcomes[i].score
                 PROVE  rank(panelClass([outcomes EXCEPT ![i].score = a.score]))
                          <= rank(panelClass(outcomes))
      BY DEF BetterScoresNeverReadWorse
    <2>1. a.score \in Int
      BY AgentAnswersAssumption
    <2> QED
      BY <2>1, LoweredScore
  <1> QED
    BY <1>1, TypeCorrect, PTL

===============================================================================
