------------------------------ MODULE CommandRun ------------------------------
(***************************************************************************)
(* One run of a command (executor/CommandExecutor.ts): preflight checks,   *)
(* then its agents, alone, one after the other or all at once, and the     *)
(* verdict over what they left.                                            *)
(*                                                                         *)
(* An agent is its place in the list of refs. It is in flight from its     *)
(* dispatch until its promise settles; everything the executor does in     *)
(* between runs without yielding.                                          *)
(*                                                                         *)
(* Abstracted: an agent is one call that answers or rejects, its           *)
(* resolution in the registry included; a preflight check passes or fails; *)
(* recommendations, metrics and the scale of scores are left out.          *)
(***************************************************************************)
EXTENDS StageGate, Sequences

CONSTANTS
    Commands,       \* the authored commands a run may be started with
    Answers,        \* the [class, score] pairs an agent's answer may carry
    CallerSignals   \* what the caller's signal may say when execute() is called

Methods == {"average", "weighted_average", "min", "max", "sum"}

\* weights has one entry for each agent: the weight authored for it, of which one
\* that is not positive stands for every unusable one. A threshold may be Absent.
Command == [weights : Seq(Int), sequential : BOOLEAN, preflight : BOOLEAN,
            pass : Int, warn : Int, method : Methods]

ASSUME CommandsAssumption == Commands \subseteq Command
ASSUME AgentAnswersAssumption == Answers \subseteq [class : Classes, score : Int]
ASSUME CallerSignalsAssumption == CallerSignals \subseteq Signals

VARIABLES
    def,       \* the command being run
    signal,    \* the caller's abort signal
    pc,        \* "preflight", "await" while agents run, "returned" or "threw"
    running,   \* the agents in flight
    outcomes,  \* the record each settled agent left
    thrown     \* the code of the error execute() threw

vars == <<def, signal, pc, running, outcomes, thrown>>

Agents == 1..Len(def.weights)
single == Len(def.weights) = 1

-----------------------------------------------------------------------------
(***************************************************************************)
(* Aggregation (aggregateResults) over o, which maps agents to records; c  *)
(* is the command.                                                         *)
(***************************************************************************)
scored(o) == {i \in DOMAIN o : o[i].score # NoScore}

classIn(o, agents, class) == \E i \in agents : o[i].class = class

\* An unusable weight counts as 1, as one that is not authored does.
\* (mistake: it is used as it stands)
rawWeight(authored) == authored
usableWeight(authored) == IF authored > 0 THEN authored ELSE 1

\* Math.round of a / b.
rounded(a, b) == (2 * a + b) \div (2 * b)

\* The sum over the agents in S, in their order.
summed(c, S, value) ==
    LET sum[n \in 0..Len(c.weights)] ==
          IF n = 0 THEN 0 ELSE sum[n - 1] + (IF n \in S THEN value[n] ELSE 0)
    IN  sum[Len(c.weights)]

aggregateScores(c, o) ==
    LET S == scored(o)
        score == [i \in S |-> o[i].score]
        weight == [i \in S |-> usableWeight(c.weights[i])]
        weighed == [i \in S |-> score[i] * weight[i]]
    IN  CASE c.method = "min" -> Min({score[i] : i \in S})
          [] c.method = "max" -> Max({score[i] : i \in S})
          [] c.method = "sum" -> summed(c, S, score)
          [] c.method = "average" -> rounded(summed(c, S, score), Cardinality(S))
          [] c.method = "weighted_average" ->
               rounded(summed(c, S, weighed), summed(c, S, weight))

\* DEFAULT_PASS_THRESHOLD and DEFAULT_WARN_THRESHOLD, where none is authored.
passAt == IF def.pass = Absent THEN 75 ELSE def.pass
warnAt == IF def.warn = Absent THEN 50 ELSE def.warn

band(score) == IF score >= passAt THEN "positive"
               ELSE IF score >= warnAt THEN "conditional" ELSE "negative"

\* The class of a panel no stop reached. A negative that no score speaks for
\* fails the panel, one that has a score keeps it from being positive.
\* (mistake: agents without a score are left out of a scored panel)
panelClassScoredOnly(o) ==
    IF scored(o) # {} THEN band(aggregateScores(def, o))
    ELSE IF classIn(o, DOMAIN o, "negative") THEN "negative"
    ELSE IF classIn(o, DOMAIN o, "conditional") THEN "conditional" ELSE "positive"

panelClass(o) ==
    LET negativeIn(agents) == classIn(o, agents, "negative")
    IN  IF scored(o) = {}
        THEN IF negativeIn(DOMAIN o) THEN "negative"
             ELSE IF classIn(o, DOMAIN o, "conditional") THEN "conditional" ELSE "positive"
        ELSE LET fromScore == band(aggregateScores(def, o))
             IN  IF fromScore = "negative" \/ negativeIn(DOMAIN o \ scored(o)) THEN "negative"
                 ELSE IF fromScore = "positive" /\ negativeIn(scored(o)) THEN "conditional"
                 ELSE fromScore

\* (mistake: rejections are classified after all have settled, by the signal only)
childrenLate(o) ==
    {IF o[i].synthesized /\ signal = "aborted" THEN abortedPlaceholder ELSE o[i] : i \in DOMAIN o}

children(o) == {o[i] : i \in DOMAIN o}

\* The class of any panel: crash decides in one that a stop reached.
\* (mistake: scores and classes judge a stopped panel as well)
commandClassUnstopped(o) == panelClass(o)

commandClass(o) ==
    CASE stopVerdict(children(o)) = "aborted"  -> "neutral"
      [] stopVerdict(children(o)) = "negative" -> "negative"
      [] stopVerdict(children(o)) = "none"     -> panelClass(o)

\* The result of the command. A command of one agent is its agent's result.
Result == IF single THEN outcomes[1]
          ELSE containerOf(answered(commandClass(outcomes),
                                    IF scored(outcomes) = {} THEN NoScore
                                    ELSE aggregateScores(def, outcomes)),
                           children(outcomes))

-----------------------------------------------------------------------------
Init ==
    /\ def \in Commands
    /\ signal \in CallerSignals
    /\ pc = "preflight"
    /\ running = {}
    /\ outcomes = <<>>
    /\ thrown = "none"

PreflightFails ==
    /\ pc = "preflight" /\ def.preflight
    /\ pc' = "threw" /\ thrown' = "other"
    /\ UNCHANGED <<def, signal, running, outcomes>>

\* The first agent of a command that runs them in order, otherwise all.
Dispatch ==
    /\ pc = "preflight"
    /\ pc' = "await"
    /\ running' = IF def.sequential THEN Agents \intersect {1} ELSE Agents
    /\ UNCHANGED <<def, signal, outcomes, thrown>>

\* Agents are left that a command running them in order still has to dispatch:
\* it goes on until one rejects.
\* (mistake: it counts one agent too many)
moreOneTooMany == /\ Cardinality(DOMAIN outcomes) <= Len(def.weights)
                  /\ \A i \in DOMAIN outcomes : ~outcomes[i].synthesized

more == /\ DOMAIN outcomes # Agents
        /\ \A i \in DOMAIN outcomes : ~outcomes[i].synthesized

\* No look at the signal: an agent dispatched after a stop is what rejects.
DispatchNext ==
    /\ pc = "await" /\ def.sequential /\ running = {} /\ more
    /\ running' = {Cardinality(DOMAIN outcomes) + 1}
    /\ UNCHANGED <<def, signal, pc, outcomes, thrown>>

settles(i, r) ==
    /\ pc = "await" /\ i \in running
    /\ running' = running \ {i}
    /\ outcomes' = [j \in DOMAIN outcomes \union {i} |-> IF j = i THEN r ELSE outcomes[j]]
    /\ UNCHANGED <<def, signal>>

Answer(i) ==
    /\ \E a \in Answers : settles(i, answered(a.class, a.score))
    /\ UNCHANGED <<pc, thrown>>

\* A rejection of the only agent leaves execute() as it is; one of a panel is
\* contained, in the record its kind calls for.
Reject(i, code) ==
    /\ settles(i, placeholderFor(rejectionKind(code, signal)))
    /\ IF single THEN pc' = "threw" /\ thrown' = code
                 ELSE UNCHANGED <<pc, thrown>>

AgentSettles == \E i \in running : Answer(i) \/ Reject(i, "CANCELLED") \/ Reject(i, "other")

\* The agents are done with: the loop or Promise.allSettled is over.
\* (mistakes: the first rejection settles the panel, as with Promise.all; a panel run
\* in order is only done with when all of it ran)
overAtRejection == /\ pc = "await" /\ ~(def.sequential /\ more)
                   /\ running = {} \/ \E i \in DOMAIN outcomes : outcomes[i].synthesized

overWhenComplete == pc = "await" /\ running = {} /\ DOMAIN outcomes = Agents

over == pc = "await" /\ running = {} /\ ~(def.sequential /\ more)

\* assertNotAllCrashed: nothing but crashes, and no stop reached any.
\* (mistake: the crashes of a deadline are thrown as well)
allCrashedAny(S) == S # {} /\ \A r \in S : isCrashRecord(r)

allCrashed(S) == S # {} /\ \A r \in S : isCrashRecord(r) /\ ~stopReached(r)

Return ==
    /\ over
    /\ single \/ ~allCrashed(children(outcomes))
    /\ pc' = "returned"
    /\ UNCHANGED <<def, signal, running, outcomes, thrown>>

AllCrashed ==
    /\ over /\ ~single
    /\ allCrashed(children(outcomes))
    /\ pc' = "threw" /\ thrown' = "other"
    /\ UNCHANGED <<def, signal, running, outcomes>>

\* The executor awaits in its checks too, so the signal may fire there.
SignalFires(kind) ==
    /\ pc \in {"preflight", "await"} /\ signal = "live"
    /\ signal' = kind
    /\ UNCHANGED <<def, pc, running, outcomes, thrown>>

ExecutorStep == PreflightFails \/ Dispatch \/ DispatchNext \/ Return \/ AllCrashed

Next == ExecutorStep \/ AgentSettles \/ SignalFires("aborted") \/ SignalFires("deadline")

\* What is ready runs, and an agent in flight settles, its requests being bounded
\* by a timeout. No signal has to fire.
Fairness == WF_vars(ExecutorStep) /\ WF_vars(AgentSettles)

SafeSpec == Init /\ [][Next]_vars
Spec == SafeSpec /\ Fairness

-----------------------------------------------------------------------------
(* Properties. *)

TypeOK ==
    /\ def \in Commands
    /\ signal \in Signals
    /\ pc \in {"preflight", "await", "returned", "threw"}
    /\ running \subseteq Agents
    /\ DOMAIN outcomes \subseteq Agents /\ outcomes \in [DOMAIN outcomes -> Record]
    /\ thrown \in {"none", "CANCELLED", "other"}

\* A command that returns has a record of each agent it dispatched, and it
\* dispatched all of them unless, running them in order, it met a rejection: then
\* the rejection is the last record, and the agents before it answered.
PanelAccounted ==
    pc = "returned" =>
        /\ running = {}
        /\ \/ DOMAIN outcomes = Agents
           \/ /\ def.sequential
              /\ \E last \in Agents :
                    /\ DOMAIN outcomes = 1..last
                    /\ outcomes[last].synthesized
                    /\ \A i \in 1..(last - 1) : ~outcomes[i].synthesized

\* "A gate that could not run its full panel must not emit an unqualified
\* positive": every agent of a positive command answered, none of them was
\* negative and no stop reached any.
PositiveMeansWholePanel ==
    pc = "returned" /\ ~single /\ Result.class = "positive" =>
        /\ DOMAIN outcomes = Agents
        /\ \A i \in Agents : /\ ~outcomes[i].synthesized
                             /\ outcomes[i].class # "negative"
                             /\ ~stopReached(outcomes[i])

\* A command reads as stopped, without a verdict, only after a decision to stop
\* that reached one of its agents, and when none of them crashed.
AbortedMeansNothingCrashed ==
    pc = "returned" /\ "run_stopped" \in Result.marks =>
        /\ signal = "aborted"
        /\ \E i \in DOMAIN outcomes : isAbortedRecord(outcomes[i])
        /\ \A i \in DOMAIN outcomes : ~isCrashRecord(outcomes[i])

\* A crash that came before the stop stays a crash: whatever is stopped after it,
\* the command comes out negative or throws.
CrashBeforeStopDecides ==
    []((signal = "live" /\ \E i \in DOMAIN outcomes : outcomes[i].synthesized)
        => [](pc = "returned" => Result.class = "negative"))

\* A panel throws only when all it dispatched crashed, and a crash of a deadline
\* is not thrown: a throw carries no mark, and the caller would not see the stop.
ThrowLosesNoStop ==
    pc = "threw" /\ ~single =>
        \A i \in DOMAIN outcomes : isCrashRecord(outcomes[i]) /\ ~stopReached(outcomes[i])

\* A better score never makes a command read worse, however scores are put
\* together, weighted, rounded and capped: with any agent's score lowered, the
\* class would be the same or worse.
rank(class) == CASE class = "negative" -> 0 [] class = "conditional" -> 1 [] class = "positive" -> 2

BetterScoresNeverReadWorse ==
    pc = "returned" /\ ~single /\ stopVerdict(children(outcomes)) = "none" =>
        \A i \in scored(outcomes) : \A a \in Answers :
            a.score # NoScore /\ a.score < outcomes[i].score =>
                rank(panelClass([outcomes EXCEPT ![i].score = a.score])) <= rank(panelClass(outcomes))

\* What a panel tells: no agent is lost, a positive rests on all of them, and
\* neither a stop nor a crash is taken for the other or hidden by a throw.
PanelTells ==
    PanelAccounted /\ PositiveMeansWholePanel /\ AbortedMeansNothingCrashed /\ ThrowLosesNoStop

\* The command keeps the promise its callers are modelled on.
Unit == INSTANCE UnitContract WITH
    allowed <- commandMayAnswer,
    reply   <- CASE pc = "returned" -> {Result}
                 [] pc = "threw"    -> {placeholderFor(rejectionKind(thrown, signal))}
                 [] OTHER           -> {}
KeepsUnitContract == Unit!SafeSpec

\* A command is what its callers take it for: it keeps the promise, and a crash
\* before a stop stays one.
CommandKeepsItsWord == KeepsUnitContract /\ CrashBeforeStopDecides

\* Every command returns or throws.
Termination == <>(pc \in {"returned", "threw"})

-----------------------------------------------------------------------------
(* What the documents say of a command and the code does not do. *)

\* README.md: a multi-agent command "throws only if every agent failed". One run
\* in order throws when its first agent crashes, with the others never dispatched.
ThrowsOnlyIfEveryAgentFailed ==
    pc = "threw" /\ ~single /\ DOMAIN outcomes # {} => DOMAIN outcomes = Agents

===============================================================================
