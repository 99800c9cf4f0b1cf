---------------------------- MODULE ProviderCalls ----------------------------
(***************************************************************************)
(* The calls that go through one AIProvider: its limiter (ai/Semaphore.ts) *)
(* and generate() (ai/AIProvider.ts) with the recovery of a structured     *)
(* answer, the mapping of errors, and the stop of a run that is refused    *)
(* credit (utils/runTrip.ts).                                              *)
(*                                                                         *)
(* Each action is what runs between two awaits.  A request is in flight    *)
(* until the provider answers, refuses, or the request's signal aborts it: *)
(* the request's timeout or the caller's signal.                           *)
(*                                                                         *)
(* Abstracted: a call's request and answer, token counts and cost; whether *)
(* an answer that misses its schema can be salvaged is the answer's        *)
(* choice, and so is whether its steps reported the conversation; SDK      *)
(* retries are part of the request, a RetryError being mapped as the error *)
(* it wraps.                                                               *)
(***************************************************************************)
EXTENDS Integers, Sequences, FiniteSets

CONSTANTS
    Calls,           \* the calls made of this provider
    CallerSignals,   \* the abort signals callers hand down
    Runs,            \* those that belong to a pipeline run, which registered a trip
    NoSignal,        \* what a call without a signal has in its place
    SignalOf,        \* the signal of each call
    Structured,      \* the calls that ask for an object
    Settings,        \* the values that maxConcurrency may be configured with
    NaN, Fraction    \* no number, and one between 0 and 1

ASSUME CallsAssumption == IsFiniteSet(Calls) /\ Structured \subseteq Calls
ASSUME SignalsAssumption ==
    /\ SignalOf \in [Calls -> CallerSignals \union {NoSignal}]
    /\ Runs \subseteq CallerSignals /\ NoSignal \notin CallerSignals
ASSUME SettingsAssumption ==
    /\ Settings \subseteq Int \union {NaN, Fraction}
    /\ NaN \notin Int /\ Fraction \notin Int /\ NaN # Fraction

DEFAULT_MAX_CONCURRENCY == 8

Phases == {"idle", "queued", "resolving", "generating", "handling", "repairing",
           "settled", "done"}
\* An answer that misses its schema, none at all, a 402, an abort, anything else.
Errors == {"object", "output", "credit", "abort", "other"}
Codes == {"CREDIT", "CANCELLED", "TIMEOUT", "API", "UNRESOLVED"}
Recoveries == {"repaired", "salvaged", "failed"}

\* code is "none" for a call that answered.
Outcome == [code : Codes \union {"none"}, object : BOOLEAN,
            recovery : Recoveries \union {"none"}]

VARIABLES
    limit,       \* the permits the limiter was built with
    available,   \* its permits that nobody holds
    queue,       \* the calls that wait for one
    pc,          \* where each call is
    error,       \* the last error its requests met
    outcome,     \* what it settled with
    signal,      \* "live", "stopped" by its owner, or "credit": stopped by a trip
    ended,       \* the runs that are over
    stoppers     \* the calls whose refusal stopped their run

callVars == <<pc, error, outcome>>
limiterVars == <<limit, available, queue>>
runVars == <<signal, ended, stoppers>>
vars == <<limiterVars, callVars, runVars>>

Unsettled == [code |-> "none", object |-> FALSE, recovery |-> "none"]
answered(object, recovery) == [Unsettled EXCEPT !.object = object, !.recovery = recovery]
thrown(code) == [Unsettled EXCEPT !.code = code]

fired(s) == s # NoSignal /\ signal[s] # "live"

-----------------------------------------------------------------------------
(***************************************************************************)
(* The limiter: a permit is handed from the call that releases it to the   *)
(* first of the queue.                                                     *)
(***************************************************************************)
usable(setting) == setting = Fraction \/ (setting \in Int /\ setting > 0)

\* (mistake: only a fraction is rounded up)
permitsAsSet(setting) == IF setting = Fraction THEN 1 ELSE IF setting = NaN THEN 0 ELSE setting

permits(setting) ==
    CASE ~usable(setting) -> DEFAULT_MAX_CONCURRENCY
      [] setting = Fraction -> 1
      [] OTHER -> setting

acquire(c) ==
    \/ /\ available > 0
       /\ available' = available - 1
       /\ pc' = [pc EXCEPT ![c] = "resolving"]
       /\ UNCHANGED queue
    \/ /\ available = 0
       /\ queue' = Append(queue, c)
       /\ pc' = [pc EXCEPT ![c] = "queued"]
       /\ UNCHANGED available

\* What a release leaves free. (mistake: a permit handed over counts as free too)
freedAlways == available + 1
freed == IF queue = <<>> THEN available + 1 ELSE available

\* (mistake: the newest of the queue goes first)
releaseNewest(c) ==
    /\ available' = freed
    /\ \/ /\ queue # <<>>
          /\ queue' = SubSeq(queue, 1, Len(queue) - 1)
          /\ pc' = [pc EXCEPT ![c] = "done", ![queue[Len(queue)]] = "resolving"]
       \/ /\ queue = <<>>
          /\ pc' = [pc EXCEPT ![c] = "done"]
          /\ UNCHANGED queue

release(c) ==
    /\ available' = freed
    /\ \/ /\ queue # <<>>
          /\ queue' = Tail(queue)
          /\ pc' = [pc EXCEPT ![c] = "done", ![Head(queue)] = "resolving"]
       \/ /\ queue = <<>>
          /\ pc' = [pc EXCEPT ![c] = "done"]
          /\ UNCHANGED queue

-----------------------------------------------------------------------------
(***************************************************************************)
(* Settling: the outcome is decided, the permit still held.                *)
(***************************************************************************)
settle(c, o) == /\ pc' = [pc EXCEPT ![c] = "settled"]
                /\ outcome' = [outcome EXCEPT ![c] = o]

\* The code of the error a request met, where the caller's signal tells a stop from
\* the request's own timeout.
mapError(e, stopped) ==
    CASE e = "credit" -> "CREDIT"
      [] e = "abort"  -> IF stopped THEN "CANCELLED" ELSE "TIMEOUT"
      [] OTHER        -> "API"

\* Whether a trip stops the run of signal s. (mistake: also one that is stopped)
tripsAgain(s) == s \in Runs \ ended
trips(s) == s \in Runs \ ended /\ signal[s] = "live"

tripRunFor(c) ==
    LET s == SignalOf[c]
    IN  \/ /\ trips(s)
           /\ signal' = [signal EXCEPT ![s] = "credit"]
           /\ stoppers' = stoppers \union {c}
        \/ ~trips(s) /\ UNCHANGED <<signal, stoppers>>

throwMapped(c, e) ==
    LET code == mapError(e, fired(SignalOf[c]))
    IN  /\ settle(c, thrown(code))
        /\ IF code = "CREDIT" THEN tripRunFor(c) ELSE UNCHANGED <<signal, stoppers>>

noObject(c, e) == c \in Structured /\ e \in {"object", "output"}

handleGenerateError(c, e) ==
    \/ /\ noObject(c, e)
       /\ settle(c, answered(FALSE, "none"))
       /\ UNCHANGED <<signal, stoppers>>
    \/ ~noObject(c, e) /\ throwMapped(c, e)

\* Without the conversation no repair turn can be asked for, and the text is all there
\* is. (mistake: it is left to the handler, which leaves no record of it)
unrepairableSilent(c) == pc' = [pc EXCEPT ![c] = "handling"] /\ UNCHANGED outcome
unrepairable(c) == settle(c, answered(FALSE, "failed"))

\* What becomes of the first request's error once recoverStructuredOutput looked at
\* it, up to the request of its repair turn, for which a step of the first request
\* must have reported the conversation.
recoverStructuredOutput(c, e) ==
    \/ /\ ~(c \in Structured /\ e = "object")
       /\ pc' = [pc EXCEPT ![c] = "handling"]
       /\ UNCHANGED outcome
    \/ /\ c \in Structured /\ e = "object"
       /\ \/ settle(c, answered(TRUE, "salvaged"))
          \/ /\ fired(SignalOf[c])
             /\ pc' = [pc EXCEPT ![c] = "handling"]
             /\ UNCHANGED outcome
          \/ ~fired(SignalOf[c]) /\ unrepairable(c)
          \/ /\ ~fired(SignalOf[c])
             /\ pc' = [pc EXCEPT ![c] = "repairing"]
             /\ UNCHANGED outcome

\* Whether the error of a repair turn is thrown, and not answered from the text.
\* (mistake: only a stop's)
repairThrowsStopOnly(c, e) == fired(SignalOf[c])
repairThrows(c, e) == fired(SignalOf[c]) \/ mapError(e, fired(SignalOf[c])) = "CREDIT"

recoverRepair(c, e) ==
    \/ /\ e \in {"object", "output"}
       /\ \/ e = "object" /\ settle(c, answered(TRUE, "salvaged"))
          \/ settle(c, answered(FALSE, "failed"))
       /\ UNCHANGED <<signal, stoppers>>
    \/ /\ e \notin {"object", "output"} /\ repairThrows(c, e)
       /\ handleGenerateError(c, e)
    \/ /\ e \notin {"object", "output"} /\ ~repairThrows(c, e)
       /\ settle(c, answered(FALSE, "failed"))
       /\ UNCHANGED <<signal, stoppers>>

-----------------------------------------------------------------------------
Init ==
    /\ \E setting \in Settings : limit = permits(setting)
    /\ available = limit /\ queue = <<>>
    /\ pc = [c \in Calls |-> "idle"]
    /\ error = [c \in Calls |-> "none"]
    /\ outcome = [c \in Calls |-> Unsettled]
    /\ signal = [s \in CallerSignals |-> "live"]
    /\ ended = {} /\ stoppers = {}

\* generate() is called.
Generate(c) ==
    /\ pc[c] = "idle"
    /\ acquire(c)
    /\ UNCHANGED <<limit, error, outcome, runVars>>

\* The model and its provider are resolved, and the request is sent, whatever became
\* of the caller meanwhile.
Resolve(c) ==
    /\ pc[c] = "resolving"
    /\ pc' = [pc EXCEPT ![c] = "generating"]
    /\ UNCHANGED <<limiterVars, error, outcome, runVars>>

\* They cannot be: thrown as it is, outside the mapping of errors.
ResolveFails(c) ==
    /\ pc[c] = "resolving"
    /\ settle(c, thrown("UNRESOLVED"))
    /\ UNCHANGED <<limiterVars, error, runVars>>

\* The provider answers; a structured call has an object only if the model finished.
Answer(c) ==
    /\ pc[c] = "generating"
    /\ \E object \in BOOLEAN : /\ object => c \in Structured
                               /\ settle(c, answered(object, "none"))
    /\ UNCHANGED <<limiterVars, error, runVars>>

\* The provider answers and the result cannot be put together from it.
AssemblyFails(c, e) ==
    /\ pc[c] = "generating" /\ e \in {"output", "other"}
    /\ e = "output" => c \in Structured
    /\ error' = [error EXCEPT ![c] = e]
    /\ handleGenerateError(c, e)
    /\ UNCHANGED <<limiterVars, ended>>

RequestFails(c, e) ==
    /\ pc[c] = "generating"
    /\ e \in {"object", "output"} => c \in Structured
    /\ error' = [error EXCEPT ![c] = e]
    /\ recoverStructuredOutput(c, e)
    /\ UNCHANGED <<limiterVars, runVars>>

\* Once the recovery said that it has nothing.
Handle(c) ==
    /\ pc[c] = "handling"
    /\ handleGenerateError(c, error[c])
    /\ UNCHANGED <<limiterVars, error, ended>>

RepairAnswers(c) ==
    /\ pc[c] = "repairing"
    /\ \/ settle(c, answered(TRUE, "repaired"))
       \/ settle(c, answered(FALSE, "failed"))
    /\ UNCHANGED <<limiterVars, error, runVars>>

RepairFails(c, e) ==
    /\ pc[c] = "repairing"
    /\ error' = [error EXCEPT ![c] = e]
    /\ recoverRepair(c, e)
    /\ UNCHANGED <<limiterVars, ended>>

\* The permit is released and the outcome given to the caller: nothing of the call is
\* left behind here.
Release(c) ==
    /\ pc[c] = "settled"
    /\ release(c)
    /\ error' = [error EXCEPT ![c] = "none"]
    /\ outcome' = [outcome EXCEPT ![c] = Unsettled]
    /\ UNCHANGED <<limit, runVars>>

\* The owner of a signal stops: a cancel, an abort, a deadline.
Stop(s) ==
    /\ signal[s] = "live"
    /\ signal' = [signal EXCEPT ![s] = "stopped"]
    /\ UNCHANGED <<limiterVars, callVars, ended, stoppers>>

\* A run is over, calls it abandoned may go on.
RunEnds(s) ==
    /\ s \in Runs \ ended
    /\ ended' = ended \union {s}
    /\ UNCHANGED <<limiterVars, callVars, signal, stoppers>>

CallStep(c) ==
    \/ Generate(c) \/ Resolve(c) \/ ResolveFails(c) \/ Answer(c)
    \/ Handle(c) \/ RepairAnswers(c) \/ Release(c)
    \/ \E e \in Errors : AssemblyFails(c, e) \/ RequestFails(c, e) \/ RepairFails(c, e)

Next == \/ \E c \in Calls : CallStep(c)
        \/ \E s \in CallerSignals : Stop(s) \/ RunEnds(s)

\* The timeout that every request carries fires in the end. (mistake: only the
\* caller's signal can abort a request)
abortsIfStopped(c) == fired(SignalOf[c]) /\ (RequestFails(c, "abort") \/ RepairFails(c, "abort"))
aborts(c) == RequestFails(c, "abort") \/ RepairFails(c, "abort")

Fairness ==
    \A c \in Calls : /\ WF_vars(Resolve(c) \/ ResolveFails(c))
                     /\ WF_vars(aborts(c))
                     /\ WF_vars(Handle(c))
                     /\ WF_vars(Release(c))

Spec == Init /\ [][Next]_vars /\ Fairness

-----------------------------------------------------------------------------
TypeOK ==
    /\ limit \in Nat \ {0} /\ available \in 0..limit
    /\ queue \in Seq(Calls)
    /\ pc \in [Calls -> Phases]
    /\ error \in [Calls -> Errors \union {"none"}]
    /\ outcome \in [Calls -> Outcome]
    /\ signal \in [CallerSignals -> {"live", "stopped", "credit"}]
    /\ ended \subseteq Runs /\ stoppers \subseteq Calls

inside == {c \in Calls : pc[c] \notin {"idle", "queued", "done"}}
isSettled(c) == pc[c] = "settled"

\* However calls come, fail, are stopped and leave, each permit is either free or
\* held by one call, and no call waits beside a free one (ai/Semaphore.ts:40-54).
PermitsConserved ==
    /\ available + Cardinality(inside) = limit
    /\ queue # <<>> => available = 0

\* A 402, of a call's first request or of its repair turn, reaches the caller as what
\* it is, and the run it happened in does not go on (AIProvider.ts:1436-1440,
\* 1559-1567).
CreditRefusalStopsRun ==
    \A c \in Calls : isSettled(c) /\ error[c] = "credit" =>
        /\ outcome[c].code = "CREDIT"
        /\ SignalOf[c] \in Runs => fired(SignalOf[c]) \/ SignalOf[c] \in ended

\* Of the calls that a run is refused credit for, exactly one stopped it, and a call
\* stops no run but its own (utils/runTrip.ts:32-41, PipelineExecutor.ts:118-122).
OneStopperPerRun ==
    /\ \A s \in CallerSignals : signal[s] = "credit" <=> \E c \in stoppers : SignalOf[c] = s
    /\ \A c, d \in stoppers : SignalOf[c] = SignalOf[d] => c = d

\* An answer that missed its schema leaves a trace of what became of it, unless the
\* caller stopped (AIProvider.ts:1360-1366, 1382-1388).
RecoveryRecorded ==
    \A c \in Calls : isSettled(c) /\ error[c] = "object" /\ ~fired(SignalOf[c]) =>
        /\ outcome[c].code = "none" /\ outcome[c].recovery # "none"
        /\ outcome[c].object <=> outcome[c].recovery \in {"repaired", "salvaged"}

\* What becomes of a refusal and of a missed schema: the refused call says so, its
\* run is stopped by exactly one of them, and a recovery leaves its trace.
FailuresAreTold == CreditRefusalStopsRun /\ OneStopperPerRun /\ RecoveryRecorded

\* The limiter lets calls in as CallLimiter says.
Limiter == INSTANCE CallLimiter WITH line <- queue
KeepsLimiter == Limiter!Spec

\* Permits are conserved, and go to the calls in the order they came.
LimiterIsKept == []PermitsConserved /\ KeepsLimiter

\* Every call that was made settles and leaves, stopped or not, and so do those
\* queued behind it (Semaphore.ts:66-74, AIProvider.ts:2780-2796).
EveryCallSettles == \A c \in Calls : pc[c] # "idle" ~> pc[c] = "done"

\* What AIProvider.ts:1379 says of a stop that the recovery meets: "its error is
\* mapped and thrown as before".
CancellationIsThrown ==
    [][\A c \in Calls : pc[c] = "handling" /\ error[c] = "object" /\ isSettled(c)' =>
          outcome'[c].code # "none"]_vars

=============================================================================
