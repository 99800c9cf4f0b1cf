------------------------- MODULE ProviderCallsProofs -------------------------
(***************************************************************************)
(* Theorems about ProviderCalls: for any finite set of calls, any signals  *)
(* and any setting of the limiter.                                         *)
(***************************************************************************)
EXTENDS ProviderCalls, SequenceTheorems, FiniteSetTheorems, TLAPS

InPhases == Phases \ {"idle", "queued", "done"}

\* The calls that wait are those in the queue, each of them once.
QueueInv ==
    /\ \A i \in DOMAIN queue : pc[queue[i]] = "queued"
    /\ \A i, j \in DOMAIN queue : queue[i] = queue[j] => i = j

\* What the error of a call tells before it settles.
ErrorInv ==
    \A c \in Calls :
        /\ pc[c] \in {"idle", "queued", "resolving", "generating"} => error[c] = "none"
        /\ pc[c] = "repairing" => error[c] = "object"
        /\ pc[c] = "handling" => error[c] # "none"
        /\ error[c] = "object" => c \in Structured
        /\ pc[c] = "handling" /\ error[c] = "object" => fired(SignalOf[c])

IInv == /\ TypeOK /\ PermitsConserved /\ QueueInv
        /\ ErrorInv /\ CreditRefusalStopsRun /\ OneStopperPerRun /\ RecoveryRecorded

-----------------------------------------------------------------------------
(***************************************************************************)
(* The limiter.                                                            *)
(***************************************************************************)

\* A step that a call takes while it holds its permit, or one of the signals'.
InnerStep ==
    /\ UNCHANGED limiterVars
    /\ pc' \in [Calls -> Phases]
    /\ \A c \in Calls : pc'[c] = pc[c] \/ (pc[c] \in InPhases /\ pc'[c] \in InPhases)

\* The limit is a positive number whatever is configured.
LEMMA PermitsPositive == ASSUME NEW s \in Settings PROVE permits(s) \in Nat \ {0}
  BY SettingsAssumption DEF permits, usable, DEFAULT_MAX_CONCURRENCY

LEMMA InsideFinite == IsFiniteSet(inside) /\ Cardinality(inside) \in Nat
  BY CallsAssumption, FS_Subset, FS_CardinalityType DEF inside

\* An inner step leaves the limiter as it is.
LEMMA InnerKeeps ==
  ASSUME TypeOK, PermitsConserved, QueueInv, InnerStep
  PROVE  PermitsConserved' /\ QueueInv' /\ inside' = inside
  <1>1. inside' = inside
    BY DEF InnerStep, inside, InPhases
  <1>2. \A i \in DOMAIN queue : queue[i] \in Calls
    BY DEF TypeOK
  <1>3. QueueInv'
    BY <1>2 DEF QueueInv, InnerStep, limiterVars, InPhases
  <1> QED
    BY <1>1, <1>3 DEF PermitsConserved, InnerStep, limiterVars

\* A call that comes enters if there is a permit, and queues otherwise.
LEMMA AcquireKeeps ==
  ASSUME TypeOK, PermitsConserved, QueueInv, NEW c \in Calls, Generate(c)
  PROVE  /\ PermitsConserved' /\ QueueInv'
         /\ \/ /\ queue = <<>> /\ queue' = queue /\ inside' = inside \union {c}
               /\ Cardinality(inside) < limit
            \/ /\ queue' = Append(queue, c) /\ inside' = inside
               /\ Cardinality(inside) = limit
  <1> USE DEF TypeOK
  <1>1. CASE available > 0
    <2>1. /\ available' = available - 1 /\ limit' = limit /\ queue' = queue /\ queue = <<>>
          /\ pc' = [pc EXCEPT ![c] = "resolving"] /\ pc[c] = "idle"
      BY <1>1 DEF Generate, acquire, PermitsConserved
    <2>2. inside' = inside \union {c} /\ c \notin inside
      BY <2>1 DEF inside
    <2>3. Cardinality(inside') = Cardinality(inside) + 1
      BY <2>2, InsideFinite, FS_AddElement
    <2>4. PermitsConserved'
      BY <2>1, <2>3, InsideFinite DEF PermitsConserved
    <2>5. QueueInv'
      BY <2>1 DEF QueueInv
    <2> QED
      BY <1>1, <2>1, <2>2, <2>4, <2>5, InsideFinite DEF PermitsConserved
  <1>2. CASE available = 0
    <2>1. /\ available' = 0 /\ limit' = limit /\ queue' = Append(queue, c)
          /\ pc' = [pc EXCEPT ![c] = "queued"] /\ pc[c] = "idle"
      BY <1>2 DEF Generate, acquire
    <2>2. inside' = inside
      BY <2>1 DEF inside
    <2>3. PermitsConserved' /\ Cardinality(inside) = limit
      BY <1>2, <2>1, <2>2, InsideFinite DEF PermitsConserved
    <2>4. /\ DOMAIN queue = 1..Len(queue) /\ DOMAIN queue' = 1..(Len(queue) + 1)
          /\ Len(queue) \in Nat
          /\ \A i \in 1..Len(queue) : queue'[i] = queue[i] /\ queue[i] \in Calls
          /\ queue'[Len(queue) + 1] = c
      BY <2>1, AppendProperties
    <2>5. \A i \in 1..Len(queue) : queue[i] # c /\ pc'[queue[i]] = "queued"
      BY <2>1, <2>4 DEF QueueInv
    <2>6. QueueInv'
      BY <2>1, <2>4, <2>5 DEF QueueInv
    <2> QED
      BY <2>1, <2>2, <2>3, <2>6
  <1> QED
    BY <1>1, <1>2

\* A call that leaves gives its permit to the first of the queue, if there is one.
LEMMA ReleaseKeeps ==
  ASSUME TypeOK, PermitsConserved, QueueInv, NEW c \in Calls, Release(c)
  PROVE  /\ PermitsConserved' /\ QueueInv' /\ c \in inside
         /\ \/ queue = <<>> /\ queue' = queue /\ inside' = inside \ {c}
            \/ /\ queue # <<>> /\ queue' = Tail(queue)
               /\ inside' = (inside \ {c}) \union {Head(queue)}
  <1> USE DEF TypeOK
  <1>0. /\ pc[c] = "settled" /\ c \in inside /\ limit' = limit /\ available' = freed
        /\ IsFiniteSet(inside \ {c}) /\ Cardinality(inside \ {c}) = Cardinality(inside) - 1
    BY InsideFinite, FS_RemoveElement DEF Release, release, inside
  <1>1. CASE queue = <<>>
    <2>1. queue' = queue /\ available' = available + 1 /\ pc' = [pc EXCEPT ![c] = "done"]
      BY <1>0, <1>1 DEF Release, release, freed
    <2>2. inside' = inside \ {c}
      BY <2>1 DEF inside
    <2> QED
      BY <1>0, <1>1, <2>1, <2>2, InsideFinite DEF PermitsConserved, QueueInv
  <1>2. CASE queue # <<>>
    <2> DEFINE h == Head(queue)
    <2>1. /\ queue' = Tail(queue) /\ available' = available
          /\ pc' = [pc EXCEPT ![c] = "done", ![h] = "resolving"]
      BY <1>0, <1>2 DEF Release, release, freed
    <2>2. /\ h = queue[1] /\ h \in Calls /\ Len(queue) \in Nat \ {0}
          /\ DOMAIN queue = 1..Len(queue) /\ DOMAIN queue' = 1..(Len(queue) - 1)
          /\ \A i \in DOMAIN queue' : queue'[i] = queue[i + 1]
      BY <1>2, <2>1, HeadTailProperties
    <2>3. pc[h] = "queued" /\ h # c /\ h \notin inside
      BY <1>0, <2>2 DEF QueueInv, inside
    <2>4. inside' = (inside \ {c}) \union {h}
      BY <2>1, <2>2, <2>3 DEF inside
    <2>5. Cardinality(inside') = Cardinality(inside)
      <3>1. h \notin inside \ {c}
        BY <2>3
      <3>2. Cardinality((inside \ {c}) \union {h}) = Cardinality(inside \ {c}) + 1
        BY <1>0, <3>1, FS_AddElement
      <3> QED
        BY <1>0, <2>4, <3>2, InsideFinite
    <2>6. PermitsConserved'
      BY <1>0, <1>2, <2>1, <2>5 DEF PermitsConserved
    <2>7. \A i \in DOMAIN queue' : i + 1 \in DOMAIN queue /\ queue[i + 1] # h /\ queue[i + 1] # c
      BY <1>0, <2>2 DEF QueueInv
    <2>8. QueueInv'
      <3>1. \A i \in DOMAIN queue' : pc'[queue'[i]] = "queued"
        BY <2>1, <2>2, <2>7 DEF QueueInv
      <3>2. \A i, j \in DOMAIN queue' : queue'[i] = queue'[j] => i = j
        BY <2>2, <2>7 DEF QueueInv
      <3> QED
        BY <3>1, <3>2 DEF QueueInv
    <2> QED
      BY <1>0, <1>2, <2>1, <2>4, <2>6, <2>8
  <1> QED
    BY <1>1, <1>2

-----------------------------------------------------------------------------
(***************************************************************************)
(* Calls and signals.                                                      *)
(***************************************************************************)
CallInv == ErrorInv /\ CreditRefusalStopsRun /\ RecoveryRecorded

\* Signals never come back to life.
SignalsOnlyFire ==
    /\ signal' \in [CallerSignals -> {"live", "stopped", "credit"}]
    /\ \A s \in CallerSignals : signal[s] # "live" => signal'[s] # "live"

\* What an outcome owes to the error that led to it.
Owed(c, e, o) ==
    /\ e = "credit" => /\ o.code = "CREDIT"
                       /\ SignalOf[c] \in Runs => fired(SignalOf[c])' \/ SignalOf[c] \in ended
    /\ e = "object" /\ ~fired(SignalOf[c])' =>
          /\ o.code = "none" /\ o.recovery # "none"
          /\ o.object <=> o.recovery \in {"repaired", "salvaged"}

LEMMA SignalOfCall ==
  ASSUME NEW c \in Calls
  PROVE  SignalOf[c] \in CallerSignals \/ SignalOf[c] = NoSignal
  BY SignalsAssumption

\* A fired signal stays so.
LEMMA FiredStays ==
  ASSUME TypeOK, SignalsOnlyFire, NEW c \in Calls, fired(SignalOf[c])
  PROVE  fired(SignalOf[c])'
  BY SignalOfCall DEF fired, SignalsOnlyFire

\* Settling one call with what its error owes keeps what is said of the calls.
LEMMA SettleKeeps ==
  ASSUME TypeOK, CallInv, SignalsOnlyFire, ended' = ended,
         NEW c \in Calls, NEW e \in Errors \union {"none"}, NEW o \in Outcome,
         pc' = [pc EXCEPT ![c] = "settled"], error' = [error EXCEPT ![c] = e],
         outcome' = [outcome EXCEPT ![c] = o],
         e = "object" => c \in Structured, Owed(c, e, o)
  PROVE  CallInv'
  <1> USE DEF TypeOK
  <1>1. ErrorInv'
    BY FiredStays DEF ErrorInv, CallInv
  <1>2. \A d \in Calls : d # c => /\ pc'[d] = pc[d] /\ error'[d] = error[d]
                                  /\ outcome'[d] = outcome[d]
                                  /\ fired(SignalOf[d]) => fired(SignalOf[d])'
    BY FiredStays
  <1>3. pc'[c] = "settled" /\ error'[c] = e /\ outcome'[c] = o
    OBVIOUS
  <1>4. CreditRefusalStopsRun'
    BY <1>2, <1>3 DEF CreditRefusalStopsRun, CallInv, Owed, isSettled
  <1>5. RecoveryRecorded'
    BY <1>2, <1>3 DEF RecoveryRecorded, CallInv, Owed, isSettled
  <1> QED
    BY <1>1, <1>4, <1>5 DEF CallInv

\* So does moving one that stays unsettled.
LEMMA MoveKeeps ==
  ASSUME TypeOK, CallInv, SignalsOnlyFire, ended \subseteq ended',
         NEW c \in Calls, NEW e \in Errors \union {"none"}, NEW ph \in Phases \ {"settled"},
         \A d \in Calls : d # c =>
            \/ pc'[d] = pc[d] \/ (pc[d] = "queued" /\ pc'[d] = "resolving" /\ error[d] = "none"),
         pc'[c] = ph, error' = [error EXCEPT ![c] = e],
         outcome' \in [Calls -> Outcome],
         \A d \in Calls : d # c => outcome'[d] = outcome[d],
         ph \in {"idle", "queued", "resolving", "generating"} => e = "none",
         ph = "repairing" => e = "object",
         ph = "handling" => e # "none",
         e = "object" => c \in Structured,
         ph = "handling" /\ e = "object" => fired(SignalOf[c])
  PROVE  CallInv'
  <1> USE DEF TypeOK
  <1>1. ErrorInv'
    BY FiredStays DEF ErrorInv, CallInv
  <1>2. \A d \in Calls : isSettled(d)' => /\ isSettled(d) /\ error'[d] = error[d]
                                          /\ outcome'[d] = outcome[d]
                                          /\ fired(SignalOf[d]) => fired(SignalOf[d])'
    BY FiredStays DEF isSettled
  <1>3. CreditRefusalStopsRun'
    BY <1>2 DEF CreditRefusalStopsRun, CallInv
  <1>4. RecoveryRecorded'
    BY <1>2 DEF RecoveryRecorded, CallInv
  <1> QED
    BY <1>1, <1>3, <1>4 DEF CallInv

\* What the handler of errors does: the call settles with what it owes, and a
\* refusal stops the run if nothing has.
LEMMA HandlerSettles ==
  ASSUME TypeOK, OneStopperPerRun, NEW c \in Calls, NEW e \in Errors,
         e = "object" => c \notin Structured \/ fired(SignalOf[c]),
         handleGenerateError(c, e)
  PROVE  /\ pc' = [pc EXCEPT ![c] = "settled"]
         /\ SignalsOnlyFire /\ stoppers' \subseteq Calls /\ OneStopperPerRun'
         /\ \E o \in Outcome : /\ outcome' = [outcome EXCEPT ![c] = o]
                               /\ e # "object" \/ c \in Structured => Owed(c, e, o)
  <1> USE DEF TypeOK, settle, answered, thrown, Unsettled, Outcome, Codes, Recoveries
  <1>1. CASE noObject(c, e)
    <2>1. /\ pc' = [pc EXCEPT ![c] = "settled"]
          /\ outcome' = [outcome EXCEPT ![c] = answered(FALSE, "none")]
          /\ UNCHANGED <<signal, stoppers>>
      BY <1>1 DEF handleGenerateError
    <2>2. answered(FALSE, "none") \in Outcome /\ answered(FALSE, "none").code = "none"
      OBVIOUS
    <2>3. SignalsOnlyFire /\ stoppers' \subseteq Calls /\ OneStopperPerRun'
      BY <2>1 DEF SignalsOnlyFire, OneStopperPerRun
    <2>4. Owed(c, e, answered(FALSE, "none"))
      <3>1. e # "credit"
        BY <1>1 DEF noObject
      <3>2. e = "object" => fired(SignalOf[c])'
        BY <1>1, <2>1 DEF noObject, fired
      <3> QED
        BY <3>1, <3>2 DEF Owed
    <2> QED
      BY <2>1, <2>2, <2>3, <2>4
  <1>2. CASE ~noObject(c, e)
    <2> DEFINE code == mapError(e, fired(SignalOf[c]))
    <2>1. /\ pc' = [pc EXCEPT ![c] = "settled"]
          /\ outcome' = [outcome EXCEPT ![c] = thrown(code)]
          /\ code = "CREDIT" => tripRunFor(c)
          /\ code # "CREDIT" => UNCHANGED <<signal, stoppers>>
      BY <1>2 DEF handleGenerateError, throwMapped
    <2>2. code \in Codes /\ (code = "CREDIT") = (e = "credit")
      BY DEF mapError
    <2>3. thrown(code) \in Outcome /\ thrown(code).code = code
      BY <2>2
    <2>4. /\ SignalsOnlyFire /\ stoppers' \subseteq Calls /\ OneStopperPerRun'
          /\ e = "credit" /\ SignalOf[c] \in Runs => fired(SignalOf[c])' \/ SignalOf[c] \in ended
      <3>1. CASE code = "CREDIT" /\ trips(SignalOf[c])
        <4> DEFINE s == SignalOf[c]
        <4>1. /\ s \in CallerSignals /\ s \in Runs /\ signal[s] = "live" /\ s # NoSignal
              /\ signal' = [signal EXCEPT ![s] = "credit"]
              /\ stoppers' = stoppers \union {c}
          BY <2>1, <3>1, SignalsAssumption DEF trips, tripRunFor
        <4>2. \A d \in stoppers : SignalOf[d] # s
          BY <4>1 DEF OneStopperPerRun
        <4>3. \A r \in CallerSignals : signal'[r] = "credit" <=> \E d \in stoppers' : SignalOf[d] = r
          <5> SUFFICES ASSUME NEW r \in CallerSignals
                       PROVE  signal'[r] = "credit" <=> \E d \in stoppers' : SignalOf[d] = r
            OBVIOUS
          <5>1. CASE r = s
            BY <4>1, <5>1
          <5>2. CASE r # s
            BY <4>1, <5>2 DEF OneStopperPerRun
          <5> QED
            BY <5>1, <5>2
        <4>4. \A d, f \in stoppers' : SignalOf[d] = SignalOf[f] => d = f
          BY <4>1, <4>2 DEF OneStopperPerRun
        <4>5. SignalsOnlyFire /\ fired(s)'
          BY <4>1 DEF SignalsOnlyFire, fired
        <4> QED
          BY <4>1, <4>3, <4>4, <4>5 DEF OneStopperPerRun
      <3>2. CASE ~(code = "CREDIT" /\ trips(SignalOf[c]))
        <4>1. UNCHANGED <<signal, stoppers>>
          BY <2>1, <3>2 DEF tripRunFor
        <4>2. e = "credit" /\ SignalOf[c] \in Runs => fired(SignalOf[c])' \/ SignalOf[c] \in ended
          BY <2>2, <3>2, <4>1, SignalsAssumption DEF trips, fired
        <4> QED
          BY <4>1, <4>2 DEF SignalsOnlyFire, OneStopperPerRun
      <3> QED
        BY <3>1, <3>2
    <2>5. e # "object" \/ c \in Structured => Owed(c, e, thrown(code))
      BY <1>2, <2>2, <2>3, <2>4 DEF Owed, noObject
    <2> QED
      BY <2>1, <2>2, <2>3, <2>4, <2>5
  <1> QED
    BY <1>1, <1>2

-----------------------------------------------------------------------------
(***************************************************************************)
(* Every step preserves the invariant.                                     *)
(***************************************************************************)

\* It holds before any call.
LEMMA InitIInv == Init => IInv
  <1> SUFFICES ASSUME Init PROVE IInv
    OBVIOUS
  <1>1. limit \in Nat \ {0} /\ inside = {}
    BY PermitsPositive DEF Init, inside
  <1>2. TypeOK
    BY <1>1 DEF Init, TypeOK, Phases, Outcome, Unsettled
  <1>3. PermitsConserved
    BY <1>1, FS_EmptySet DEF Init, PermitsConserved
  <1>4. QueueInv
    BY DEF Init, QueueInv
  <1>5. ErrorInv /\ CreditRefusalStopsRun /\ RecoveryRecorded /\ OneStopperPerRun
    BY DEF Init, ErrorInv, CreditRefusalStopsRun, RecoveryRecorded, OneStopperPerRun, isSettled
  <1> QED
    BY <1>2, <1>3, <1>4, <1>5 DEF IInv

\* A call that settles while it holds its permit.
LEMMA SettlingInv ==
  ASSUME IInv, NEW c \in Calls, pc[c] \in InPhases, pc' = [pc EXCEPT ![c] = "settled"],
         NEW e \in Errors \union {"none"}, error' = [error EXCEPT ![c] = e],
         NEW o \in Outcome, outcome' = [outcome EXCEPT ![c] = o],
         e = "object" => c \in Structured, Owed(c, e, o),
         SignalsOnlyFire, stoppers' \subseteq Calls, OneStopperPerRun',
         UNCHANGED <<limiterVars, ended>>
  PROVE  IInv' /\ InnerStep
  <1>1. TypeOK'
    BY DEF IInv, TypeOK, SignalsOnlyFire, limiterVars, Phases
  <1>2. InnerStep
    BY <1>1 DEF IInv, TypeOK, InnerStep, InPhases, Phases
  <1>3. PermitsConserved' /\ QueueInv'
    BY <1>2, InnerKeeps DEF IInv
  <1>4. CallInv'
    BY SettleKeeps DEF IInv, CallInv
  <1> QED
    BY <1>1, <1>2, <1>3, <1>4 DEF IInv, CallInv

\* A call that moves on while it holds its permit.
LEMMA MovingInv ==
  ASSUME IInv, NEW c \in Calls, pc[c] \in InPhases,
         NEW ph \in {"generating", "handling", "repairing"}, pc' = [pc EXCEPT ![c] = ph],
         NEW e \in Errors \union {"none"}, error' = [error EXCEPT ![c] = e],
         ph = "generating" => e = "none",
         ph = "repairing" => e = "object",
         ph = "handling" => e # "none",
         e = "object" => c \in Structured,
         ph = "handling" /\ e = "object" => fired(SignalOf[c]),
         UNCHANGED <<limiterVars, outcome, runVars>>
  PROVE  IInv' /\ InnerStep
  <1>1. TypeOK'
    BY DEF IInv, TypeOK, limiterVars, runVars, Phases
  <1>2. InnerStep
    BY <1>1 DEF IInv, TypeOK, InnerStep, InPhases, Phases
  <1>3. PermitsConserved' /\ QueueInv'
    BY <1>2, InnerKeeps DEF IInv
  <1>4. SignalsOnlyFire /\ OneStopperPerRun'
    BY DEF IInv, TypeOK, SignalsOnlyFire, runVars, OneStopperPerRun
  <1>5. ph \in Phases \ {"settled"} /\ pc'[c] = ph
    BY DEF IInv, TypeOK, Phases
  <1>6. CallInv'
    <2>1. \A d \in Calls : d # c => pc'[d] = pc[d] /\ outcome'[d] = outcome[d]
      BY DEF IInv, TypeOK
    <2> QED
      BY <1>1, <1>4, <1>5, <2>1, MoveKeeps DEF IInv, CallInv, TypeOK, runVars
  <1> QED
    BY <1>1, <1>2, <1>3, <1>4, <1>6 DEF IInv, CallInv

\* A call that arrives.
LEMMA GenerateInv == ASSUME IInv, NEW c \in Calls, Generate(c) PROVE IInv'
  <1>1. PermitsConserved' /\ QueueInv'
    BY AcquireKeeps DEF IInv
  <1>2. PICK ph \in {"resolving", "queued"} : pc' = [pc EXCEPT ![c] = ph]
    BY DEF Generate, acquire
  <1>3. TypeOK'
    BY <1>2 DEF IInv, TypeOK, Generate, acquire, runVars, Phases
  <1>4. SignalsOnlyFire /\ OneStopperPerRun'
    BY DEF IInv, TypeOK, SignalsOnlyFire, Generate, runVars, OneStopperPerRun
  <1>5. CallInv'
    <2>1. ph \in Phases \ {"settled"} /\ pc'[c] = ph /\ error[c] = "none"
      BY <1>2 DEF IInv, TypeOK, Phases, ErrorInv, Generate
    <2>2. error' = [error EXCEPT ![c] = "none"] /\ outcome' = outcome /\ ended' = ended
      BY <2>1 DEF IInv, TypeOK, Generate, runVars
    <2>3. \A d \in Calls : d # c => pc'[d] = pc[d]
      BY <1>2 DEF IInv, TypeOK
    <2> QED
      BY <1>2, <1>4, <2>1, <2>2, <2>3, MoveKeeps DEF IInv, CallInv, TypeOK
  <1> QED
    BY <1>1, <1>3, <1>4, <1>5 DEF IInv, CallInv

\* A call that leaves.
LEMMA ReleaseInv == ASSUME IInv, NEW c \in Calls, Release(c) PROVE IInv'
  <1>1. PermitsConserved' /\ QueueInv'
    BY ReleaseKeeps DEF IInv
  <1>2. /\ error' = [error EXCEPT ![c] = "none"]
        /\ outcome' = [outcome EXCEPT ![c] = Unsettled]
        /\ UNCHANGED <<limit, runVars>> /\ pc[c] = "settled"
    BY DEF Release
  <1>3. /\ pc' \in [Calls -> Phases] /\ pc'[c] = "done"
        /\ \A d \in Calls : d # c =>
              pc'[d] = pc[d] \/ (pc[d] = "queued" /\ pc'[d] = "resolving" /\ error[d] = "none")
    <2>1. CASE queue = <<>>
      BY <2>1 DEF Release, release, IInv, TypeOK, Phases
    <2>2. CASE queue # <<>>
      <3>1. pc' = [pc EXCEPT ![c] = "done", ![Head(queue)] = "resolving"]
        BY <2>2 DEF Release, release
      <3>2. /\ Head(queue) = queue[1] /\ 1 \in DOMAIN queue /\ Head(queue) \in Calls
        BY <2>2 DEF IInv, TypeOK
      <3>3. pc[Head(queue)] = "queued" /\ Head(queue) # c /\ error[Head(queue)] = "none"
        BY <1>2, <3>2 DEF IInv, QueueInv, ErrorInv
      <3> QED
        BY <3>1, <3>2, <3>3 DEF IInv, TypeOK, Phases
    <2> QED
      BY <2>1, <2>2
  <1>4. TypeOK'
    <2>1. available' \in 0..limit'
      <3>1. Cardinality(inside') \in Nat
        BY CallsAssumption, FS_Subset, FS_CardinalityType DEF inside
      <3> QED
        BY <1>1, <1>2, <3>1 DEF PermitsConserved, IInv, TypeOK, Release, release, freed
    <2>2. queue' \in Seq(Calls)
      <3>1. queue \in Seq(Calls) /\ (queue' = queue \/ (queue # <<>> /\ queue' = Tail(queue)))
        BY DEF Release, release, IInv, TypeOK
      <3> QED
        BY <3>1, HeadTailProperties
    <2> QED
      BY <1>2, <1>3, <2>1, <2>2 DEF IInv, TypeOK, runVars, Unsettled, Outcome
  <1>5. SignalsOnlyFire /\ OneStopperPerRun'
    BY <1>2 DEF IInv, TypeOK, SignalsOnlyFire, runVars, OneStopperPerRun
  <1>6. CallInv'
    <2>1. "done" \in Phases \ {"settled"} /\ outcome' \in [Calls -> Outcome]
      BY <1>4 DEF Phases, TypeOK
    <2> QED
      BY <1>2, <1>3, <1>5, <2>1, MoveKeeps DEF IInv, CallInv, TypeOK, runVars
  <1> QED
    BY <1>1, <1>4, <1>5, <1>6 DEF IInv, CallInv

\* A call whose error the handler takes.
LEMMA HandledInv ==
  ASSUME IInv, NEW c \in Calls, pc[c] \in InPhases,
         NEW e \in Errors, error' = [error EXCEPT ![c] = e],
         e = "object" => c \in Structured /\ fired(SignalOf[c]),
         handleGenerateError(c, e), UNCHANGED <<limiterVars, ended>>
  PROVE  IInv' /\ InnerStep
  <1>1. TypeOK /\ OneStopperPerRun
    BY DEF IInv
  <1>2. /\ pc' = [pc EXCEPT ![c] = "settled"]
        /\ SignalsOnlyFire /\ stoppers' \subseteq Calls /\ OneStopperPerRun'
    BY <1>1, HandlerSettles
  <1>3. PICK o \in Outcome : /\ outcome' = [outcome EXCEPT ![c] = o]
                             /\ e # "object" \/ c \in Structured => Owed(c, e, o)
    BY <1>1, HandlerSettles
  <1>4. Owed(c, e, o)
    BY <1>3
  <1> QED
    BY <1>2, <1>3, <1>4, SettlingInv

\* A call that settles without the handler: with an answer, or before its request.
LEMMA PlainInv ==
  ASSUME IInv, NEW c \in Calls, pc[c] \in InPhases,
         NEW e \in Errors \union {"none"}, error' = [error EXCEPT ![c] = e],
         NEW o \in Outcome, settle(c, o), Owed(c, e, o), e = "object" => c \in Structured,
         UNCHANGED <<limiterVars, runVars>>
  PROVE  IInv' /\ InnerStep
  <1>1. SignalsOnlyFire /\ OneStopperPerRun' /\ stoppers' \subseteq Calls
    BY DEF IInv, TypeOK, SignalsOnlyFire, runVars, OneStopperPerRun
  <1> QED
    BY <1>1, SettlingInv DEF settle, IInv, TypeOK, runVars

\* The outcomes a call settles with when it is not the handler that decides.
LEMMA PlainOutcomes ==
  ASSUME NEW object \in BOOLEAN, NEW recovery \in Recoveries \union {"none"},
         NEW code \in Codes \union {"none"}
  PROVE  /\ answered(object, recovery) \in Outcome
         /\ answered(object, recovery).code = "none"
         /\ answered(object, recovery).object = object
         /\ answered(object, recovery).recovery = recovery
         /\ thrown(code) \in Outcome /\ thrown(code).code = code
  BY DEF answered, thrown, Unsettled, Outcome

\* What a recovery may come to.
Recovered == {answered(TRUE, "repaired"), answered(TRUE, "salvaged"), answered(FALSE, "failed")}

LEMMA RecoveredOutcomes ==
  ASSUME NEW o \in Recovered
  PROVE  /\ o \in Outcome /\ o.code = "none" /\ o.recovery # "none"
         /\ o.object <=> o.recovery \in {"repaired", "salvaged"}
  <1>1. \/ o = [code |-> "none", object |-> TRUE, recovery |-> "repaired"]
        \/ o = [code |-> "none", object |-> TRUE, recovery |-> "salvaged"]
        \/ o = [code |-> "none", object |-> FALSE, recovery |-> "failed"]
    BY DEF Recovered, answered, Unsettled
  <1>2. o.code = "none" /\ o.recovery # "none"
    BY <1>1
  <1>3. o.object <=> o.recovery \in {"repaired", "salvaged"}
    BY <1>1
  <1>4. o \in Outcome
    <2>1. CASE o = [code |-> "none", object |-> TRUE, recovery |-> "repaired"]
      BY <2>1 DEF Outcome, Recoveries
    <2>2. CASE o = [code |-> "none", object |-> TRUE, recovery |-> "salvaged"]
      BY <2>2 DEF Outcome, Recoveries
    <2>3. CASE o = [code |-> "none", object |-> FALSE, recovery |-> "failed"]
      BY <2>3 DEF Outcome, Recoveries
    <2> QED
      BY <1>1, <2>1, <2>2, <2>3
  <1> QED
    BY <1>2, <1>3, <1>4

\* What a step of a call does to the invariant and to the limiter.
LEMMA InnerStepsInv ==
  ASSUME IInv, NEW c \in Calls, CallStep(c), ~Generate(c), ~Release(c)
  PROVE  IInv' /\ InnerStep
  <1> USE DEF limiterVars, runVars
  <1>0. /\ TypeOK /\ pc[c] \in Phases /\ error[c] \in Errors \union {"none"}
        /\ error = [error EXCEPT ![c] = error[c]]
        /\ pc[c] \in {"resolving", "generating"} => error[c] = "none"
        /\ error[c] = "object" => c \in Structured
    BY DEF IInv, TypeOK, ErrorInv
  <1>1. CASE Resolve(c)
    <2>1. pc[c] \in InPhases
      BY <1>0, <1>1 DEF Resolve, InPhases, Phases
    <2> QED
      BY <1>0, <1>1, <2>1, MovingInv DEF Resolve
  <1>2. CASE ResolveFails(c)
    <2>1. pc[c] \in InPhases /\ Owed(c, "none", thrown("UNRESOLVED")) /\ error[c] = "none"
      BY <1>0, <1>2 DEF ResolveFails, InPhases, Phases, Owed
    <2>2. /\ settle(c, thrown("UNRESOLVED")) /\ error' = [error EXCEPT ![c] = "none"]
          /\ UNCHANGED <<limiterVars, runVars>>
      BY <1>0, <1>2, <2>1 DEF ResolveFails
    <2>3. thrown("UNRESOLVED") \in Outcome /\ thrown("UNRESOLVED").code = "UNRESOLVED"
      BY PlainOutcomes DEF Codes
    <2> QED
      BY <2>1, <2>2, <2>3, PlainInv
  <1>3. CASE Answer(c)
    <2>1. PICK object \in BOOLEAN : settle(c, answered(object, "none"))
      BY <1>3 DEF Answer
    <2>2. pc[c] \in InPhases /\ Owed(c, "none", answered(object, "none")) /\ error[c] = "none"
      BY <1>0, <1>3 DEF Answer, InPhases, Phases, Owed
    <2>3. error' = [error EXCEPT ![c] = "none"] /\ UNCHANGED <<limiterVars, runVars>>
      BY <1>0, <1>3, <2>2 DEF Answer
    <2>4. /\ answered(object, "none") \in Outcome
          /\ answered(object, "none").code = "none"
      BY PlainOutcomes
    <2> QED
      BY <2>1, <2>2, <2>3, <2>4, PlainInv
  <1>4. CASE Handle(c)
    <2>1. pc[c] \in InPhases /\ (error[c] = "object" => fired(SignalOf[c]))
      BY <1>0, <1>4 DEF Handle, InPhases, Phases, IInv, ErrorInv
    <2>2. CASE error[c] = "none"
      BY <1>4, <2>2 DEF IInv, ErrorInv, Handle
    <2>3. CASE error[c] # "none"
      BY <1>0, <1>4, <2>1, <2>3, HandledInv DEF Handle
    <2> QED
      BY <2>2, <2>3
  <1>5. CASE RepairAnswers(c)
    <2>1. PICK o \in Recovered : settle(c, o)
      BY <1>5 DEF RepairAnswers, Recovered, settle
    <2>2. /\ o \in Outcome /\ o.code = "none" /\ o.recovery # "none"
          /\ o.object <=> o.recovery \in {"repaired", "salvaged"}
      BY RecoveredOutcomes
    <2>3. pc[c] \in InPhases /\ error[c] = "object"
      BY <1>0, <1>5 DEF RepairAnswers, InPhases, Phases, IInv, ErrorInv
    <2>4. Owed(c, "object", o)
      BY <2>2 DEF Owed
    <2>5. error' = [error EXCEPT ![c] = "object"] /\ UNCHANGED <<limiterVars, runVars>>
      BY <1>0, <1>5, <2>3 DEF RepairAnswers
    <2> QED
      BY <1>0, <2>1, <2>2, <2>3, <2>4, <2>5, PlainInv DEF Errors
  <1>6. ASSUME NEW e \in Errors, AssemblyFails(c, e) PROVE IInv' /\ InnerStep
    <2>1. pc[c] \in InPhases /\ e # "object"
      BY <1>6 DEF AssemblyFails, InPhases, Phases
    <2> QED
      BY <1>6, <2>1, HandledInv DEF AssemblyFails
  <1>7. ASSUME NEW e \in Errors, RequestFails(c, e) PROVE IInv' /\ InnerStep
    <2>1. /\ pc[c] \in InPhases /\ error' = [error EXCEPT ![c] = e]
          /\ UNCHANGED <<limiterVars, runVars>> /\ (e = "object" => c \in Structured)
      BY <1>7 DEF RequestFails, InPhases, Phases
    <2>2. CASE pc' = [pc EXCEPT ![c] = "handling"] /\ outcome' = outcome /\ (e = "object" => fired(SignalOf[c]))
      BY <2>1, <2>2, MovingInv DEF Errors
    <2>3. CASE pc' = [pc EXCEPT ![c] = "repairing"] /\ outcome' = outcome /\ e = "object"
      BY <2>1, <2>3, MovingInv
    <2>4. ASSUME NEW o \in Recovered, settle(c, o), e = "object"
          PROVE  IInv' /\ InnerStep
      <3>1. /\ o \in Outcome /\ o.code = "none" /\ o.recovery # "none"
            /\ o.object <=> o.recovery \in {"repaired", "salvaged"}
        BY RecoveredOutcomes
      <3>2. Owed(c, e, o)
        BY <2>4, <3>1 DEF Owed
      <3> QED
        BY <2>1, <2>4, <3>1, <3>2, PlainInv
    <2>5. \/ pc' = [pc EXCEPT ![c] = "handling"] /\ outcome' = outcome /\ (e = "object" => fired(SignalOf[c]))
          \/ pc' = [pc EXCEPT ![c] = "repairing"] /\ outcome' = outcome /\ e = "object"
          \/ e = "object" /\ \E o \in Recovered : settle(c, o)
      BY <1>7, <2>1 DEF RequestFails, recoverStructuredOutput, unrepairable, Recovered, settle
    <2> QED
      BY <2>2, <2>3, <2>4, <2>5
  <1>8. ASSUME NEW e \in Errors, RepairFails(c, e) PROVE IInv' /\ InnerStep
    <2>1. pc[c] \in InPhases /\ error' = [error EXCEPT ![c] = e] /\ c \in Structured
      BY <1>0, <1>8 DEF RepairFails, InPhases, Phases, IInv, ErrorInv
    <2>2. CASE e \notin {"object", "output"} /\ repairThrows(c, e)
      <3>1. handleGenerateError(c, e) /\ UNCHANGED <<limiterVars, ended>> /\ e # "object"
        BY <1>8, <2>2 DEF RepairFails, recoverRepair
      <3> QED
        BY <2>1, <3>1, HandledInv
    <2>3. CASE ~(e \notin {"object", "output"} /\ repairThrows(c, e))
      <3>1. PICK o \in Recovered : settle(c, o)
        BY <1>8, <2>3 DEF RepairFails, recoverRepair, Recovered, settle
      <3>2. UNCHANGED <<limiterVars, runVars>> /\ e # "credit"
        BY <1>8, <2>3 DEF RepairFails, recoverRepair, repairThrows, mapError
      <3>3. /\ o \in Outcome /\ o.code = "none" /\ o.recovery # "none"
            /\ o.object <=> o.recovery \in {"repaired", "salvaged"}
        BY RecoveredOutcomes
      <3>4. Owed(c, e, o)
        BY <3>2, <3>3 DEF Owed
      <3> QED
        BY <2>1, <3>1, <3>2, <3>3, <3>4, PlainInv
    <2> QED
      BY <2>2, <2>3
  <1> QED
    BY <1>1, <1>2, <1>3, <1>4, <1>5, <1>6, <1>7, <1>8 DEF CallStep

\* A step of the signals' owners.
LEMMA SignalsInv ==
  ASSUME IInv, NEW s \in CallerSignals, Stop(s) \/ RunEnds(s)
  PROVE  IInv' /\ InnerStep
  <1> USE DEF callVars, limiterVars
  <1>1. SignalsOnlyFire /\ ended \subseteq ended' /\ UNCHANGED <<callVars, limiterVars, stoppers>>
    BY DEF IInv, TypeOK, SignalsOnlyFire, Stop, RunEnds
  <1>2. TypeOK'
    BY <1>1 DEF IInv, TypeOK, SignalsOnlyFire, Stop, RunEnds
  <1>3. InnerStep
    BY <1>1 DEF InnerStep, IInv, TypeOK
  <1>4. PermitsConserved' /\ QueueInv'
    BY <1>3, InnerKeeps DEF IInv
  <1>5. OneStopperPerRun'
    BY DEF IInv, TypeOK, OneStopperPerRun, Stop, RunEnds
  <1>6. CallInv'
    BY <1>1, FiredStays
    DEF IInv, CallInv, ErrorInv, CreditRefusalStopsRun, RecoveryRecorded, isSettled
  <1> QED
    BY <1>2, <1>3, <1>4, <1>5, <1>6 DEF IInv, CallInv

\* So does a step that changes nothing.
LEMMA StutterInv == ASSUME IInv, UNCHANGED vars PROVE IInv' /\ InnerStep
  <1> USE DEF vars, callVars, limiterVars, runVars
  <1>1. TypeOK' /\ PermitsConserved' /\ QueueInv'
    BY DEF IInv, TypeOK, PermitsConserved, QueueInv, inside
  <1>2. CallInv' /\ OneStopperPerRun'
    BY DEF IInv, CallInv, ErrorInv, CreditRefusalStopsRun, RecoveryRecorded, OneStopperPerRun,
           isSettled, fired
  <1>3. InnerStep
    BY DEF InnerStep, IInv, TypeOK
  <1> QED
    BY <1>1, <1>2, <1>3 DEF IInv, CallInv

\* What any step is.
LEMMA StepCases ==
  ASSUME IInv, [Next]_vars
  PROVE  \/ \E c \in Calls : Generate(c) \/ Release(c)
         \/ InnerStep
  BY InnerStepsInv, SignalsInv, StutterInv DEF Next

LEMMA NextIInv == IInv /\ [Next]_vars => IInv'
  BY GenerateInv, ReleaseInv, InnerStepsInv, SignalsInv, StutterInv DEF Next

\* The invariant holds in every state.
LEMMA Invariance == Spec => []IInv
  BY InitIInv, NextIInv, PTL DEF Spec

-----------------------------------------------------------------------------
(***************************************************************************)
(* The theorems.                                                           *)
(***************************************************************************)

\* Every variable keeps its type; the limit is positive, so no setting of
\* maxConcurrency makes every call wait for ever (Semaphore.ts:19-34).
THEOREM TypeCorrect == Spec => []TypeOK
  BY Invariance, PTL DEF IInv

\* No permit is lost or made up, and no call waits beside a free one.
THEOREM Conservation == Spec => []PermitsConserved
  BY Invariance, PTL DEF IInv

\* A refusal of credit reaches the caller and its run does not go on.
THEOREM RefusalStops == Spec => []CreditRefusalStopsRun
  BY Invariance, PTL DEF IInv

\* A stop by a refusal is claimed by exactly one call, of that run.
THEOREM OneStopper == Spec => []OneStopperPerRun
  BY Invariance, PTL DEF IInv

\* An answer that missed its schema leaves its trace with a caller who has not stopped.
THEOREM Recorded == Spec => []RecoveryRecorded
  BY Invariance, PTL DEF IInv

\* The limiter implements its promise: the limit is never exceeded, nobody waits while
\* there is room, and calls are let in first come, first served.
THEOREM Refinement == Spec => KeepsLimiter
  <1>1. Init => Limiter!Init
    BY PermitsPositive DEF Init, Limiter!Init, inside
  <1>2. ASSUME IInv, [Next]_vars PROVE [Limiter!Next]_(Limiter!vars)
    <2>1. TypeOK /\ PermitsConserved /\ QueueInv
      BY <1>2 DEF IInv
    <2>2. ASSUME NEW c \in Calls, Generate(c) PROVE Limiter!Next
      <3>1. c \notin inside /\ limit' = limit /\ \A i \in DOMAIN queue : queue[i] # c
        BY <2>1, <2>2 DEF Generate, inside, QueueInv
      <3>2. c \notin inside \union Limiter!Waiting
        BY <3>1 DEF Limiter!Waiting
      <3>3. \/ /\ queue = <<>> /\ queue' = queue /\ inside' = inside \union {c}
               /\ Cardinality(inside) < limit
            \/ /\ queue' = Append(queue, c) /\ inside' = inside
               /\ Cardinality(inside) = limit
        BY <2>1, <2>2, AcquireKeeps
      <3>4. Limiter!Cardinality(inside) = Cardinality(inside)
        BY DEF Limiter!Cardinality, Cardinality
      <3>5. Limiter!Enters(c) \/ Limiter!Queues(c)
        BY <3>1, <3>2, <3>3, <3>4 DEF Limiter!Enters, Limiter!Queues
      <3> QED
        BY <3>5 DEF Limiter!Next
    <2>3. ASSUME NEW c \in Calls, Release(c) PROVE Limiter!Next
      <3>1. limit' = limit
        BY <2>3 DEF Release
      <3>2. Limiter!Leaves(c)
        BY <2>1, <2>3, <3>1, ReleaseKeeps DEF Limiter!Leaves
      <3> QED
        BY <3>2 DEF Limiter!Next
    <2>4. CASE InnerStep
      BY <2>1, <2>4, InnerKeeps DEF Limiter!vars, InnerStep, limiterVars
    <2> QED
      BY <1>2, <2>2, <2>3, <2>4, StepCases
  <1> QED
    BY <1>1, <1>2, Invariance, PTL DEF Spec, KeepsLimiter, Limiter!Spec

\* Failures are told (FailuresAreTold): a refusal of credit to its caller and its run,
\* by one call, and a recovery in the answer.
THEOREM FailuresTold == Spec => []FailuresAreTold
  BY RefusalStops, OneStopper, Recorded, PTL DEF FailuresAreTold

\* The limiter is kept (LimiterIsKept): no permit is lost, and permits go to the calls
\* in the order they came.
THEOREM LimiterKept == Spec => LimiterIsKept
  BY Conservation, Refinement, PTL DEF LimiterIsKept

=============================================================================
