----------------------------- MODULE ClientProofs -----------------------------
(***************************************************************************)
(* Proofs about what a client shares between its calls: the resolutions of *)
(* its registry (RegistryCache), and the runs it saves (TrackingRun); for  *)
(* every set of calls, files, published rows, jobs and ceilings that       *)
(* satisfies their assumptions.                                            *)
(***************************************************************************)
EXTENDS RegistryCache, TrackingRun, SequenceTheorems, FiniteSetTheorems,
        WellFoundedInduction, TLAPS

-----------------------------------------------------------------------------
(* Numbers. *)

\* A set of numbers that has one has a least one.
LEMMA LeastNat ==
  ASSUME NEW S \in SUBSET Nat, S # {}
  PROVE  \E m \in S : \A n \in S : m <= n
  <1> DEFINE R == {ss \in Nat \X Nat : ss[1] < ss[2]}
  <1>1. IsWellFoundedOn(R, Nat)
    BY NatLessThanWellFounded DEF OpToRel
  <1>2. \A x, y \in Nat : <<y, x>> \in R <=> y < x
    OBVIOUS
  <1> HIDE DEF R
  <1>3. PICK x \in S : \A y \in S : ~ (<<y, x>> \in R)
    BY <1>1, WFMin
  <1>4. \A y \in S : ~(y < x)
    BY <1>2, <1>3
  <1>5. \A y \in S : x <= y
    BY <1>4
  <1> QED
    BY <1>5

-----------------------------------------------------------------------------
(***************************************************************************)
(* The invariant of the registry: what every resolution carries with it,   *)
(* cached or not, and how far each call in flight has come.                *)
(***************************************************************************)

\* No file of the name lies in the place.
lacks(i, name) == \A k \in DOMAIN directory[i] : directory[i][k].name # name

\* The first file of its type and name is a whole one, and in the version.
Found(r) ==
    \E i \in Places : \E k \in DOMAIN directory[i] :
        /\ placeType[i] = r.type /\ directory[i][k].name = r.name
        /\ directory[i][k].version = r.version /\ ~broken(directory[i][k])
        /\ \A j \in Places : j < i /\ placeType[j] = r.type => lacks(j, r.name)

\* A resolution is marked where it falls short (ShortcutsAreMarked).
Marked(r) ==
    /\ (r.from = "local" /\ r.type \in {"agent", "command"} /\ r.prompt = r.yaml)
         => "render:raw-yaml-fallback" \in r.degradations
    /\ (r.from = "local" /\ r.type \in {"workflow", "pipeline"} /\ r.prompt = r.yaml)
         => "runtime:missing-section" \in r.degradations
    /\ r.definition = "empty" => "empty-definition" \in r.degradations
    /\ r.prompt = "rerendered" => "runtime:live-rerender-fallback" \in r.degradations
    /\ r.promptHash \notin {None, computeHash(r.prompt)}
         => "prompt-hash-inconsistent" \in r.degradations

\* What holds of every resolution, whoever asked for it.
SoundResolution(r) ==
    /\ r.by \in Calls /\ r.type \in Types /\ r.from \in {"local", "remote"}
    /\ r.from = "local" => HasLocal /\ r.promptHash = None
    /\ Marked(r)

\* What makes a resolution an answer to who asked for a type, a name and a version.
Fits(type, name, version, r) ==
    /\ type \in {"any", r.type} /\ name = r.name /\ version \in {Latest, r.version}
    /\ edits = 0 /\ version = Latest /\ r.from = "local" => Found(r)

CacheInv ==
    /\ DOMAIN cache = Keys
    /\ \A k \in Keys : cache[k] # None => /\ SoundResolution(cache[k])
                                          /\ Fits(k[1], k[2], k[3], cache[k])

\* The pins a result was let through by (PinnedCallersGetWhatTheyPinned).
PinsHold(want, r) ==
    /\ want.hash \in {None, computeHash(r.yaml)}
    /\ want.prompt # None => /\ computeHash(r.prompt) = want.prompt
                             /\ r.from = "remote" /\ r.type \in {"agent", "command"}

listedLocally(filter) == IF HasLocal THEN listLocal(filter) ELSE {}

\* A call that looks at a local file has found nothing before it.
SearchesLocally(x) ==
    /\ HasLocal /\ x.at \in Places /\ candidate(x.want, x.at)
    /\ edits = 0 /\ x.want.version = Latest =>
         \A j \in Places : j < x.at /\ candidate(x.want, j) => lacks(j, x.want.name)

HoldsFile(x) ==
    /\ placeType[x.at] \in {"agent", "command"}
    /\ \E d \in Directories : \E i \in Places : \E k \in DOMAIN d[i] : x.held = d[i][k]
    /\ ~broken(x.held) /\ x.held.name = x.want.name
    /\ edits = 0 => \E k \in DOMAIN directory[x.at] : x.held = directory[x.at][k]

HoldsRow(x) ==
    /\ x.held \in Rows
    /\ x.want.type \in {"any", x.held.type} /\ x.want.name = x.held.name
    /\ x.want.version \in {Latest, x.held.version}

CallOK(c, x) ==
    /\ DOMAIN x = DOMAIN Idle
    /\ x.pc \in {"idle", "listing"} \union Waiting \union Outcomes
    /\ x.pc = "failed" <=> x.error \in Errors
    /\ x.pc \in Waiting => x.want \in Wanted /\ (x.since = clears \/ c \in straddlers)
    /\ x.pc \in {"reading", "rendering"} => SearchesLocally(x)
    /\ x.pc \in {"searching", "fetching", "rerendering"} => x.at = 0
    /\ x.pc = "rendering" => HoldsFile(x)
    /\ x.pc = "rerendering" => HoldsRow(x)
    /\ x.pc = "answered" => /\ SoundResolution(x.result)
                            /\ Fits(x.want.type, x.want.name, x.want.version, x.result)
                            /\ PinsHold(x.want, x.result)
    /\ x.pc = "listing" /\ edits = 0 => x.held = listedLocally(x.type)
    /\ x.pc = "listed" /\ edits = 0 =>
         \E remote : x.result = merged(listedLocally(x.type), remote)

CallsInv == DOMAIN call = Calls /\ \A c \in Calls : CallOK(c, call[c])

\* Who has a key was warned of each reason met, once.
WarnedInv ==
    /\ warned \subseteq Reasons /\ met \subseteq Reasons
    /\ warnings \in [Reasons -> Nat]
    /\ warned = IF HasKey THEN met ELSE {}
    /\ EachReasonIsToldOnce

WorldInv ==
    /\ directory \in Directories /\ published \subseteq Rows
    /\ edits \in 0..MaxEdits /\ clears \in 0..MaxClears
    /\ straddlers \subseteq Calls

RegistryIInv == WorldInv /\ CacheInv /\ CallsInv /\ WarnedInv /\ ClearForgets

-----------------------------------------------------------------------------
(* What becomes of a call, whatever step it takes. *)

rest == <<directory, published, edits, clears, straddlers>>

\* The parts of the invariant a call's step can disturb.
CoreInv == CacheInv /\ CallsInv /\ ClearForgets

\* A step of one call that leaves the cache alone only has to keep its own state
\* in order.
LEMMA OneCall ==
  ASSUME RegistryIInv, NEW c \in Calls, UNCHANGED <<cache, rest>>,
         DOMAIN call' = Calls, \A d \in Calls \ {c} : call'[d] = call[d],
         CallOK(c, call'[c])
  PROVE  CoreInv'
  <1> USE DEF RegistryIInv, rest
  <1>1. \A d, x : CallOK(d, x)' <=> CallOK(d, x')
    BY DEF CallOK, SearchesLocally, HoldsFile, HoldsRow, SoundResolution, Fits, PinsHold,
           Found, lacks, listedLocally, listLocal, Marked
  <1>2. CallsInv'
    BY <1>1 DEF CallsInv
  <1>3. CacheInv'
    BY DEF CacheInv, SoundResolution, Fits, Found, lacks, Marked
  <1>4. ClearForgets'
    BY DEF ClearForgets
  <1> QED
    BY <1>2, <1>3, <1>4 DEF CoreInv

\* On to the next place the call may look at, skipping none; or to the registry.
LEMMA GoesOn ==
  ASSUME NEW want, NEW i \in 0..8
  PROVE  LET to == goesOn(want, i)
         IN  \/ /\ to.pc = "reading" /\ HasLocal
                /\ to.at \in Places /\ i < to.at /\ candidate(want, to.at)
                /\ \A j \in Places : i < j /\ j < to.at => ~candidate(want, j)
             \/ to.pc \in {"searching", "fetching"} /\ to.at = 0
  <1> DEFINE left == {j \in Places : j > i /\ candidate(want, j)}
             next == CHOOSE j \in left : \A n \in left : j <= n
  <1>1. ASSUME left # {} PROVE next \in left /\ \A n \in left : next <= n
    <2>1. left \in SUBSET Nat
      BY DEF Places
    <2> HIDE DEF left
    <2>2. \E j \in left : \A n \in left : j <= n
      BY <1>1, <2>1, LeastNat
    <2> QED
      BY <2>2
  <1>2. CASE HasLocal /\ left # {}
    <2>1. goesOn(want, i) = [pc |-> "reading", at |-> next]
      BY <1>2 DEF goesOn
    <2> QED
      BY <1>1, <1>2, <2>1 DEF Places
  <1>3. CASE ~(HasLocal /\ left # {})
    BY <1>3 DEF goesOn
  <1> QED
    BY <1>2, <1>3

\* A call that fails leaves the invariant as it was.
LEMMA Fails ==
  ASSUME RegistryIInv, NEW c \in Calls, NEW error \in Errors,
         fails(c, error), UNCHANGED rest
  PROVE  CoreInv'
  <1>1. /\ DOMAIN call' = Calls /\ \A d \in Calls \ {c} : call'[d] = call[d]
        /\ DOMAIN call'[c] = DOMAIN Idle
        /\ call'[c].pc = "failed" /\ call'[c].error = error
    BY DEF RegistryIInv, CallsInv, CallOK, fails, Idle
  <1>2. CallOK(c, call'[c])
    BY <1>1 DEF CallOK, Outcomes, Waiting
  <1> QED
    BY <1>1, <1>2, OneCall DEF fails

\* A call that found nothing where it looked looks at the next place.
LEMMA Advances ==
  ASSUME RegistryIInv, NEW c \in Calls, call[c].pc \in {"reading", "rendering"},
         edits = 0 /\ call[c].want.version = Latest => lacks(call[c].at, call[c].want.name),
         advances(c), UNCHANGED rest
  PROVE  CoreInv'
  <1> DEFINE to == goesOn(call[c].want, call[c].at)
  <1>1. CallOK(c, call[c])
    BY DEF RegistryIInv, CallsInv
  <1>2. SearchesLocally(call[c]) /\ call[c].at \in 0..8
    BY <1>1 DEF CallOK, SearchesLocally, Places
  <1>3. \/ /\ to.pc = "reading" /\ HasLocal
           /\ to.at \in Places /\ call[c].at < to.at /\ candidate(call[c].want, to.at)
           /\ \A j \in Places : call[c].at < j /\ j < to.at => ~candidate(call[c].want, j)
        \/ to.pc \in {"searching", "fetching"} /\ to.at = 0
    BY <1>2, GoesOn
  <1> HIDE DEF to
  <1>4. /\ DOMAIN call' = Calls /\ \A d \in Calls \ {c} : call'[d] = call[d]
        /\ DOMAIN call'[c] = DOMAIN Idle
        /\ call'[c].pc = to.pc /\ call'[c].at = to.at /\ call'[c].want = call[c].want
        /\ call'[c].since = call[c].since /\ call'[c].error = call[c].error
        /\ UNCHANGED cache
    BY <1>1 DEF RegistryIInv, CallsInv, CallOK, advances, Idle, to
  <1>5. to.pc = "reading" => SearchesLocally(call'[c])
    BY <1>2, <1>3, <1>4 DEF SearchesLocally, Places
  <1>6. to.pc \in {"reading", "searching", "fetching"} /\ (to.pc # "reading" => to.at = 0)
    BY <1>3
  <1>7. CallOK(c, call'[c])
    BY <1>1, <1>4, <1>5, <1>6 DEF CallOK, Outcomes, Waiting
  <1> QED
    BY <1>4, <1>7, OneCall

\* The pins are checked: what answers a call holds them, or the call fails.
LEMMA Answers ==
  ASSUME NEW c \in Calls, NEW want, NEW r, SoundResolution(r),
         Fits(want.type, want.name, want.version, r),
         CallOK(c, call[c]), call[c].pc \in Waiting \union {"idle"}
  PROVE  CallOK(c, answers(c, want, r))
  <1> DEFINE fault == verifyPins(want, r)
             x == answers(c, want, r)
  <1>1. fault \in {None, "yaml", "prompt", "unavailable"}
    BY DEF verifyPins
  <1>2. /\ DOMAIN x = DOMAIN Idle
        /\ x.pc = IF fault = None THEN "answered" ELSE "failed"
        /\ x.want = want /\ x.error = fault
        /\ fault = None => x.result = r
    BY DEF answers, CallOK, Idle
  <1>3. ASSUME fault = None PROVE PinsHold(want, r)
    <2>1. want.hash \in {None, computeHash(r.yaml)}
      BY <1>3, TextsAssumption DEF verifyPins, Errors
    <2>2. ASSUME want.prompt # None
          PROVE  verifiablePrompt(r) # None /\ computeHash(verifiablePrompt(r)) = want.prompt
      BY <1>3, <2>1, <2>2, TextsAssumption DEF verifyPins, Errors
    <2>3. ASSUME verifiablePrompt(r) # None
          PROVE  /\ verifiablePrompt(r) = r.prompt
                 /\ r.type \in {"agent", "command"} /\ r.promptHash # None
      BY <2>3 DEF verifiablePrompt
    <2> QED
      BY <2>1, <2>2, <2>3 DEF PinsHold, SoundResolution
  <1> HIDE DEF fault, x
  <1>4. ASSUME fault = None PROVE CallOK(c, x)
    BY <1>2, <1>3, <1>4, TextsAssumption DEF CallOK, Outcomes, Waiting
  <1>5. ASSUME fault # None PROVE CallOK(c, x)
    BY <1>1, <1>2, <1>5 DEF CallOK, Outcomes, Waiting, Errors
  <1> QED
    BY <1>4, <1>5 DEF x

\* A resolution that a call in flight brings home is stored and given to it.
LEMMA Resolves ==
  ASSUME RegistryIInv, NEW c \in Calls, call[c].pc \in Waiting, NEW r,
         SoundResolution(r), Fits(call[c].want.type, call[c].want.name, call[c].want.version, r),
         r.by = c, r.since = call[c].since, resolves(c, r), UNCHANGED rest
  PROVE  CoreInv'
  <1> DEFINE want == call[c].want
             k == cacheKey(want)
  <1>1. CallOK(c, call[c]) /\ want \in Wanted
    BY DEF RegistryIInv, CallsInv, CallOK
  <1>2. k \in Keys /\ k[1] = want.type /\ k[2] = want.name /\ k[3] = want.version
    BY <1>1 DEF Keys, cacheKey
  <1>3. /\ DOMAIN cache' = Keys /\ cache'[k] = r
        /\ \A j \in Keys \ {k} : cache'[j] = cache[j]
    BY <1>2 DEF RegistryIInv, CacheInv, resolves
  <1>4. /\ DOMAIN call' = Calls /\ call'[c] = answers(c, want, r)
        /\ \A d \in Calls \ {c} : call'[d] = call[d]
    BY DEF RegistryIInv, CallsInv, resolves
  <1>5. CallOK(c, call'[c])
    BY <1>1, <1>4, Answers
  <1>6. \A d, x : CallOK(d, x)' <=> CallOK(d, x')
    BY DEF rest, CallOK, SearchesLocally, HoldsFile, HoldsRow, SoundResolution, Fits, PinsHold,
           Found, lacks, listedLocally, listLocal, Marked
  <1>7. CallsInv'
    BY <1>4, <1>5, <1>6 DEF CallsInv, RegistryIInv
  <1>8. \A type, name, version, x :
           /\ Fits(type, name, version, x)' <=> Fits(type', name', version', x')
           /\ SoundResolution(x)' <=> SoundResolution(x')
    BY DEF rest, Fits, Found, lacks, SoundResolution, Marked
  <1> HIDE DEF k, want
  <1>9. CacheInv'
    <2>1. ASSUME NEW j \in Keys, cache'[j] # None
          PROVE  SoundResolution(cache'[j]) /\ Fits(j[1], j[2], j[3], cache'[j])
      <3>1. CASE j = k
        BY <1>2, <1>3, <3>1 DEF want
      <3>2. CASE j # k
        BY <1>3, <2>1, <3>2 DEF RegistryIInv, CacheInv
      <3> QED
        BY <3>1, <3>2
    <2> QED
      BY <1>3, <1>8, <2>1 DEF CacheInv
  <1>10. ClearForgets'
    <2>1. r.since = clears \/ r.by \in straddlers
      BY <1>1 DEF CallOK
    <2> QED
      BY <1>3, <2>1 DEF ClearForgets, RegistryIInv, rest
  <1> QED
    BY <1>7, <1>9, <1>10 DEF CoreInv

\* The end of resolveLocal: the call goes on, fails, or has found what it asked
\* for in the first place that has it.
LEMMA LocalEnd ==
  ASSUME RegistryIInv, NEW c \in Calls, call[c].pc \in {"reading", "rendering"},
         NEW file, NEW prompt, NEW degradations,
         ~broken(file), file.name = call[c].want.name,
         edits = 0 => \E k \in DOMAIN directory[call[c].at] : file = directory[call[c].at][k],
         Marked(localResolution(placeType[call[c].at], file, prompt, degradations, c)),
         localEnd(c, file, prompt, degradations), UNCHANGED rest
  PROVE  CoreInv'
  <1> DEFINE i == call[c].at
             want == call[c].want
             r == localResolution(placeType[i], file, prompt, degradations, c)
  <1>1. CallOK(c, call[c]) /\ SearchesLocally(call[c]) /\ call[c].pc \in Waiting
    BY DEF RegistryIInv, CallsInv, CallOK, Waiting
  <1> DEFINE refused == file.state \in {"misshapen", "sectionless"}
  <1>2. CASE versionMismatch(want, file)
    BY <1>2, Advances DEF localEnd, versionMismatch
  <1>3. CASE ~versionMismatch(want, file) /\ refused
    BY <1>3, Fails DEF localEnd, Errors
  <1>4. CASE ~versionMismatch(want, file) /\ ~refused
    <2>1. placeType[i] \in Types
      BY <1>1 DEF SearchesLocally, Places, placeType, Types
    <2>2. SoundResolution(r)
      BY <1>1, <2>1 DEF SoundResolution, localResolution, SearchesLocally
    <2>3. /\ want.type \in {"any", r.type} /\ want.version \in {Latest, r.version}
          /\ r.type = placeType[i] /\ r.name = want.name /\ r.version = file.version
          /\ r.by = c /\ r.since = call[c].since
      BY <1>1, <1>4 DEF SearchesLocally, candidate, localResolution, versionMismatch
    <2>4. ASSUME edits = 0, want.version = Latest PROVE Found(r)
      <3>1. \A j \in Places : j < i /\ placeType[j] = placeType[i] => lacks(j, want.name)
        BY <1>1, <2>4 DEF SearchesLocally, candidate
      <3>2. PICK k \in DOMAIN directory[i] : file = directory[i][k]
        BY <2>4
      <3>3. i \in Places
        BY <1>1 DEF SearchesLocally
      <3> QED
        BY <2>3, <3>1, <3>2, <3>3 DEF Found
    <2>5. Fits(want.type, want.name, want.version, r)
      BY <2>3, <2>4 DEF Fits
    <2>6. resolves(c, r)
      BY <1>4 DEF localEnd
    <2> QED
      BY <1>1, <2>2, <2>3, <2>5, <2>6, Resolves
  <1> QED
    BY <1>2, <1>3, <1>4

-----------------------------------------------------------------------------
(* The steps of a call. *)

\* A local file is read (resolveLocal): an agent's or a command's is rendered
\* next, a workflow's or a pipeline's is the resolution.
LEMMA ReadInv == ASSUME RegistryIInv, NEW c \in Calls, Read(c) PROVE RegistryIInv'
  <1> DEFINE i == call[c].at
             files == directory[i]
             type == placeType[i]
             hasSection(file) == file.state \in {"fine", "misshapen"}
  <1>1. /\ call[c].pc = "reading" /\ UNCHANGED rest
        /\ UNCHANGED <<warned, warnings, met>>
    BY DEF Read, rest
  <1>2. CallOK(c, call[c]) /\ SearchesLocally(call[c]) /\ i \in Places
    BY <1>1 DEF RegistryIInv, CallsInv, CallOK, SearchesLocally
  <1>3. type \in Types
    BY <1>2 DEF Places, placeType, Types
  <1>4. \A k \in DOMAIN files : files[k].yaml \notin Renders
    BY <1>2, TextsAssumption DEF RegistryIInv, WorldInv
  <1>5. CoreInv'
    <2>1. CASE (\A k \in DOMAIN files : files[k].name # call[c].want.name) /\ advances(c)
      BY <1>1, <2>1, Advances DEF lacks
    <2>2. CASE fails(c, "configuration")
      BY <1>1, <2>2, Fails DEF Errors
    <2>3. ASSUME NEW k \in DOMAIN files, files[k].name = call[c].want.name, ~broken(files[k]),
                 type \in {"agent", "command"},
                 call' = [call EXCEPT ![c].pc = "rendering", ![c].held = files[k]],
                 UNCHANGED cache
          PROVE  CoreInv'
      <3>1. /\ DOMAIN call' = Calls /\ \A d \in Calls \ {c} : call'[d] = call[d]
            /\ DOMAIN call'[c] = DOMAIN Idle
            /\ call'[c].pc = "rendering" /\ call'[c].held = files[k]
            /\ call'[c].at = i /\ call'[c].want = call[c].want
            /\ call'[c].since = call[c].since /\ call'[c].error = call[c].error
        BY <1>2, <2>3 DEF RegistryIInv, CallsInv, CallOK, Idle
      <3>2. SearchesLocally(call'[c])
        BY <1>2, <3>1 DEF SearchesLocally
      <3>3. HoldsFile(call'[c])
        BY <1>2, <2>3, <3>1 DEF HoldsFile, RegistryIInv, WorldInv
      <3>4. CallOK(c, call'[c])
        BY <1>1, <1>2, <3>1, <3>2, <3>3 DEF CallOK, Waiting, Outcomes
      <3> QED
        BY <1>1, <2>3, <3>1, <3>4, OneCall
    <2>4. ASSUME NEW k \in DOMAIN files, files[k].name = call[c].want.name, ~broken(files[k]),
                 type \in {"workflow", "pipeline"}, NEW prompt, NEW degradations,
                 prompt = files[k].yaml => "runtime:missing-section" \in degradations,
                 prompt # "rerendered",
                 localEnd(c, files[k], prompt, degradations)
          PROVE  CoreInv'
      <3>1. Marked(localResolution(type, files[k], prompt, degradations, c))
        BY <2>4 DEF Marked, localResolution
      <3> QED
        BY <1>1, <1>2, <2>4, <3>1, LocalEnd
    <2>5. ASSUME NEW k \in DOMAIN files, files[k].name = call[c].want.name, ~broken(files[k]),
                 type \in {"workflow", "pipeline"}, localEnd(c, files[k], "structure", {})
          PROVE  CoreInv'
      BY <1>4, <2>4, <2>5 DEF Renders
    <2>6. ASSUME NEW k \in DOMAIN files, files[k].name = call[c].want.name, ~broken(files[k]),
                 type \in {"workflow", "pipeline"},
                 localEnd(c, files[k], files[k].yaml, {"runtime:missing-section"})
          PROVE  CoreInv'
      BY <1>4, <2>4, <2>6 DEF Renders
    <2>7. \A k \in DOMAIN files : hasSection(files[k]) => ~broken(files[k])
      BY DEF broken
    <2> QED
      BY <1>1, <2>1, <2>2, <2>3, <2>5, <2>6, <2>7 DEF Read
  <1> QED
    BY <1>1, <1>5 DEF RegistryIInv, CoreInv, WorldInv, WarnedInv, EachReasonIsToldOnce, rest

\* A file is rendered (tryRenderViaAPI), or its raw text is the prompt: marked
\* both ways, and warned of once for each reason.
LEMMA PreviewInv == ASSUME RegistryIInv, NEW c \in Calls, Preview(c) PROVE RegistryIInv'
  <1> DEFINE file == call[c].held
             type == placeType[call[c].at]
  <1>1. call[c].pc = "rendering" /\ UNCHANGED rest
    BY DEF Preview, rest
  <1>2. CallOK(c, call[c]) /\ SearchesLocally(call[c]) /\ HoldsFile(call[c])
    BY <1>1 DEF RegistryIInv, CallsInv, CallOK
  <1>3. file.yaml \notin Renders
    BY <1>2, TextsAssumption DEF HoldsFile
  <1>4. ASSUME NEW prompt, NEW degradations,
               prompt = file.yaml => "render:raw-yaml-fallback" \in degradations,
               prompt # "rerendered", localEnd(c, file, prompt, degradations)
        PROVE  CoreInv'
    <2>1. Marked(localResolution(type, file, prompt, degradations, c))
      BY <1>2, <1>4 DEF Marked, localResolution, HoldsFile
    <2> QED
      BY <1>1, <1>2, <1>4, <2>1, LocalEnd DEF HoldsFile
  <1>5. CASE localEnd(c, file, "rendered", {}) /\ UNCHANGED <<warned, warnings, met>>
    <2>1. CoreInv'
      BY <1>3, <1>4, <1>5 DEF Renders
    <2> QED
      BY <1>1, <1>5, <2>1 DEF RegistryIInv, CoreInv, WorldInv, WarnedInv, EachReasonIsToldOnce, rest
  <1>6. ASSUME NEW status \in {"401", "403", "down"},
               met' = met \union {diagnosis(status)},
               warned' = IF HasKey /\ warnKey(status) \notin warned
                         THEN warned \union {warnKey(status)} ELSE warned,
               warnings' = IF HasKey /\ warnKey(status) \notin warned
                           THEN [warnings EXCEPT ![warnKey(status)] = @ + 1] ELSE warnings,
               localEnd(c, file, file.yaml, rawFallback)
        PROVE  RegistryIInv'
    <2>1. CoreInv'
      BY <1>3, <1>4, <1>6 DEF Renders, rawFallback
    <2>2. warnKey(status) = diagnosis(status) /\ warnKey(status) \in Reasons
      BY <1>6 DEF warnKey, diagnosis, Reasons
    <2> DEFINE reason == warnKey(status)
    <2> HIDE DEF reason
    <2>3. WarnedInv'
      <3>1. reason \in Reasons /\ met' = met \union {reason}
        BY <1>6, <2>2 DEF reason
      <3>2. CASE ~HasKey
        BY <1>6, <3>1, <3>2 DEF reason, RegistryIInv, WarnedInv, EachReasonIsToldOnce
      <3>3. CASE HasKey /\ reason \in warned
        BY <1>6, <3>1, <3>3 DEF reason, RegistryIInv, WarnedInv, EachReasonIsToldOnce
      <3>4. CASE HasKey /\ reason \notin warned
        <4>1. warned' = warned \union {reason} /\ warnings' = [warnings EXCEPT ![reason] = @ + 1]
          BY <1>6, <3>4 DEF reason
        <4>2. warnings[reason] = 0
          BY <3>1, <3>4 DEF RegistryIInv, WarnedInv, EachReasonIsToldOnce
        <4> QED
          BY <3>1, <3>4, <4>1, <4>2 DEF RegistryIInv, WarnedInv, EachReasonIsToldOnce
      <3> QED
        BY <3>2, <3>3, <3>4
    <2> QED
      BY <1>1, <2>1, <2>3 DEF RegistryIInv, CoreInv, WorldInv, rest
  <1> QED
    BY <1>5, <1>6 DEF Preview

\* Whatever changes nothing but calls and the cache keeps the rest.
LEMMA CoreIsEnough ==
  ASSUME RegistryIInv, UNCHANGED <<rest, warned, warnings, met>>, CoreInv'
  PROVE  RegistryIInv'
  BY DEF RegistryIInv, CoreInv, WorldInv, WarnedInv, EachReasonIsToldOnce, rest

\* An untyped call learns the type the registry has under the name, or fails.
LEMMA SearchInv == ASSUME RegistryIInv, NEW c \in Calls, Search(c) PROVE RegistryIInv'
  <1>1. call[c].pc = "searching" /\ UNCHANGED <<rest, warned, warnings, met>>
    BY DEF Search, rest
  <1>2. CASE fails(c, "unreachable") \/ fails(c, "configuration")
    BY <1>1, <1>2, Fails, CoreIsEnough DEF Errors
  <1>3. ASSUME NEW t, call' = [call EXCEPT ![c].pc = "fetching", ![c].type = t], UNCHANGED cache
        PROVE  RegistryIInv'
    <2>1. /\ DOMAIN call' = Calls /\ \A d \in Calls \ {c} : call'[d] = call[d]
          /\ DOMAIN call'[c] = DOMAIN Idle
          /\ call'[c].pc = "fetching" /\ call'[c].at = call[c].at
          /\ call'[c].want = call[c].want /\ call'[c].since = call[c].since
          /\ call'[c].error = call[c].error
      BY <1>3 DEF RegistryIInv, CallsInv, CallOK, Idle
    <2>2. CallOK(c, call'[c])
      BY <1>1, <2>1 DEF RegistryIInv, CallsInv, CallOK, Waiting, Outcomes
    <2> QED
      BY <1>1, <1>3, <2>1, <2>2, OneCall, CoreIsEnough
  <1> QED
    BY <1>1, <1>2, <1>3 DEF Search

\* What the registry serves is of the type and the version asked for.
LEMMA Serves ==
  ASSUME RegistryIInv, NEW c \in Calls,
         NEW r \in serves(call[c].want, remoteType(c))
  PROVE  /\ r \in Rows
         /\ call[c].want.type \in {"any", r.type} /\ call[c].want.name = r.name
         /\ call[c].want.version \in {Latest, r.version}
  BY DEF serves, remoteType, RegistryIInv, WorldInv

\* A resolution made from a row is sound, frozen or rendered anew.
LEMMA RemoteSound ==
  ASSUME RegistryIInv, NEW c \in Calls, NEW r \in Rows, NEW frozen \in BOOLEAN,
         call[c].want.type \in {"any", r.type}, call[c].want.name = r.name,
         call[c].want.version \in {Latest, r.version}
  PROVE  LET x == remoteResolution(r, frozen, c)
         IN  /\ SoundResolution(x) /\ x.by = c /\ x.since = call[c].since
             /\ Fits(call[c].want.type, call[c].want.name, call[c].want.version, x)
  <1> DEFINE x == remoteResolution(r, frozen, c)
  <1>1. /\ x.by = c /\ x.since = call[c].since
        /\ x.type = r.type /\ x.name = r.name /\ x.version = r.version
        /\ x.from = "remote" /\ x.definition = definitionOf(r)
        /\ x.promptHash = IF frozen THEN r.promptHash ELSE None
        /\ x.prompt = IF frozen THEN r.prompt ELSE "rerendered"
        /\ x.degradations = degradedDefinition(r)
             \union (IF frozen /\ inconsistent(r) THEN {"prompt-hash-inconsistent"} ELSE {})
             \union (IF frozen THEN {} ELSE {"runtime:live-rerender-fallback"})
    BY DEF remoteResolution
  <1> HIDE DEF x
  <1>2. x.definition = "empty" => "empty-definition" \in x.degradations
    BY <1>1 DEF definitionOf, degradedDefinition
  <1>3. x.prompt = "rerendered" => "runtime:live-rerender-fallback" \in x.degradations
    BY <1>1, TextsAssumption DEF Renders
  <1>4. x.promptHash \notin {None, computeHash(x.prompt)} => "prompt-hash-inconsistent" \in x.degradations
    BY <1>1 DEF inconsistent
  <1>5. r.type \in Types
    BY SourcesAssumption
  <1>6. SoundResolution(x)
    BY <1>1, <1>2, <1>3, <1>4, <1>5 DEF SoundResolution, Marked
  <1>7. Fits(call[c].want.type, call[c].want.name, call[c].want.version, x)
    BY <1>1 DEF Fits
  <1> QED
    BY <1>1, <1>6, <1>7 DEF x

\* A fetch brings the row, which is the resolution or has to be rendered.
LEMMA FetchInv == ASSUME RegistryIInv, NEW c \in Calls, Fetch(c) PROVE RegistryIInv'
  <1> DEFINE rows == serves(call[c].want, remoteType(c))
  <1>1. call[c].pc = "fetching" /\ UNCHANGED <<rest, warned, warnings, met>>
    BY DEF Fetch, rest
  <1>2. CASE \E error \in {"subscription", "unreachable", "configuration"} : fails(c, error)
    BY <1>1, <1>2, Fails, CoreIsEnough DEF Errors
  <1>3. ASSUME NEW r \in rows, resolves(c, remoteResolution(r, TRUE, c)) PROVE RegistryIInv'
    BY <1>1, <1>3, Serves, RemoteSound, Resolves, CoreIsEnough DEF Waiting
  <1>4. ASSUME NEW r \in rows,
               call' = [call EXCEPT ![c].pc = "rerendering", ![c].held = r], UNCHANGED cache
        PROVE  RegistryIInv'
    <2>1. /\ DOMAIN call' = Calls /\ \A d \in Calls \ {c} : call'[d] = call[d]
          /\ DOMAIN call'[c] = DOMAIN Idle
          /\ call'[c].pc = "rerendering" /\ call'[c].at = call[c].at /\ call'[c].held = r
          /\ call'[c].want = call[c].want /\ call'[c].since = call[c].since
          /\ call'[c].error = call[c].error
      BY <1>4 DEF RegistryIInv, CallsInv, CallOK, Idle
    <2>2. HoldsRow(call'[c])
      BY <2>1, Serves DEF HoldsRow
    <2>3. CallOK(c, call'[c])
      BY <1>1, <2>1, <2>2 DEF RegistryIInv, CallsInv, CallOK, Waiting, Outcomes
    <2> QED
      BY <1>1, <1>4, <2>1, <2>3, OneCall, CoreIsEnough
  <1> QED
    BY <1>1, <1>2, <1>3, <1>4 DEF Fetch

\* A row without a frozen prompt is rendered, or fails.
LEMMA RerenderInv == ASSUME RegistryIInv, NEW c \in Calls, Rerender(c) PROVE RegistryIInv'
  <1>1. call[c].pc = "rerendering" /\ UNCHANGED <<rest, warned, warnings, met>>
    BY DEF Rerender, rest
  <1>2. HoldsRow(call[c])
    BY <1>1 DEF RegistryIInv, CallsInv, CallOK
  <1>3. CASE fails(c, "configuration")
    BY <1>1, <1>3, Fails, CoreIsEnough DEF Errors
  <1>4. CASE resolves(c, remoteResolution(call[c].held, FALSE, c))
    BY <1>1, <1>2, <1>4, RemoteSound, Resolves, CoreIsEnough DEF Waiting, HoldsRow
  <1> QED
    BY <1>3, <1>4 DEF Rerender

\* list() scans the local files, and adds what the registry has beside them.
LEMMA ListInv == ASSUME RegistryIInv, NEW c \in Calls, List(c) PROVE RegistryIInv'
  <1>1. call[c].pc = "idle" /\ UNCHANGED <<cache, rest, warned, warnings, met>>
    BY DEF List, rest
  <1>2. PICK filter : call' = [call EXCEPT ![c].pc = "listing", ![c].type = filter,
                                           ![c].held = listedLocally(filter)]
    BY DEF List, listedLocally
  <1>3. /\ DOMAIN call' = Calls /\ \A d \in Calls \ {c} : call'[d] = call[d]
        /\ DOMAIN call'[c] = DOMAIN Idle
        /\ call'[c].pc = "listing" /\ call'[c].type = filter
        /\ call'[c].held = listedLocally(filter) /\ call'[c].error = call[c].error
    BY <1>2 DEF RegistryIInv, CallsInv, CallOK, Idle
  <1>4. CallOK(c, call'[c])
    BY <1>1, <1>3 DEF RegistryIInv, CallsInv, CallOK, Waiting, Outcomes
  <1> QED
    BY <1>1, <1>3, <1>4, OneCall, CoreIsEnough

LEMMA ListedInv == ASSUME RegistryIInv, NEW c \in Calls, Listed(c) PROVE RegistryIInv'
  <1> DEFINE local == call[c].held
  <1>1. call[c].pc = "listing" /\ UNCHANGED <<cache, rest, warned, warnings, met>>
    BY DEF Listed, rest
  <1>2. edits = 0 => local = listedLocally(call[c].type)
    BY <1>1 DEF RegistryIInv, CallsInv, CallOK
  <1>3. ASSUME NEW l, call' = [call EXCEPT ![c].pc = "listed", ![c].held = None, ![c].result = l],
               \E remote : l = merged(local, remote)
        PROVE  RegistryIInv'
    <2>1. /\ DOMAIN call' = Calls /\ \A d \in Calls \ {c} : call'[d] = call[d]
          /\ DOMAIN call'[c] = DOMAIN Idle
          /\ call'[c].pc = "listed" /\ call'[c].type = call[c].type
          /\ call'[c].result = l /\ call'[c].error = call[c].error
      BY <1>3 DEF RegistryIInv, CallsInv, CallOK, Idle
    <2>2. CallOK(c, call'[c])
      BY <1>1, <1>2, <1>3, <2>1 DEF RegistryIInv, CallsInv, CallOK, Waiting, Outcomes
    <2> QED
      BY <1>1, <2>1, <2>2, OneCall, CoreIsEnough
  <1>4. CASE call' = [call EXCEPT ![c].pc = "failed", ![c].error = "configuration", ![c].held = None]
    BY <1>1, <1>4, Fails, CoreIsEnough DEF fails, Errors
  <1>5. local = merged(local, {})
    BY DEF merged
  <1> QED
    BY <1>3, <1>4, <1>5 DEF Listed

\* A call is made: refused, answered from the cache, or on its way.
LEMMA ResolveInv == ASSUME RegistryIInv, NEW c \in Calls, Resolve(c) PROVE RegistryIInv'
  <1>1. call[c].pc = "idle" /\ UNCHANGED <<cache, rest, warned, warnings, met>>
    BY DEF Resolve, rest
  <1>2. CallOK(c, call[c]) /\ DOMAIN call = Calls
    BY DEF RegistryIInv, CallsInv
  <1>3. PICK want \in Wanted :
          \/ call' = [call EXCEPT ![c].pc = "failed", ![c].want = want, ![c].error = "configuration"]
          \/ cache[cacheKey(want)] # None /\ hit(c, want)
          \/ LET to == goesOn(want, 0)
             IN  call' = [call EXCEPT ![c].pc = to.pc, ![c].at = to.at,
                                      ![c].want = want, ![c].since = clears]
    BY DEF Resolve
  <1>4. /\ cacheKey(want) \in Keys
        /\ cacheKey(want)[1] = want.type /\ cacheKey(want)[2] = want.name
        /\ cacheKey(want)[3] = want.version
    BY DEF Keys, cacheKey
  <1>5. CASE call' = [call EXCEPT ![c].pc = "failed", ![c].want = want, ![c].error = "configuration"]
    <2>1. /\ DOMAIN call' = Calls /\ \A d \in Calls \ {c} : call'[d] = call[d]
          /\ DOMAIN call'[c] = DOMAIN Idle
          /\ call'[c].pc = "failed" /\ call'[c].error = "configuration"
      BY <1>2, <1>5 DEF CallOK, Idle
    <2>2. CallOK(c, call'[c])
      BY <2>1 DEF CallOK, Waiting, Outcomes, Errors
    <2> QED
      BY <1>1, <2>1, <2>2, OneCall, CoreIsEnough
  <1>6. CASE cache[cacheKey(want)] # None /\ hit(c, want)
    <2> DEFINE r == cache[cacheKey(want)]
    <2>1. SoundResolution(r) /\ Fits(want.type, want.name, want.version, r)
      BY <1>4, <1>6 DEF RegistryIInv, CacheInv
    <2>2. /\ DOMAIN call' = Calls /\ \A d \in Calls \ {c} : call'[d] = call[d]
          /\ call'[c] = answers(c, want, r)
      BY <1>2, <1>6 DEF hit
    <2>3. CallOK(c, call'[c])
      BY <1>1, <1>2, <2>1, <2>2, Answers
    <2> QED
      BY <1>1, <2>2, <2>3, OneCall, CoreIsEnough
  <1>7. ASSUME NEW to, to = goesOn(want, 0),
               call' = [call EXCEPT ![c].pc = to.pc, ![c].at = to.at,
                                    ![c].want = want, ![c].since = clears]
        PROVE  RegistryIInv'
    <2>1. \/ /\ to.pc = "reading" /\ HasLocal
             /\ to.at \in Places /\ 0 < to.at /\ candidate(want, to.at)
             /\ \A j \in Places : 0 < j /\ j < to.at => ~candidate(want, j)
          \/ to.pc \in {"searching", "fetching"} /\ to.at = 0
      BY <1>7, GoesOn
    <2>2. /\ DOMAIN call' = Calls /\ \A d \in Calls \ {c} : call'[d] = call[d]
          /\ DOMAIN call'[c] = DOMAIN Idle
          /\ call'[c].pc = to.pc /\ call'[c].at = to.at /\ call'[c].want = want
          /\ call'[c].since = clears /\ call'[c].error = call[c].error
      BY <1>2, <1>7 DEF CallOK, Idle
    <2>3. to.pc = "reading" => SearchesLocally(call'[c])
      BY <2>1, <2>2 DEF SearchesLocally, Places
    <2>4. to.pc \in {"reading", "searching", "fetching"} /\ (to.pc # "reading" => to.at = 0)
      BY <2>1
    <2>5. CallOK(c, call'[c])
      BY <1>1, <1>2, <2>2, <2>3, <2>4 DEF CallOK, Waiting, Outcomes
    <2> QED
      BY <1>1, <2>2, <2>5, OneCall, CoreIsEnough
  <1> QED
    BY <1>3, <1>5, <1>6, <1>7

-----------------------------------------------------------------------------
(* The steps of the program and the world. *)

\* The calls clearCache() finds in flight are the ones it cannot make forget.
LEMMA ClearInv == ASSUME RegistryIInv, clearCache PROVE RegistryIInv'
  <1>1. /\ UNCHANGED <<directory, published, call, warned, warnings, met, edits>>
        /\ clears' = clears + 1 /\ clears < MaxClears
        /\ cache' = [k \in Keys |-> None]
        /\ straddlers' = {c \in Calls : call[c].pc \in Waiting}
    BY DEF clearCache, emptied
  <1>2. CacheInv' /\ ClearForgets'
    BY <1>1 DEF CacheInv, ClearForgets
  <1>3. CallsInv'
    <2>1. ASSUME NEW c \in Calls PROVE CallOK(c, call[c])'
      <3>1. CallOK(c, call[c])
        BY DEF RegistryIInv, CallsInv
      <3>2. SearchesLocally(call[c])' <=> SearchesLocally(call[c])
        BY <1>1 DEF SearchesLocally, lacks
      <3>3. HoldsFile(call[c])' <=> HoldsFile(call[c])
        BY <1>1 DEF HoldsFile
      <3>4. HoldsRow(call[c])' <=> HoldsRow(call[c])
        BY <1>1 DEF HoldsRow
      <3>5. /\ SoundResolution(call[c].result)' <=> SoundResolution(call[c].result)
            /\ Fits(call[c].want.type, call[c].want.name, call[c].want.version, call[c].result)'
                 <=> Fits(call[c].want.type, call[c].want.name, call[c].want.version,
                          call[c].result)
            /\ PinsHold(call[c].want, call[c].result)' <=> PinsHold(call[c].want, call[c].result)
        BY <1>1 DEF SoundResolution, Marked, Fits, Found, lacks, PinsHold
      <3>6. \A x : listedLocally(x)' = listedLocally(x')
        BY <1>1 DEF listedLocally, listLocal
      <3>7. call[c].pc \in Waiting => c \in straddlers'
        BY <1>1
      <3> QED
        BY <1>1, <3>1, <3>2, <3>3, <3>4, <3>5, <3>6, <3>7 DEF CallOK
    <2> QED
      BY <1>1, <2>1 DEF RegistryIInv, CallsInv
  <1>4. WorldInv' /\ WarnedInv'
    BY <1>1, SourcesAssumption DEF RegistryIInv, WorldInv, WarnedInv, EachReasonIsToldOnce
  <1> QED
    BY <1>2, <1>3, <1>4 DEF RegistryIInv

\* Once a file was edited, nothing is said any more of what the files were.
LEMMA EditInv == ASSUME RegistryIInv, Edit PROVE RegistryIInv'
  <1>1. /\ UNCHANGED <<cache, published, call, warned, warnings, met, clears, straddlers>>
        /\ directory' \in Directories /\ edits' = edits + 1 /\ edits < MaxEdits
    BY DEF Edit
  <1>2. edits' # 0 /\ edits' \in 0..MaxEdits
    BY <1>1, SourcesAssumption DEF RegistryIInv, WorldInv
  <1>3. CacheInv' /\ ClearForgets'
    BY <1>1, <1>2 DEF RegistryIInv, CacheInv, ClearForgets, SoundResolution, Marked, Fits
  <1>4. CallsInv'
    <2>1. ASSUME NEW c \in Calls PROVE CallOK(c, call[c])'
      <3>1. CallOK(c, call[c])
        BY DEF RegistryIInv, CallsInv
      <3> QED
        BY <1>1, <1>2, <3>1 DEF CallOK, SearchesLocally, HoldsFile, HoldsRow, SoundResolution,
                                Marked, Fits, PinsHold
    <2> QED
      BY <1>1, <2>1 DEF RegistryIInv, CallsInv
  <1> QED
    BY <1>1, <1>2, <1>3, <1>4 DEF RegistryIInv, WorldInv, WarnedInv, EachReasonIsToldOnce

\* What the registry publishes changes no resolution that was made.
LEMMA PublishInv == ASSUME RegistryIInv, Publish PROVE RegistryIInv'
  <1>1. UNCHANGED <<cache, directory, call, warned, warnings, met, edits, clears, straddlers>>
    BY DEF Publish
  <1>2. published' \subseteq Rows
    BY DEF Publish, RegistryIInv, WorldInv
  <1>3. \A c, x : CallOK(c, x)' <=> CallOK(c, x')
    BY <1>1 DEF CallOK, SearchesLocally, HoldsFile, HoldsRow, SoundResolution, Fits, PinsHold,
                Found, lacks, listedLocally, listLocal, Marked
  <1>4. CallsInv'
    BY <1>1, <1>3 DEF RegistryIInv, CallsInv
  <1>5. CacheInv' /\ ClearForgets'
    BY <1>1 DEF RegistryIInv, CacheInv, SoundResolution, Fits, Found, lacks, Marked,
                ClearForgets
  <1> QED
    BY <1>1, <1>2, <1>4, <1>5 DEF RegistryIInv, WorldInv, WarnedInv, EachReasonIsToldOnce

LEMMA RegistryInitInv == RegistryInit => RegistryIInv
  <1> SUFFICES ASSUME RegistryInit PROVE RegistryIInv
    OBVIOUS
  <1> USE DEF RegistryInit
  <1>1. CacheInv /\ ClearForgets
    BY DEF CacheInv, ClearForgets
  <1>2. ASSUME NEW c \in Calls PROVE CallOK(c, call[c])
    BY TextsAssumption DEF CallOK, Idle, Waiting, Outcomes
  <1>3. WarnedInv
    BY DEF WarnedInv, EachReasonIsToldOnce
  <1>4. WorldInv
    BY SourcesAssumption DEF WorldInv
  <1> QED
    BY <1>1, <1>2, <1>3, <1>4 DEF RegistryIInv, CallsInv

LEMMA RegistryNextInv == RegistryIInv /\ [RegistryNext]_registryVars => RegistryIInv'
  <1> SUFFICES ASSUME RegistryIInv, [RegistryNext]_registryVars PROVE RegistryIInv'
    OBVIOUS
  <1>1. CASE UNCHANGED registryVars
    <2>1. UNCHANGED <<cache, directory, published, call, warned, warnings, met,
                      edits, clears, straddlers>>
      BY <1>1 DEF registryVars
    <2>2. \A c, x : CallOK(c, x)' <=> CallOK(c, x')
      BY <2>1 DEF CallOK, SearchesLocally, HoldsFile, HoldsRow, SoundResolution, Fits, PinsHold,
                  Found, lacks, listedLocally, listLocal, Marked
    <2>3. CallsInv' /\ ClearForgets'
      BY <2>1, <2>2 DEF RegistryIInv, CallsInv, ClearForgets
    <2>4. CacheInv'
      BY <2>1 DEF RegistryIInv, CacheInv, SoundResolution, Fits, Found, lacks, Marked
    <2> QED
      BY <2>1, <2>3, <2>4 DEF RegistryIInv, WorldInv, WarnedInv, EachReasonIsToldOnce
  <1> QED
    BY <1>1, ResolveInv, ListInv, ListedInv, ReadInv, PreviewInv, SearchInv, FetchInv, RerenderInv,
       ClearInv, EditInv, PublishInv DEF RegistryNext

LEMMA RegistrySafe == RegistrySpec => []RegistryIInv
  BY RegistryInitInv, RegistryNextInv, PTL DEF RegistrySpec

-----------------------------------------------------------------------------
(* What the invariant says of a registry's answers. *)

\* Every reachable state of a registry client satisfies its type invariant.
THEOREM RegistryTypeCorrect == RegistrySpec => []RegistryTypeOK
  <1>1. RegistryIInv => RegistryTypeOK
    BY DEF RegistryIInv, WorldInv, CacheInv, CallsInv, WarnedInv, CallOK, SoundResolution,
           SearchesLocally, RegistryTypeOK
  <1> QED
    BY <1>1, RegistrySafe, PTL

\* The files of one place have their own names, and go by them.
named(files) ==
    \A k, j \in DOMAIN files :
        files[k].title = files[k].name /\ (files[j].name = files[k].name => j = k)

\* A whole file with nothing broken before it is shown by a scan that has not
\* seen its name, and nothing else is under its name.
LEMMA Shown ==
  ASSUME NEW type, NEW files, NEW seen, named(files),
         NEW k \in DOMAIN files, files[k].name \notin seen, ~broken(files[k]),
         \A n \in DOMAIN files : n < k => ~broken(files[n])
  PROVE  /\ \A s : s \in shown(type, files, seen) /\ s.name = files[k].name
                  <=> s = [type |-> type, name |-> files[k].name, version |-> files[k].version]
         /\ k \in reached(files, seen)
  <1>1. k \in reached(files, seen)
    BY DEF reached
  <1>2. reached(files, seen) \subseteq DOMAIN files
    BY DEF reached
  <1> DEFINE entry(n) == [type |-> type, name |-> files[n].title, version |-> files[n].version]
  <1>3. entry(k) \in shown(type, files, seen) /\ entry(k).name = files[k].name
    BY <1>1 DEF shown, named
  <1>4. ASSUME NEW s \in shown(type, files, seen), s.name = files[k].name PROVE s = entry(k)
    <2>1. PICK n \in reached(files, seen) : s = entry(n)
      BY DEF shown
    <2>2. n = k
      BY <1>2, <1>4, <2>1 DEF named
    <2> QED
      BY <2>1, <2>2
  <1>5. entry(k) = [type |-> type, name |-> files[k].name, version |-> files[k].version]
    BY DEF named
  <1> HIDE DEF entry
  <1> QED
    BY <1>1, <1>3, <1>4, <1>5

\* A scan shows no name that it has seen, or that no file has.
LEMMA NotShown ==
  ASSUME NEW type, NEW files, NEW seen, NEW name, named(files),
         name \in seen \/ \A k \in DOMAIN files : files[k].name # name,
         NEW s \in shown(type, files, seen)
  PROVE  s.name # name
  <1>1. PICK n \in reached(files, seen) : s.name = files[n].title
    BY DEF shown
  <1>2. n \in DOMAIN files /\ files[n].name \notin seen
    BY DEF reached
  <1> QED
    BY <1>1, <1>2 DEF named

\* Of the two directories of a type, the first that has the name shows it.
LEMMA Scanned ==
  ASSUME NEW type, NEW first, NEW second, named(first), named(second), NEW name,
         NEW inFirst \in BOOLEAN, ~inFirst => \A n \in DOMAIN first : first[n].name # name,
         NEW files, files = IF inFirst THEN first ELSE second,
         NEW k \in DOMAIN files, files[k].name = name, ~broken(files[k]),
         \A n \in DOMAIN files : n < k => ~broken(files[n])
  PROVE  {s \in scanned(type, first, second) : s.name = name}
           = {[type |-> type, name |-> name, version |-> files[k].version]}
  <1> DEFINE seen == {first[n].name : n \in reached(first, {})}
             entry == [type |-> type, name |-> name, version |-> files[k].version]
  <1>1. scanned(type, first, second) = shown(type, first, {}) \union shown(type, second, seen)
    BY DEF scanned
  <1>2. CASE inFirst
    <2>1. /\ files = first /\ k \in DOMAIN first /\ first[k].name = name /\ ~broken(first[k])
          /\ \A n \in DOMAIN first : n < k => ~broken(first[n])
      BY <1>2
    <2>2. /\ \A s : s \in shown(type, first, {}) /\ s.name = first[k].name
                  <=> s = [type |-> type, name |-> first[k].name, version |-> first[k].version]
          /\ k \in reached(first, {})
      <3>1. \A none : first[k].name \notin none =>
              /\ \A s : s \in shown(type, first, none) /\ s.name = first[k].name
                    <=> s = [type |-> type, name |-> first[k].name, version |-> first[k].version]
              /\ k \in reached(first, none)
        BY <2>1, Shown
      <3>2. first[k].name \notin {}
        OBVIOUS
      <3> HIDE DEF seen, entry
      <3> QED
        BY <3>1, <3>2
    <2>3. /\ \A s : s \in shown(type, first, {}) /\ s.name = name <=> s = entry
          /\ name \in seen
      BY <2>1, <2>2
    <2>4. \A s \in shown(type, second, seen) : s.name # name
      BY <2>3, NotShown
    <2> HIDE DEF seen, entry
    <2>5. {s \in shown(type, first, {}) \union shown(type, second, seen) : s.name = name} = {entry}
      BY <2>3, <2>4
    <2> QED
      BY <1>1, <2>5 DEF entry
  <1>3. CASE ~inFirst
    <2>1. \A s \in shown(type, first, {}) : s.name # name
      BY <1>3, NotShown
    <2>2. name \notin seen
      BY <1>3 DEF reached
    <2> HIDE DEF seen
    <2>3. \A s : s \in shown(type, second, seen) /\ s.name = name <=> s = entry
      BY <1>3, <2>2, Shown
    <2> HIDE DEF entry
    <2>4. {s \in shown(type, first, {}) \union shown(type, second, seen) : s.name = name} = {entry}
      BY <2>1, <2>3
    <2> QED
      BY <1>1, <2>4 DEF entry
  <1> QED
    BY <1>2, <1>3

\* Each type has its two places, the base directory first.
LEMMA TwoPlaces ==
  ASSUME NEW i \in Places
  PROVE  \E b \in 1..4 : /\ i \in {b, b + 4}
                         /\ \A n \in 1..4 : placeType[n] = placeType[i] => n = b
                         /\ placeType[b] = placeType[i] /\ placeType[b + 4] = placeType[i]
  <1>1. \A n \in 1..4 : placeType[n + 4] = placeType[n]
    BY DEF placeType
  <1>2. \A n, m \in 1..4 : placeType[n] = placeType[m] => n = m
    BY DEF placeType
  <1>3. PICK b \in 1..4 : i \in {b, b + 4}
    <2>1. i \in 1..4 \/ i - 4 \in 1..4
      BY DEF Places
    <2> QED
      BY <2>1 DEF Places
  <1> QED
    BY <1>1, <1>2, <1>3

\* A name that is in the open is in the list of its type once: what resolve() finds.
LEMMA ScanFinds ==
  ASSUME RegistryIInv, NEW r, Found(r), inTheOpen(r.type, r.name), titled(r.type),
         NEW filter, filter \in {"any", r.type}
  PROVE  {s \in listLocal(filter) : s.type = r.type /\ s.name = r.name}
           = {[type |-> r.type, name |-> r.name, version |-> r.version]}
  <1> DEFINE entry == [type |-> r.type, name |-> r.name, version |-> r.version]
             whole(p, k) ==
               /\ placeType[p] = r.type /\ directory[p][k].name = r.name
               /\ directory[p][k].version = r.version /\ ~broken(directory[p][k])
               /\ \A j \in Places : j < p /\ placeType[j] = r.type => lacks(j, r.name)
             exposed(p, k) ==
               /\ placeType[p] = r.type /\ directory[p][k].name = r.name
               /\ \A j \in 1..(p - 1) : placeType[j] = r.type => lacks(j, r.name)
               /\ \A n \in DOMAIN directory[p] : n < k => ~broken(directory[p][n])
  <1>1. PICK i \in Places : \E k \in DOMAIN directory[i] : whole(i, k)
    BY DEF Found
  <1>2. PICK k \in DOMAIN directory[i] : whole(i, k)
    BY <1>1
  <1>3. PICK i2 \in Places : \E k2 \in DOMAIN directory[i2] : exposed(i2, k2)
    BY DEF inTheOpen, lacks
  <1>4. PICK k2 \in DOMAIN directory[i2] : exposed(i2, k2)
    BY <1>3
  <1>5. \A p \in Places : placeType[p] = r.type => named(directory[p])
    BY SourcesAssumption DEF named, titled, RegistryIInv, WorldInv
  <1>6. i = i2
    <2>1. ~(i < i2) /\ ~(i2 < i)
      BY <1>2, <1>4 DEF lacks, Places
    <2> QED
      BY <2>1 DEF Places
  <1>7. k = k2
    BY <1>2, <1>4, <1>5, <1>6 DEF named
  <1>8. PICK b \in 1..4 : /\ i \in {b, b + 4}
                          /\ \A n \in 1..4 : placeType[n] = r.type => n = b
                          /\ placeType[b] = r.type /\ placeType[b + 4] = r.type
    BY <1>2, TwoPlaces
  <1> DEFINE first == directory[b]
             second == directory[b + 4]
             inFirst == i = b
  <1>9. named(first) /\ named(second)
    <2>1. b \in Places /\ b + 4 \in Places
      BY <1>8 DEF Places
    <2> QED
      BY <1>5, <1>8, <2>1
  <1>10. directory[i] = IF inFirst THEN first ELSE second
    BY <1>8
  <1>11. ~inFirst => \A n \in DOMAIN first : first[n].name # r.name
    <2>1. ~inFirst => b < i /\ b \in Places
      BY <1>8 DEF Places
    <2>2. ~inFirst => lacks(b, r.name)
      BY <1>2, <1>8, <2>1
    <2> QED
      BY <2>2 DEF lacks
  <1>12. \A n \in DOMAIN directory[i] : n < k => ~broken(directory[i][n])
    BY <1>4, <1>6, <1>7
  <1> DEFINE files == directory[i]
  <1>13. /\ k \in DOMAIN files /\ files[k].name = r.name /\ ~broken(files[k])
         /\ files[k].version = r.version
    BY <1>2
  <1>14. files = IF inFirst THEN first ELSE second
    BY <1>10
  <1>15. \A n \in DOMAIN files : n < k => ~broken(files[n])
    BY <1>12
  <1>16. inFirst \in BOOLEAN
    OBVIOUS
  <1> HIDE DEF first, second, files, inFirst
  <1>17. {s \in scanned(r.type, first, second) : s.name = r.name} = {entry}
    BY <1>9, <1>11, <1>13, <1>14, <1>15, <1>16, Scanned
  <1>18. \A type, one, two : \A s \in scanned(type, one, two) : s.type = type
    <2>1. \A type, files1, seen : \A s \in shown(type, files1, seen) : s.type = type
      BY DEF shown
    <2> QED
      BY <2>1 DEF scanned
  <1>19. \A s : s \in listLocal(filter) <=>
           \E n \in 1..4 : /\ filter \in {"any", placeType[n]}
                          /\ s \in scanned(placeType[n], directory[n], directory[n + 4])
    BY DEF listLocal, dirsToScan
  <1>20. \A s : s \in listLocal(filter) /\ s.type = r.type
                 <=> s \in scanned(r.type, first, second)
    <2>1. ASSUME NEW s, s \in listLocal(filter), s.type = r.type
          PROVE  s \in scanned(r.type, first, second)
      <3>1. PICK n \in 1..4 : s \in scanned(placeType[n], directory[n], directory[n + 4])
        BY <1>19, <2>1
      <3>2. placeType[n] = r.type
        BY <1>18, <2>1, <3>1
      <3>3. n = b
        BY <1>8, <3>2
      <3> QED
        BY <3>1, <3>2, <3>3 DEF first, second
    <2>2. ASSUME NEW s, s \in scanned(r.type, first, second)
          PROVE  s \in listLocal(filter) /\ s.type = r.type
      <3>1. s.type = r.type
        BY <1>18, <2>2
      <3>2. b \in 1..4 /\ filter \in {"any", placeType[b]}
        BY <1>8
      <3>3. s \in scanned(placeType[b], directory[b], directory[b + 4])
        BY <1>8, <2>2 DEF first, second
      <3> QED
        BY <1>19, <3>1, <3>2, <3>3
    <2> QED
      BY <2>1, <2>2
  <1> HIDE DEF entry
  <1>21. {s \in listLocal(filter) : s.type = r.type /\ s.name = r.name} = {entry}
    BY <1>17, <1>20
  <1> QED
    BY <1>21 DEF entry

\* What resolve() finds in the local files list() shows, once.
LEMMA ListShows == ASSUME RegistryIInv PROVE ListShowsWhatResolves
  <1> SUFFICES ASSUME NEW c \in Calls, NEW d \in Calls,
                      edits = 0, call[c].pc = "listed",
                      call[d].pc = "answered", call[d].want.version = Latest,
                      call[d].result.from = "local",
                      call[c].type \in {"any", call[d].result.type},
                      inTheOpen(call[d].result.type, call[d].result.name),
                      titled(call[d].result.type)
               PROVE  {s \in call[c].result : /\ s.type = call[d].result.type
                                              /\ s.name = call[d].result.name}
                        = {[type |-> call[d].result.type, name |-> call[d].result.name,
                            version |-> call[d].result.version]}
    BY DEF ListShowsWhatResolves
  <1> DEFINE r == call[d].result
             local == listedLocally(call[c].type)
             entry == [type |-> r.type, name |-> r.name, version |-> r.version]
  <1>1. CallOK(c, call[c]) /\ CallOK(d, call[d])
    BY DEF RegistryIInv, CallsInv
  <1>2. HasLocal /\ Found(r)
    BY <1>1 DEF CallOK, SoundResolution, Fits
  <1>3. {s \in local : s.type = r.type /\ s.name = r.name} = {entry}
    BY <1>2, ScanFinds DEF listedLocally
  <1>4. PICK remote : call[c].result = merged(local, remote)
    BY <1>1 DEF CallOK
  <1> HIDE DEF r, local
  <1>5. entry \in local /\ entry.name = r.name
    BY <1>3
  <1> QED
    BY <1>3, <1>4, <1>5 DEF merged, r

\* Whatever way a call is answered, from a file, the registry or what another
\* call left in the cache, it gets the type, the name, the version, the text
\* and the prompt it pinned (resolve, verifyPins), and list() shows it where no
\* broken file ends its scan and no file lies about its name.
THEOREM AskedForIsGot == RegistrySpec => []CallersGetWhatTheyAskFor
  <1>1. RegistryIInv => PinnedCallersGetWhatTheyPinned
    BY DEF RegistryIInv, CallsInv, CallOK, Fits, PinsHold, PinnedCallersGetWhatTheyPinned
  <1>2. RegistryIInv => CallersGetWhatTheyAskFor
    BY <1>1, ListShows DEF CallersGetWhatTheyAskFor
  <1> QED
    BY <1>2, RegistrySafe, PTL

\* A resolution that falls short of what was published is marked so for whoever
\* gets it, and a reason renders fail for is warned of once.
THEOREM FallbackIsTold == RegistrySpec => []FallbacksAreTold
  <1>1. RegistryIInv => ShortcutsAreMarked
    BY DEF RegistryIInv, CallsInv, CallOK, SoundResolution, Marked, ShortcutsAreMarked
  <1>2. RegistryIInv => FallbacksAreTold
    BY <1>1 DEF FallbacksAreTold, RegistryIInv, WarnedInv
  <1> QED
    BY <1>2, RegistrySafe, PTL

\* After clearCache() nothing older than it is held, but for what the calls it
\* found in flight bring home.
THEOREM ClearedIsForgotten == RegistrySpec => []ClearForgets
  <1>1. RegistryIInv => ClearForgets
    BY DEF RegistryIInv
  <1> QED
    BY <1>1, RegistrySafe, PTL

-----------------------------------------------------------------------------
(* Induction on numbers, sums and flattened lists. *)

\* Induction: a set of numbers with 0 and the successors of its elements is
\* all of them.
LEMMA Induction ==
  ASSUME NEW S \in SUBSET Nat, 0 \in S, \A n \in S : n + 1 \in S
  PROVE  S = Nat
  <1> SUFFICES ASSUME Nat \ S # {} PROVE FALSE
    OBVIOUS
  <1>1. PICK m \in Nat \ S : \A n \in Nat \ S : m <= n
    BY LeastNat
  <1>2. m - 1 \in S /\ m # 0
    BY <1>1
  <1> QED
    BY <1>1, <1>2

\* sumOf is the last of the partial sums.
LEMMA SumUnfolds ==
  ASSUME NEW w \in Seq(Nat)
  PROVE  \E f \in [0..Len(w) -> Nat] :
            /\ f[0] = 0
            /\ \A n \in 1..Len(w) : f[n] = f[n - 1] + w[n]
            /\ sumOf(w) = f[Len(w)]
  <1> DEFINE P(f, n) == f = [k \in 0..n |-> IF k = 0 THEN 0 ELSE f[k - 1] + w[k]]
  <1> DEFINE Q(n) == \E f \in [0..n -> Nat] : P(f, n)
  <1> DEFINE S == {n \in Nat : n <= Len(w) => Q(n)}
  <1>1. Len(w) \in Nat
    OBVIOUS
  <1>2. S = Nat
    <2>1. 0 \in S
      <3>1. P([k \in 0..0 |-> 0], 0)
        OBVIOUS
      <3>2. [k \in 0..0 |-> 0] \in [0..0 -> Nat]
        OBVIOUS
      <3> QED
        BY <3>1, <3>2
    <2>2. ASSUME NEW n \in S PROVE n + 1 \in S
      <3>1. n \in Nat
        OBVIOUS
      <3> HIDE DEF Q
      <3> SUFFICES ASSUME n + 1 <= Len(w) PROVE Q(n + 1)
        BY <3>1
      <3>2. Q(n)
        BY <1>1, <3>1
      <3> USE DEF Q
      <3>3. PICK f \in [0..n -> Nat] : P(f, n)
        BY <3>2
      <3> DEFINE g == [k \in 0..(n + 1) |-> IF k = n + 1 THEN f[n] + w[n + 1] ELSE f[k]]
      <3>4. w[n + 1] \in Nat
        BY <1>1, <3>1
      <3>5. g \in [0..(n + 1) -> Nat]
        BY <3>1, <3>4
      <3>6. \A k \in 0..n : f[k] = IF k = 0 THEN 0 ELSE f[k - 1] + w[k]
        BY <3>3
      <3>7. \A k \in 0..(n + 1) : g[k] = IF k = 0 THEN 0 ELSE g[k - 1] + w[k]
        <4> TAKE k \in 0..(n + 1)
        <4>1. CASE k = n + 1
          BY <4>1, <3>1
        <4>2. CASE k # n + 1
          BY <4>2, <3>1, <3>6
        <4> QED
          BY <4>1, <4>2
      <3> HIDE DEF g
      <3>8. P(g, n + 1)
        BY <3>5, <3>7
      <3> QED
        BY <3>5, <3>8
    <2> HIDE DEF S
    <2>3. S \in SUBSET Nat
      BY DEF S
    <2> QED
      BY <2>1, <2>2, <2>3, Induction
  <1>3. PICK f \in [0..Len(w) -> Nat] : P(f, Len(w))
    <2>1. Len(w) \in S
      BY <1>2, <1>1
    <2> QED
      BY <2>1
  <1> DEFINE g == CHOOSE f1 : P(f1, Len(w))
  <1>4. P(g, Len(w))
    BY <1>3
  <1>5. sumOf(w) = g[Len(w)]
    BY DEF sumOf
  <1>6. \A h : P(h, Len(w)) =>
          \A k \in 0..Len(w) : h[k] = IF k = 0 THEN 0 ELSE h[k - 1] + w[k]
    OBVIOUS
  <1> HIDE DEF P
  <1>7. \A k \in 0..Len(w) : g[k] = f[k]
    <2> DEFINE T == {n \in Nat : n <= Len(w) => g[n] = f[n]}
    <2>1. 0 \in T
      BY <1>3, <1>4, <1>6
    <2>2. ASSUME NEW n \in T PROVE n + 1 \in T
      <3>1. n \in Nat /\ (n <= Len(w) => g[n] = f[n])
        OBVIOUS
      <3> HIDE DEF g, T
      <3>2. ASSUME n + 1 <= Len(w) PROVE g[n + 1] = f[n + 1]
        <4> DEFINE k == n + 1
        <4>1. k \in 0..Len(w) /\ k # 0 /\ k - 1 = n
          BY <1>1, <3>1, <3>2
        <4>2. g[k] = g[k - 1] + w[k]
          BY <4>1, <1>4, <1>6
        <4>3. f[k] = f[k - 1] + w[k]
          BY <4>1, <1>3, <1>6
        <4> QED
          BY <1>1, <3>1, <3>2, <4>1, <4>2, <4>3
      <3> QED
        BY <3>1, <3>2 DEF T
    <2>3. T = Nat
      <3> HIDE DEF T
      <3>1. T \in SUBSET Nat
        BY DEF T
      <3> QED
        BY <2>1, <2>2, <3>1, Induction
    <2> QED
      BY <2>3, <1>1
  <1>8. \A k \in 0..Len(w) : f[k] = IF k = 0 THEN 0 ELSE f[k - 1] + w[k]
    BY <1>3, <1>6
  <1> QED
    <2>1. sumOf(w) = f[Len(w)]
      BY <1>1, <1>5, <1>7
    <2>2. f[0] = 0
      BY <1>1, <1>8
    <2>3. \A n \in 1..Len(w) : f[n] = f[n - 1] + w[n]
      BY <1>1, <1>8
    <2> QED
      BY <2>1, <2>2, <2>3

\* A function on an initial segment is a list, as long as the segment.
LEMMA ListOf ==
  ASSUME NEW S, NEW n \in Nat, NEW f \in [1..n -> S]
  PROVE  f \in Seq(S) /\ Len(f) = n /\ DOMAIN f = 1..n
  BY SeqDef, LenProperties

\* FlattenSeq is the last of the partial concatenations.
LEMMA FlattenUnfolds ==
  ASSUME NEW E, NEW t \in Seq(Seq(E))
  PROVE  \E f \in [0..Len(t) -> Seq(E)] :
            /\ f[0] = <<>>
            /\ \A n \in 1..Len(t) : f[n] = f[n - 1] \o t[n]
            /\ FlattenSeq(t) = f[Len(t)]
  <1> DEFINE P(f, n) == f = [k \in 1..n |-> IF k = 1 THEN t[k] ELSE f[k - 1] \o t[k]]
  <1> DEFINE Q(n) == \E f \in [1..n -> Seq(E)] : P(f, n)
  <1> DEFINE S == {n \in Nat : n <= Len(t) => Q(n)}
  <1>1. Len(t) \in Nat /\ \A k \in 1..Len(t) : t[k] \in Seq(E)
    BY LenProperties
  <1>2. \A a, b \in Seq(E) : a \o b \in Seq(E)
    BY ConcatProperties
  <1>3. S = Nat
    <2>1. 0 \in S
      <3> DEFINE e == [k \in 1..0 |-> <<>>]
      <3>1. P(e, 0)
        OBVIOUS
      <3>2. e \in [1..0 -> Seq(E)]
        OBVIOUS
      <3> QED
        BY <3>1, <3>2
    <2>2. ASSUME NEW n \in S PROVE n + 1 \in S
      <3>1. n \in Nat
        OBVIOUS
      <3> HIDE DEF Q
      <3> SUFFICES ASSUME n + 1 <= Len(t) PROVE Q(n + 1)
        BY <3>1
      <3>2. Q(n)
        BY <1>1, <3>1
      <3> USE DEF Q
      <3>3. PICK f \in [1..n -> Seq(E)] : P(f, n)
        BY <3>2
      <3> DEFINE last == IF n = 0 THEN t[1] ELSE f[n] \o t[n + 1]
                 g == [k \in 1..(n + 1) |-> IF k = n + 1 THEN last ELSE f[k]]
      <3>4. t[n + 1] \in Seq(E)
        BY <1>1, <3>1
      <3>5. n # 0 => f[n] \in Seq(E)
        BY <3>1
      <3>6. last \in Seq(E)
        BY <1>2, <3>4, <3>5
      <3> HIDE DEF last
      <3>7. g \in [1..(n + 1) -> Seq(E)]
        BY <3>1, <3>6
      <3>8. \A k \in 1..n : f[k] = IF k = 1 THEN t[k] ELSE f[k - 1] \o t[k]
        BY <3>3
      <3>9. \A k \in 1..(n + 1) : g[k] = IF k = 1 THEN t[k] ELSE g[k - 1] \o t[k]
        <4> TAKE k \in 1..(n + 1)
        <4>1. CASE k = n + 1
          BY <4>1, <3>1 DEF last
        <4>2. CASE k # n + 1
          <5>1. k \in 1..n /\ (k # 1 => k - 1 \in 1..n)
            BY <4>2, <3>1
          <5>2. g[k] = f[k] /\ (k # 1 => g[k - 1] = f[k - 1])
            BY <5>1, <3>1
          <5> HIDE DEF g
          <5> QED
            BY <5>1, <5>2, <3>8
        <4> QED
          BY <4>1, <4>2
      <3> HIDE DEF g
      <3>10. P(g, n + 1)
        BY <3>7, <3>9
      <3> QED
        BY <3>7, <3>10
    <2> HIDE DEF S
    <2>3. S \in SUBSET Nat
      BY DEF S
    <2> QED
      BY <2>1, <2>2, <2>3, Induction
  <1>4. Q(Len(t))
    <2> HIDE DEF Q
    <2>1. Len(t) \in S
      BY <1>1, <1>3
    <2> QED
      BY <2>1
  <1>5. PICK f \in [1..Len(t) -> Seq(E)] : P(f, Len(t))
    BY <1>4
  <1> DEFINE g == CHOOSE f1 : P(f1, Len(t))
  <1>6. P(g, Len(t))
    BY <1>5
  <1>7. FlattenSeq(t) = IF Len(t) = 0 THEN t ELSE g[Len(t)]
    BY DEF FlattenSeq
  <1>8. \A h : P(h, Len(t)) =>
          \A k \in 1..Len(t) : h[k] = IF k = 1 THEN t[k] ELSE h[k - 1] \o t[k]
    OBVIOUS
  <1> HIDE DEF P
  <1>9. \A k \in 1..Len(t) : g[k] = f[k]
    <2> DEFINE T == {n \in Nat : n \in 1..Len(t) => g[n] = f[n]}
    <2>1. 0 \in T
      BY <1>1
    <2>2. ASSUME NEW n \in T PROVE n + 1 \in T
      <3>1. n \in Nat /\ (n \in 1..Len(t) => g[n] = f[n])
        OBVIOUS
      <3> HIDE DEF g, T
      <3>2. ASSUME n + 1 \in 1..Len(t) PROVE g[n + 1] = f[n + 1]
        <4> DEFINE k == n + 1
        <4>1. k \in 1..Len(t) /\ k - 1 = n
          BY <3>1, <3>2
        <4>2. g[k] = IF k = 1 THEN t[k] ELSE g[k - 1] \o t[k]
          BY <4>1, <1>6, <1>8
        <4>3. f[k] = IF k = 1 THEN t[k] ELSE f[k - 1] \o t[k]
          BY <4>1, <1>5, <1>8
        <4>4. k # 1 => n \in 1..Len(t)
          BY <1>1, <3>1, <3>2
        <4> QED
          BY <3>1, <4>1, <4>2, <4>3, <4>4
      <3> QED
        BY <3>1, <3>2 DEF T
    <2>3. T = Nat
      <3> HIDE DEF T
      <3>1. T \in SUBSET Nat
        BY DEF T
      <3> QED
        BY <2>1, <2>2, <3>1, Induction
    <2> QED
      BY <1>1, <2>3
  <1> DEFINE h == [k \in 0..Len(t) |-> IF k = 0 THEN <<>> ELSE f[k]]
  <1>10. h \in [0..Len(t) -> Seq(E)]
    <2>1. <<>> \in Seq(E)
      BY EmptySeq
    <2> QED
      BY <1>1, <2>1
  <1>11. h[0] = <<>> /\ \A k \in 1..Len(t) : h[k] = f[k]
    BY <1>1
  <1> HIDE DEF h
  <1>12. \A k \in 1..Len(t) : f[k] = IF k = 1 THEN t[k] ELSE f[k - 1] \o t[k]
    BY <1>5, <1>8
  <1>13. ASSUME NEW n \in 1..Len(t) PROVE h[n] = h[n - 1] \o t[n]
    <2>1. CASE n = 1
      <3>1. n - 1 = 0 /\ h[n] = f[n] /\ t[n] \in Seq(E)
        BY <1>1, <1>11, <2>1
      <3>2. f[n] = t[n]
        BY <1>12, <2>1
      <3>3. h[n - 1] = <<>>
        BY <1>11, <3>1
      <3> QED
        BY <3>1, <3>2, <3>3, ConcatEmptySeq
    <2>2. CASE n # 1
      <3>1. n - 1 \in 1..Len(t)
        BY <1>1, <2>2
      <3>2. h[n - 1] = f[n - 1] /\ h[n] = f[n]
        BY <1>11, <3>1
      <3>3. f[n] = f[n - 1] \o t[n]
        BY <1>12, <2>2
      <3> QED
        BY <3>2, <3>3
    <2> QED
      BY <2>1, <2>2
  <1>14. FlattenSeq(t) = h[Len(t)]
    <2>1. CASE Len(t) = 0
      <3>1. t = <<>>
        BY <2>1, EmptySeq
      <3> QED
        BY <1>7, <1>11, <2>1, <3>1
    <2>2. CASE Len(t) # 0
      BY <1>1, <1>7, <1>9, <1>11, <2>2
    <2> QED
      BY <2>1, <2>2
  <1> QED
    BY <1>10, <1>11, <1>13, <1>14

\* What is flattened is a list of the same elements, as long as the lists are
\* together.
LEMMA FlattenType ==
  ASSUME NEW E, NEW t \in Seq(Seq(E))
  PROVE  FlattenSeq(t) \in Seq(E)
  <1>1. PICK f \in [0..Len(t) -> Seq(E)] : FlattenSeq(t) = f[Len(t)]
    BY FlattenUnfolds
  <1>2. Len(t) \in 0..Len(t)
    BY LenProperties
  <1> QED
    BY <1>1, <1>2

LEMMA SumType ==
  ASSUME NEW w \in Seq(Nat)
  PROVE  sumOf(w) \in Nat
  <1>1. PICK f \in [0..Len(w) -> Nat] : sumOf(w) = f[Len(w)]
    BY SumUnfolds
  <1>2. Len(w) \in 0..Len(w)
    BY LenProperties
  <1> QED
    BY <1>1, <1>2

LEMMA FlattenLength ==
  ASSUME NEW E, NEW t \in Seq(Seq(E))
  PROVE  /\ [i \in DOMAIN t |-> Len(t[i])] \in Seq(Nat)
         /\ Len(FlattenSeq(t)) = sumOf([i \in DOMAIN t |-> Len(t[i])])
  <1> DEFINE w == [i \in DOMAIN t |-> Len(t[i])]
  <1>1. Len(t) \in Nat /\ DOMAIN t = 1..Len(t) /\ \A k \in 1..Len(t) : t[k] \in Seq(E)
    BY LenProperties
  <1>2. \A k \in 1..Len(t) : Len(t[k]) \in Nat
    BY <1>1, LenProperties
  <1>3. w \in [1..Len(t) -> Nat] /\ \A k \in 1..Len(t) : w[k] = Len(t[k])
    BY <1>1, <1>2
  <1> HIDE DEF w
  <1>4. w \in Seq(Nat) /\ Len(w) = Len(t)
    BY <1>1, <1>3, ListOf
  <1>5. PICK f \in [0..Len(t) -> Seq(E)] :
            /\ f[0] = <<>>
            /\ \A n \in 1..Len(t) : f[n] = f[n - 1] \o t[n]
            /\ FlattenSeq(t) = f[Len(t)]
    BY FlattenUnfolds
  <1>6. PICK g \in [0..Len(w) -> Nat] :
            /\ g[0] = 0
            /\ \A n \in 1..Len(w) : g[n] = g[n - 1] + w[n]
            /\ sumOf(w) = g[Len(w)]
    BY <1>4, SumUnfolds
  <1> DEFINE T == {n \in Nat : n <= Len(t) => Len(f[n]) = g[n]}
  <1>7. T = Nat
    <2>1. 0 \in T
      BY <1>5, <1>6, EmptySeq
    <2>2. ASSUME NEW n \in T PROVE n + 1 \in T
      <3>1. n \in Nat
        OBVIOUS
      <3> SUFFICES ASSUME n + 1 <= Len(t) PROVE Len(f[n + 1]) = g[n + 1]
        BY <3>1
      <3>2. n \in 0..Len(t) /\ n + 1 \in 1..Len(t) /\ (n + 1) - 1 = n
        BY <1>1, <3>1
      <3>3. f[n] \in Seq(E) /\ t[n + 1] \in Seq(E)
        BY <1>1, <3>2
      <3>4. Len(f[n]) = g[n]
        BY <1>1, <3>1
      <3>5. f[n + 1] = f[n] \o t[n + 1]
        BY <1>5, <3>2
      <3>6. g[n + 1] = g[n] + Len(t[n + 1])
        BY <1>3, <1>4, <1>6, <3>2
      <3>7. Len(f[n] \o t[n + 1]) = Len(f[n]) + Len(t[n + 1])
        BY <3>3, ConcatProperties
      <3> QED
        BY <3>5, <3>6, <3>4, <3>7
    <2>3. T \in SUBSET Nat
      OBVIOUS
    <2> HIDE DEF T
    <2> QED
      BY <2>1, <2>2, <2>3, Induction
  <1>8. Len(f[Len(t)]) = g[Len(t)]
    BY <1>1, <1>7
  <1>9. w = [i \in DOMAIN t |-> Len(t[i])]
    BY DEF w
  <1> QED
    BY <1>4, <1>5, <1>6, <1>8, <1>9

\* The sum of the sums, and no addend is more than the sum.
LEMMA SumPlus ==
  ASSUME NEW a \in Seq(Nat), NEW b \in Seq(Nat), NEW c \in Seq(Nat),
         Len(a) = Len(c), Len(b) = Len(c), \A i \in 1..Len(c) : c[i] = a[i] + b[i]
  PROVE  sumOf(c) = sumOf(a) + sumOf(b)
  <1>1. PICK f \in [0..Len(c) -> Nat] : /\ f[0] = 0
                                        /\ \A n \in 1..Len(c) : f[n] = f[n - 1] + a[n]
                                        /\ sumOf(a) = f[Len(c)]
    BY SumUnfolds
  <1>2. PICK g \in [0..Len(c) -> Nat] : /\ g[0] = 0
                                        /\ \A n \in 1..Len(c) : g[n] = g[n - 1] + b[n]
                                        /\ sumOf(b) = g[Len(c)]
    BY SumUnfolds
  <1>3. PICK h \in [0..Len(c) -> Nat] : /\ h[0] = 0
                                        /\ \A n \in 1..Len(c) : h[n] = h[n - 1] + c[n]
                                        /\ sumOf(c) = h[Len(c)]
    BY SumUnfolds
  <1>4. /\ Len(c) \in Nat
        /\ \A n \in 1..Len(c) : a[n] \in Nat /\ b[n] \in Nat
    BY LenProperties
  <1> DEFINE T == {n \in Nat : n <= Len(c) => h[n] = f[n] + g[n]}
  <1>5. T = Nat
    <2>1. 0 \in T
      BY <1>1, <1>2, <1>3
    <2>2. ASSUME NEW n \in T PROVE n + 1 \in T
      <3>1. n \in Nat
        OBVIOUS
      <3> SUFFICES ASSUME n + 1 <= Len(c) PROVE h[n + 1] = f[n + 1] + g[n + 1]
        BY <3>1
      <3>2. n \in 0..Len(c) /\ n + 1 \in 1..Len(c) /\ (n + 1) - 1 = n
        BY <1>4, <3>1
      <3>3. /\ h[n + 1] = h[n] + c[n + 1]
            /\ f[n + 1] = f[n] + a[n + 1]
            /\ g[n + 1] = g[n] + b[n + 1]
        BY <1>1, <1>2, <1>3, <3>2
      <3>4. h[n] = f[n] + g[n]
        BY <1>4, <3>1
      <3>5. /\ f[n] \in Nat /\ g[n] \in Nat /\ a[n + 1] \in Nat /\ b[n + 1] \in Nat
            /\ c[n + 1] = a[n + 1] + b[n + 1]
        BY <1>4, <3>2
      <3> HIDE DEF T
      <3>6. PICK p \in Nat, q \in Nat, r \in Nat, s \in Nat :
               f[n] = p /\ g[n] = q /\ a[n + 1] = r /\ b[n + 1] = s
        BY <3>5, Zenon
      <3>7. h[n + 1] = (p + q) + (r + s)
        BY <3>3, <3>4, <3>5, <3>6, Zenon
      <3>8. f[n + 1] + g[n + 1] = (p + r) + (q + s)
        BY <3>3, <3>6, Zenon
      <3> QED
        BY <3>7, <3>8
    <2>3. T \in SUBSET Nat
      OBVIOUS
    <2> HIDE DEF T
    <2> QED
      BY <2>1, <2>2, <2>3, Induction
  <1>6. Len(c) \in T
    BY <1>4, <1>5
  <1> QED
    BY <1>1, <1>2, <1>3, <1>6

LEMMA SumBound ==
  ASSUME NEW w \in Seq(Nat), NEW i \in 1..Len(w)
  PROVE  w[i] <= sumOf(w)
  <1>1. PICK f \in [0..Len(w) -> Nat] : /\ f[0] = 0
                                        /\ \A n \in 1..Len(w) : f[n] = f[n - 1] + w[n]
                                        /\ sumOf(w) = f[Len(w)]
    BY SumUnfolds
  <1>2. Len(w) \in Nat /\ \A n \in 1..Len(w) : w[n] \in Nat
    BY LenProperties
  <1> DEFINE T == {n \in Nat : i <= n /\ n <= Len(w) => w[i] <= f[n]}
  <1>3. T = Nat
    <2>1. 0 \in T
      OBVIOUS
    <2>2. ASSUME NEW n \in T PROVE n + 1 \in T
      <3>1. n \in Nat
        OBVIOUS
      <3> SUFFICES ASSUME i <= n + 1, n + 1 <= Len(w) PROVE w[i] <= f[n + 1]
        BY <3>1
      <3>2. n \in 0..Len(w) /\ n + 1 \in 1..Len(w) /\ (n + 1) - 1 = n
        BY <1>2, <3>1
      <3>3. f[n + 1] = f[n] + w[n + 1] /\ f[n] \in Nat /\ w[n + 1] \in Nat
        BY <1>1, <1>2, <3>2
      <3>4. CASE i = n + 1
        BY <3>3, <3>4
      <3>5. CASE i # n + 1
        <4>1. w[i] <= f[n] /\ w[i] \in Nat
          BY <1>2, <3>1, <3>5
        <4> QED
          BY <4>1, <3>3
      <3> QED
        BY <3>4, <3>5
    <2>3. T \in SUBSET Nat
      OBVIOUS
    <2> HIDE DEF T
    <2> QED
      BY <2>1, <2>2, <2>3, Induction
  <1>4. Len(w) \in T
    BY <1>2, <1>3
  <1> QED
    BY <1>1, <1>2, <1>4

-----------------------------------------------------------------------------
(* Lists, whatever is in them. *)

LEMMA ListBasics ==
  /\ isList(<<>>) /\ Len(<<>>) = 0
  /\ \A s : isList(s) => /\ Len(s) \in Nat /\ DOMAIN s = 1..Len(s)
                         /\ s = [i \in 1..Len(s) |-> s[i]]
                         /\ \A i \in 1..Len(s) : s[i] \in Range(s)
                         /\ Len(s) = 0 <=> s = <<>>
  <1>1. isList(<<>>) /\ Len(<<>>) = 0
    BY EmptySeq DEF isList
  <1>2. ASSUME NEW s, isList(s)
        PROVE  /\ Len(s) \in Nat /\ DOMAIN s = 1..Len(s)
               /\ s = [i \in 1..Len(s) |-> s[i]]
               /\ \A i \in 1..Len(s) : s[i] \in Range(s)
               /\ Len(s) = 0 <=> s = <<>>
    <2>1. s \in Seq(Range(s))
      BY <1>2 DEF isList
    <2>2. Len(s) \in Nat /\ s \in [1..Len(s) -> Range(s)] /\ DOMAIN s = 1..Len(s)
      BY <2>1, LenProperties
    <2>3. Len(s) = 0 <=> s = <<>>
      BY <2>1, EmptySeq
    <2> QED
      BY <2>2, <2>3
  <1> QED
    BY <1>1, <1>2

LEMMA ListFrom ==
  ASSUME NEW n \in Nat, NEW f, f = [i \in 1..n |-> f[i]]
  PROVE  isList(f) /\ Len(f) = n
  <1>1. DOMAIN f = 1..n
    OBVIOUS
  <1>2. \A i \in 1..n : f[i] \in Range(f)
    BY <1>1 DEF Range
  <1>3. f \in [1..n -> Range(f)]
    BY <1>2
  <1> QED
    BY <1>3, ListOf DEF isList

LEMMA SeqIsList ==
  ASSUME NEW E, NEW s \in Seq(E)
  PROVE  isList(s) /\ Range(s) \subseteq E
  <1>1. Len(s) \in Nat /\ s \in [1..Len(s) -> E] /\ DOMAIN s = 1..Len(s)
    BY LenProperties
  <1>2. s = [i \in 1..Len(s) |-> s[i]]
    BY <1>1
  <1>3. isList(s)
    BY <1>1, <1>2, ListFrom
  <1> QED
    BY <1>1, <1>3 DEF Range

\* Lists one after the other.
LEMMA FlattenList ==
  ASSUME NEW t, isList(t), \A i \in DOMAIN t : isList(t[i])
  PROVE  /\ isList(FlattenSeq(t))
         /\ [i \in DOMAIN t |-> Len(t[i])] \in Seq(Nat)
         /\ Len(FlattenSeq(t)) = sumOf([i \in DOMAIN t |-> Len(t[i])])
         /\ Range(FlattenSeq(t)) \subseteq UNION {Range(t[i]) : i \in DOMAIN t}
  <1> DEFINE E == UNION {Range(t[i]) : i \in DOMAIN t}
  <1>1. Len(t) \in Nat /\ DOMAIN t = 1..Len(t) /\ t = [i \in 1..Len(t) |-> t[i]]
    BY ListBasics
  <1>2. ASSUME NEW i \in DOMAIN t PROVE t[i] \in Seq(E)
    <2>1. isList(t[i]) /\ Range(t[i]) \subseteq E
      OBVIOUS
    <2> HIDE DEF E
    <2>2. /\ Len(t[i]) \in Nat
          /\ t[i] = [k \in 1..Len(t[i]) |-> t[i][k]]
          /\ \A k \in 1..Len(t[i]) : t[i][k] \in Range(t[i])
      BY <2>1, ListBasics
    <2>3. t[i] \in [1..Len(t[i]) -> E]
      BY <2>1, <2>2
    <2> QED
      BY <2>2, <2>3, ListOf
  <1> HIDE DEF E
  <1>3. t \in [1..Len(t) -> Seq(E)]
    BY <1>1, <1>2
  <1>4. t \in Seq(Seq(E))
    BY <1>1, <1>3, ListOf
  <1>5. isList(FlattenSeq(t)) /\ Range(FlattenSeq(t)) \subseteq E
    BY <1>4, FlattenType, SeqIsList
  <1> QED
    BY <1>4, <1>5, FlattenLength DEF E

\* What a ceiling leaves.
LEMMA CappedList ==
  ASSUME NEW s, isList(s), NEW m \in Nat
  PROVE  /\ isList(capped(s, m)) /\ Len(capped(s, m)) = least(Len(s), m)
         /\ \A i \in 1..Len(capped(s, m)) : capped(s, m)[i] = s[i]
         /\ overflow(s, m) = Len(s) - Len(capped(s, m)) /\ overflow(s, m) \in Nat
  <1> DEFINE n == least(Len(s), m)
  <1>1. /\ Len(s) \in Nat /\ n \in Nat /\ n <= Len(s)
        /\ \A i \in 1..n : s[i] \in Range(s)
    BY ListBasics DEF least
  <1>2. /\ SubSeq(s, 1, n) \in Seq(Range(s))
        /\ Len(SubSeq(s, 1, n)) = IF 1 <= n THEN n - 1 + 1 ELSE 0
        /\ \A i \in 1..(n - 1 + 1) : SubSeq(s, 1, n)[i] = s[1 + i - 1]
    <2> HIDE DEF n
    <2> QED
      BY <1>1, SubSeqProperties
  <1>3. SubSeq(s, 1, n) = capped(s, m)
    BY DEF capped
  <1>4. isList(capped(s, m))
    BY <1>2, <1>3, SeqIsList
  <1>5. Len(capped(s, m)) = n
    <2> HIDE DEF n
    <2> QED
      BY <1>1, <1>2, <1>3
  <1>6. \A i \in 1..n : capped(s, m)[i] = s[i]
    <2> HIDE DEF n
    <2> QED
      BY <1>1, <1>2, <1>3
  <1>7. overflow(s, m) = Len(s) - n /\ overflow(s, m) \in Nat
    <2>1. CASE Len(s) < m
      BY <1>1, <2>1 DEF overflow, greatest, least
    <2>2. CASE ~(Len(s) < m)
      BY <1>1, <2>2 DEF overflow, greatest, least
    <2> QED
      BY <2>1, <2>2
  <1> QED
    BY <1>4, <1>5, <1>6, <1>7

LEMMA MappedList ==
  ASSUME NEW s, isList(s), NEW f, f = [i \in DOMAIN s |-> f[i]]
  PROVE  isList(f) /\ Len(f) = Len(s) /\ DOMAIN f = DOMAIN s
  <1>1. Len(s) \in Nat /\ DOMAIN s = 1..Len(s)
    BY ListBasics
  <1>2. f = [i \in 1..Len(s) |-> f[i]]
    BY <1>1
  <1> QED
    BY <1>1, <1>2, ListFrom

LEMMA SingletonList ==
  ASSUME NEW x
  PROVE  isList(<<x>>) /\ Len(<<x>>) = 1
  <1>1. <<x>> \in Seq({x}) /\ Len(<<x>>) = 1
    OBVIOUS
  <1> QED
    BY <1>1, SeqIsList

\* The elements of a list that pass are a list.
LEMMA PassedList ==
  ASSUME NEW s, isList(s), NEW t, t = [i \in DOMAIN s |-> t[i]],
         \A i \in DOMAIN s : t[i] = <<s[i]>> \/ t[i] = <<>>
  PROVE  isList(FlattenSeq(t)) /\ Range(FlattenSeq(t)) \subseteq Range(s)
  <1>1. isList(t) /\ DOMAIN t = DOMAIN s
    BY MappedList
  <1>2. \A i \in DOMAIN t : isList(t[i])
    <2> TAKE i \in DOMAIN t
    <2>1. t[i] = <<s[i]>> \/ t[i] = <<>>
      BY <1>1
    <2>2. isList(<<s[i]>>) /\ isList(<<>>)
      BY ListBasics, SingletonList
    <2> QED
      BY <2>1, <2>2
  <1>3. isList(FlattenSeq(t)) /\ Range(FlattenSeq(t)) \subseteq UNION {Range(t[i]) : i \in DOMAIN t}
    BY <1>1, <1>2, FlattenList
  <1>4. ASSUME NEW i \in DOMAIN t PROVE Range(t[i]) \subseteq Range(s)
    <2>1. CASE t[i] = <<s[i]>>
      <3>1. DOMAIN <<s[i]>> = {1} /\ <<s[i]>>[1] = s[i]
        OBVIOUS
      <3> QED
        BY <1>1, <2>1, <3>1 DEF Range
    <2>2. CASE t[i] = <<>>
      <3>1. DOMAIN <<>> = {}
        OBVIOUS
      <3> QED
        BY <2>2, <3>1 DEF Range
    <2> QED
      BY <1>1, <2>1, <2>2
  <1> QED
    BY <1>3, <1>4

-----------------------------------------------------------------------------
(* The rows of a result are a list, and what its ceilings drop is counted. *)

LEMMA CommandRowsList ==
  ASSUME NEW cmd, isList(cmd.agentResults)
  PROVE  isList(commandRows(cmd))
  <1>1. CASE cmd.agentResults # <<>>
    BY <1>1, MappedList DEF commandRows, Mapped
  <1>2. CASE cmd.agentResults = <<>>
    BY <1>2, SingletonList DEF commandRows
  <1> QED
    BY <1>1, <1>2

LEMMA PhaseRowsList ==
  ASSUME NEW phase, PhaseShape(phase)
  PROVE  isList(phaseRows(phase))
  <1>1. CASE phase.decision = "skipped"
    BY <1>1, ListBasics DEF phaseRows
  <1>2. CASE phase.decision # "skipped"
    <2> DEFINE t == Mapped(phase.commands, commandRows)
    <2>1. isList(t) /\ DOMAIN t = DOMAIN phase.commands
      BY MappedList DEF PhaseShape, Mapped
    <2>2. \A i \in DOMAIN t : isList(t[i])
      <3> TAKE i \in DOMAIN t
      <3>1. phase.commands[i] \in Range(phase.commands)
        BY <2>1 DEF Range
      <3>2. t[i] = commandRows(phase.commands[i])
        BY <2>1 DEF Mapped
      <3>3. isList(phase.commands[i].agentResults)
        BY <3>1 DEF PhaseShape, AgentsShape
      <3> QED
        BY <3>2, <3>3, CommandRowsList
    <2>3. phaseRows(phase) = FlattenSeq(t)
      BY <1>2 DEF phaseRows
    <2> HIDE DEF t
    <2> QED
      BY <2>1, <2>2, <2>3, FlattenList
  <1> QED
    BY <1>1, <1>2

\* A result that has no row of its parts has its own.
LEMMA OrItselfList ==
  ASSUME NEW rows, isList(rows), NEW r
  PROVE  isList(orItself(rows, r)) /\ Len(orItself(rows, r)) = greatest(1, Len(rows))
  <1>1. Len(rows) \in Nat /\ (Len(rows) = 0 <=> rows = <<>>)
    BY ListBasics
  <1>2. CASE rows = <<>>
    <2>1. isList(<<resultToAgent(r)>>) /\ Len(<<resultToAgent(r)>>) = 1
      BY SingletonList
    <2> QED
      BY <1>1, <1>2, <2>1 DEF orItself, greatest
  <1>3. CASE rows # <<>>
    BY <1>1, <1>3 DEF orItself, greatest
  <1> QED
    BY <1>2, <1>3

LEMMA WorkflowRowsList ==
  ASSUME NEW wf, wf.type = "workflow", CompositeShape(wf)
  PROVE  isList(workflowRows(wf)) /\ Len(workflowRows(wf)) \in Nat \ {0}
  <1> DEFINE t == Mapped(wf.phases, phaseRows)
  <1>1. isList(t) /\ DOMAIN t = DOMAIN wf.phases
    BY MappedList DEF CompositeShape, Mapped
  <1>2. \A i \in DOMAIN t : isList(t[i])
    <2> TAKE i \in DOMAIN t
    <2>1. wf.phases[i] \in Range(wf.phases)
      BY <1>1 DEF Range
    <2>2. t[i] = phaseRows(wf.phases[i])
      BY <1>1 DEF Mapped
    <2>3. PhaseShape(wf.phases[i])
      BY <2>1 DEF CompositeShape
    <2> QED
      BY <2>2, <2>3, PhaseRowsList
  <1>3. workflowRows(wf) = orItself(FlattenSeq(t), wf)
    BY DEF workflowRows
  <1> HIDE DEF t
  <1>4. isList(FlattenSeq(t))
    BY <1>1, <1>2, FlattenList
  <1>5. Len(FlattenSeq(t)) \in Nat
    BY <1>4, ListBasics
  <1> QED
    <2>1. /\ isList(workflowRows(wf))
          /\ Len(workflowRows(wf)) = greatest(1, Len(FlattenSeq(t)))
      BY <1>3, <1>4, OrItselfList
    <2> QED
      BY <1>5, <2>1 DEF greatest

LEMMA StageRowsList ==
  ASSUME NEW stage, StageShape(stage)
  PROVE  /\ isList(stageRows(stage)) /\ Len(stageRows(stage)) \in Nat
         /\ stageDrops(stage) \in Nat
         /\ stageRowCount(stage) = Len(stageRows(stage)) + stageDrops(stage)
         /\ stageDrops(stage) # 0 => Len(stageRows(stage)) # 0
  <1> USE DEF stageRows, stageDrops, stageRowCount
  <1>1. CASE stage.status = "skipped" \/ stage.result = Absent
    BY <1>1, ListBasics
  <1>2. CASE ~(stage.status = "skipped" \/ stage.result = Absent) /\ stage.agentResults # <<>>
    <2> DEFINE rows == Mapped(stage.agentResults, resultToAgent)
    <2>1. isList(rows)
      BY MappedList DEF StageShape, AgentsShape, Mapped
    <2>2. stageRows(stage) = rows
      BY <1>2
    <2> HIDE DEF rows
    <2>3. Len(rows) \in Nat
      BY <2>1, ListBasics
    <2>4. stageDrops(stage) = 0 /\ stageRowCount(stage) = Len(stageRows(stage))
      BY <1>2
    <2> HIDE DEF stageRows, stageDrops, stageRowCount
    <2> QED
      BY <2>1, <2>2, <2>3, <2>4
  <1>3. CASE /\ ~(stage.status = "skipped" \/ stage.result = Absent) /\ stage.agentResults = <<>>
             /\ stage.result.type = "workflow"
    <2> DEFINE rows == workflowRows(stage.result)
    <2>1. /\ stageRows(stage) = capped(rows, MAX_RUN_AGENTS)
          /\ stageDrops(stage) = overflow(rows, MAX_RUN_AGENTS)
          /\ stageRowCount(stage) = Len(rows)
      BY <1>3 DEF extractWorkflowAgents
    <2>2. isList(rows) /\ Len(rows) \in Nat \ {0}
      BY <1>3, WorkflowRowsList DEF StageShape
    <2> HIDE DEF rows, stageRows, stageDrops, stageRowCount
    <2>3. MAX_RUN_AGENTS \in Nat \ {0, 1}
      BY CeilingsAssumption
    <2>4. /\ isList(capped(rows, MAX_RUN_AGENTS))
          /\ Len(capped(rows, MAX_RUN_AGENTS)) = least(Len(rows), MAX_RUN_AGENTS)
          /\ overflow(rows, MAX_RUN_AGENTS) = Len(rows) - Len(capped(rows, MAX_RUN_AGENTS))
          /\ overflow(rows, MAX_RUN_AGENTS) \in Nat
      BY <2>2, <2>3, CappedList
    <2>5. Len(capped(rows, MAX_RUN_AGENTS)) \in Nat \ {0}
      BY <2>2, <2>3, <2>4 DEF least
    <2> QED
      BY <2>1, <2>2, <2>4, <2>5
  <1>4. CASE /\ ~(stage.status = "skipped" \/ stage.result = Absent) /\ stage.agentResults = <<>>
             /\ stage.result.type # "workflow"
    <2>1. stageRows(stage) = commandRows(stage.result)
      BY <1>4
    <2>2. isList(stage.result.agentResults)
      BY <1>4 DEF StageShape, CompositeShape, AgentsShape
    <2>3. isList(stageRows(stage))
      BY <2>1, <2>2, CommandRowsList
    <2>4. stageDrops(stage) = 0 /\ stageRowCount(stage) = Len(stageRows(stage))
      BY <1>4
    <2> HIDE DEF stageRows, stageDrops, stageRowCount
    <2>5. Len(stageRows(stage)) \in Nat
      BY <2>3, ListBasics
    <2> QED
      BY <2>3, <2>4, <2>5
  <1> HIDE DEF stageRows, stageDrops, stageRowCount
  <1> QED
    BY <1>1, <1>2, <1>3, <1>4

LEMMA PipelineRowsCounted ==
  ASSUME NEW pl, pl.type = "pipeline", ResultShape(pl)
  PROVE  /\ isList(pipelineRows(pl)) /\ Len(pipelineRows(pl)) \in Nat \ {0}
         /\ sumOf(Mapped(pl.stages, stageDrops)) \in Nat
         /\ rowCount(pl) = Len(pipelineRows(pl)) + sumOf(Mapped(pl.stages, stageDrops))
  <1> DEFINE stages == pl.stages
             t == Mapped(stages, stageRows)
             lens == [i \in DOMAIN t |-> Len(t[i])]
             drops == Mapped(stages, stageDrops)
             counts == Mapped(stages, stageRowCount)
             n == Len(stages)
  <1>1. isList(stages) /\ \A stage \in Range(stages) : StageShape(stage)
    BY DEF ResultShape
  <1>2. n \in Nat /\ DOMAIN stages = 1..n
    BY <1>1, ListBasics
  <1>3. /\ t = [i \in 1..n |-> stageRows(stages[i])]
        /\ drops = [i \in 1..n |-> stageDrops(stages[i])]
        /\ counts = [i \in 1..n |-> stageRowCount(stages[i])]
        /\ lens = [i \in 1..n |-> Len(stageRows(stages[i]))]
    BY <1>2 DEF Mapped
  <1>4. ASSUME NEW i \in 1..n
        PROVE  /\ isList(stageRows(stages[i])) /\ Len(stageRows(stages[i])) \in Nat
               /\ stageDrops(stages[i]) \in Nat
               /\ stageRowCount(stages[i]) = Len(stageRows(stages[i])) + stageDrops(stages[i])
               /\ stageDrops(stages[i]) # 0 => Len(stageRows(stages[i])) # 0
    <2>1. StageShape(stages[i])
      BY <1>1, <1>2 DEF Range
    <2> QED
      BY <2>1, StageRowsList
  <1>5. /\ pipelineRows(pl) = orItself(FlattenSeq(t), pl)
        /\ rowCount(pl) = greatest(1, sumOf(counts))
    BY DEF pipelineRows, rowCount
  <1>6. lens = [i \in DOMAIN t |-> Len(t[i])]
    OBVIOUS
  <1>7. drops = Mapped(pl.stages, stageDrops)
    OBVIOUS
  <1> HIDE DEF stages, t, lens, drops, counts, n
  <1>8. isList(t) /\ DOMAIN t = 1..n
    BY <1>2, <1>3, ListFrom
  <1>9. \A i \in 1..n : isList(t[i])
    BY <1>3, <1>4
  <1>10. /\ isList(FlattenSeq(t))
         /\ Len(FlattenSeq(t)) = sumOf(lens)
    BY <1>6, <1>8, <1>9, FlattenList
  <1>11. /\ lens \in Seq(Nat) /\ drops \in Seq(Nat) /\ counts \in Seq(Nat)
         /\ Len(lens) = n /\ Len(drops) = n /\ Len(counts) = n
    <2>1. lens \in [1..n -> Nat] /\ drops \in [1..n -> Nat] /\ counts \in [1..n -> Nat]
      BY <1>3, <1>4
    <2> QED
      BY <1>2, <2>1, ListOf
  <1>12. \A i \in 1..n : /\ counts[i] = lens[i] + drops[i]
                         /\ drops[i] # 0 => lens[i] # 0
                         /\ lens[i] \in Nat /\ drops[i] \in Nat
    BY <1>3, <1>4
  <1>13. sumOf(counts) = sumOf(lens) + sumOf(drops)
    <2>1. Len(lens) = Len(counts) /\ Len(drops) = Len(counts)
      BY <1>11
    <2>2. \A i \in 1..Len(counts) : counts[i] = lens[i] + drops[i]
      BY <1>11, <1>12
    <2> QED
      BY <1>11, <2>1, <2>2, SumPlus
  <1>14. sumOf(lens) \in Nat /\ sumOf(drops) \in Nat
    BY <1>11, SumType
  <1>15. ASSUME sumOf(lens) = 0 PROVE sumOf(drops) = 0
    <2>1. \A i \in 1..n : lens[i] = 0
      <3> TAKE i \in 1..n
      <3>1. lens[i] <= sumOf(lens)
        BY <1>11, SumBound
      <3> QED
        BY <1>12, <1>15, <3>1
    <2>2. \A i \in 1..n : drops[i] = 0
      BY <1>12, <2>1
    <2>3. drops = lens
      BY <1>3, <2>1, <2>2
    <2> QED
      BY <1>15, <2>3
  <1>16. isList(pipelineRows(pl)) /\ Len(pipelineRows(pl)) = greatest(1, sumOf(lens))
    BY <1>5, <1>10, OrItselfList
  <1>17. rowCount(pl) = greatest(1, sumOf(lens) + sumOf(drops))
    BY <1>5, <1>13
  <1>18. Len(pipelineRows(pl)) \in Nat \ {0}
    BY <1>14, <1>16 DEF greatest
  <1>19. rowCount(pl) = Len(pipelineRows(pl)) + sumOf(drops)
    BY <1>14, <1>15, <1>16, <1>17 DEF greatest
  <1> QED
    BY <1>7, <1>14, <1>16, <1>18, <1>19

\* The rows of a result are a list; what the ceilings dropped of them is what
\* is missing.
LEMMA RowsAreCounted ==
  ASSUME NEW r, ResultShape(r)
  PROVE  /\ isList(extractAgents(r)) /\ droppedAgents(r) \in Nat
         /\ rowCount(r) - Len(extractAgents(r)) = droppedAgents(r)
  <1>1. r.type \in {"agent", "command", "workflow", "pipeline"}
    BY DEF ResultShape
  <1>2. MAX_RUN_AGENTS \in Nat
    BY CeilingsAssumption
  <1>3. CASE r.type = "agent"
    <2>1. extractAgents(r) = <<resultToAgent(r)>> /\ rowCount(r) = Len(<<resultToAgent(r)>>)
      BY <1>3 DEF extractAgents, uncappedRows, rowCount
    <2>2. droppedAgents(r) = 0
      BY <1>3 DEF droppedAgents
    <2> QED
      BY <2>1, <2>2, SingletonList
  <1>4. CASE r.type = "command"
    <2>1. extractAgents(r) = commandRows(r) /\ rowCount(r) = Len(commandRows(r))
      BY <1>4 DEF extractAgents, uncappedRows, rowCount
    <2>2. droppedAgents(r) = 0
      BY <1>4 DEF droppedAgents
    <2>3. isList(r.agentResults)
      BY <1>4 DEF ResultShape, CompositeShape, AgentsShape
    <2>4. isList(commandRows(r))
      BY <2>3, CommandRowsList
    <2>5. Len(commandRows(r)) \in Nat
      BY <2>4, ListBasics
    <2> QED
      BY <2>1, <2>2, <2>4, <2>5
  <1>5. CASE r.type = "workflow"
    <2> DEFINE rows == workflowRows(r)
    <2>1. /\ extractAgents(r) = capped(rows, MAX_RUN_AGENTS) /\ rowCount(r) = Len(rows)
          /\ droppedAgents(r) = overflow(rows, MAX_RUN_AGENTS)
      BY <1>5 DEF extractAgents, uncappedRows, rowCount, droppedAgents
    <2>2. isList(rows)
      BY <1>5, WorkflowRowsList DEF ResultShape
    <2> HIDE DEF rows
    <2> QED
      BY <1>2, <2>1, <2>2, CappedList
  <1>6. CASE r.type = "pipeline"
    <2> DEFINE rows == pipelineRows(r)
               drops == sumOf(Mapped(r.stages, stageDrops))
    <2>1. /\ extractAgents(r) = capped(rows, MAX_RUN_AGENTS)
          /\ droppedAgents(r) = overflow(rows, MAX_RUN_AGENTS) + drops
      BY <1>6 DEF extractAgents, uncappedRows, droppedAgents
    <2>2. /\ isList(rows) /\ Len(rows) \in Nat \ {0} /\ drops \in Nat
          /\ rowCount(r) = Len(rows) + drops
      BY <1>6, PipelineRowsCounted
    <2> HIDE DEF rows, drops
    <2>3. /\ isList(capped(rows, MAX_RUN_AGENTS))
          /\ overflow(rows, MAX_RUN_AGENTS) = Len(rows) - Len(capped(rows, MAX_RUN_AGENTS))
          /\ overflow(rows, MAX_RUN_AGENTS) \in Nat
      BY <1>2, <2>2, CappedList
    <2>4. Len(capped(rows, MAX_RUN_AGENTS)) \in Nat
      BY <2>3, ListBasics
    <2> QED
      BY <2>1, <2>2, <2>3, <2>4
  <1> QED
    BY <1>1, <1>3, <1>4, <1>5, <1>6

-----------------------------------------------------------------------------
(* The analysis of a result: its children are a list, each with its list   *)
(* of records; the record ids made unique are as many as they were; and    *)
(* the body's limit keeps no more than there is.                           *)

LEMMA ChildrenList ==
  ASSUME NEW r, r.type \in {"command", "workflow"}, CompositeShape(r)
  PROVE  AgentsShape(childrenOf(r))
  <1>1. CASE r.type = "command"
    BY <1>1 DEF childrenOf, CompositeShape
  <1>2. CASE r.type = "workflow"
    <2> DEFINE t == [i \in DOMAIN r.phases |-> r.phases[i].commands]
               commands == FlattenSeq(t)
               u == Mapped(commands, LAMBDA cmd : cmd.agentResults)
    <2>1. isList(r.phases) /\ \A phase \in Range(r.phases) : PhaseShape(phase)
      BY <1>2 DEF CompositeShape
    <2>2. isList(t) /\ DOMAIN t = DOMAIN r.phases
      BY <2>1, MappedList
    <2>3. \A i \in DOMAIN t : isList(t[i]) /\ \A cmd \in Range(t[i]) : AgentsShape(cmd.agentResults)
      <3> TAKE i \in DOMAIN t
      <3>1. t[i] = r.phases[i].commands /\ r.phases[i] \in Range(r.phases)
        BY <2>2 DEF Range
      <3> QED
        BY <2>1, <3>1 DEF PhaseShape
    <2> HIDE DEF t
    <2>4. isList(commands) /\ Range(commands) \subseteq UNION {Range(t[i]) : i \in DOMAIN t}
      BY <2>2, <2>3, FlattenList
    <2>5. \A cmd \in Range(commands) : AgentsShape(cmd.agentResults)
      BY <2>3, <2>4
    <2> HIDE DEF commands
    <2>6. isList(u) /\ DOMAIN u = DOMAIN commands
      BY <2>4, MappedList DEF Mapped
    <2>7. \A i \in DOMAIN u : AgentsShape(u[i])
      <3> TAKE i \in DOMAIN u
      <3>1. u[i] = commands[i].agentResults /\ commands[i] \in Range(commands)
        BY <2>6 DEF Range, Mapped
      <3> QED
        BY <2>5, <3>1
    <2>8. childrenOf(r) = FlattenSeq(u)
      BY <1>2 DEF childrenOf, commands, t
    <2> HIDE DEF u
    <2>9. isList(FlattenSeq(u)) /\ Range(FlattenSeq(u)) \subseteq UNION {Range(u[i]) : i \in DOMAIN u}
      BY <2>6, <2>7, FlattenList DEF AgentsShape
    <2>10. \A a \in Range(FlattenSeq(u)) : AgentShape(a)
      BY <2>7, <2>9 DEF AgentsShape
    <2> QED
      BY <2>8, <2>9, <2>10 DEF AgentsShape
  <1> QED
    BY <1>1, <1>2

LEMMA NoAgents == AgentsShape(<<>>)
  <1>1. Range(<<>>) = {}
    BY DEF Range
  <1> QED
    BY <1>1, ListBasics DEF AgentsShape

LEMMA StageChildrenList ==
  ASSUME NEW stage, StageShape(stage)
  PROVE  AgentsShape(stageChildren(stage))
  <1>1. CASE stage.agentResults # <<>>
    BY <1>1 DEF stageChildren, StageShape
  <1>2. CASE stage.agentResults = <<>> /\ stage.result = Absent
    BY <1>2, NoAgents DEF stageChildren
  <1>3. CASE stage.agentResults = <<>> /\ stage.result # Absent
    BY <1>3, ChildrenList DEF stageChildren, StageShape
  <1> QED
    BY <1>1, <1>2, <1>3

LEMMA AnalysisChildrenList ==
  ASSUME NEW r, ResultShape(r)
  PROVE  AgentsShape(analysisChildren(r))
  <1> DEFINE walk == CASE r.type = "agent" -> <<r>>
                       [] r.type = "pipeline" -> FlattenSeq(Mapped(r.stages, stageChildren))
                       [] OTHER -> childrenOf(r)
             t == [i \in DOMAIN walk |->
                     IF walk[i].version # "placeholder" \/ r.type = "agent"
                     THEN <<walk[i]>> ELSE <<>>]
  <1>1. analysisChildren(r) = FlattenSeq(t)
    BY DEF analysisChildren, chosen, Mapped
  <1>2. AgentsShape(walk)
    <2>1. CASE r.type = "agent"
      <3>1. walk = <<r>>
        BY <2>1
      <3>2. isList(<<r>>) /\ DOMAIN <<r>> = {1} /\ <<r>>[1] = r
        BY SingletonList
      <3>3. Range(<<r>>) = {r}
        BY <3>2 DEF Range
      <3>4. AgentShape(r)
        BY <2>1 DEF ResultShape
      <3> HIDE DEF walk
      <3> QED
        BY <3>1, <3>2, <3>3, <3>4 DEF AgentsShape
    <2>2. CASE r.type = "pipeline"
      <3> DEFINE u == Mapped(r.stages, stageChildren)
      <3>1. isList(r.stages) /\ \A stage \in Range(r.stages) : StageShape(stage)
        BY <2>2 DEF ResultShape
      <3>2. isList(u) /\ DOMAIN u = DOMAIN r.stages
        BY <3>1, MappedList DEF Mapped
      <3>3. \A i \in DOMAIN u : AgentsShape(u[i])
        <4> TAKE i \in DOMAIN u
        <4>1. u[i] = stageChildren(r.stages[i]) /\ r.stages[i] \in Range(r.stages)
          BY <3>2 DEF Range, Mapped
        <4> QED
          BY <3>1, <4>1, StageChildrenList
      <3>4. walk = FlattenSeq(u)
        BY <2>2
      <3> HIDE DEF u, walk
      <3>5. isList(FlattenSeq(u)) /\ Range(FlattenSeq(u)) \subseteq UNION {Range(u[i]) : i \in DOMAIN u}
        BY <3>2, <3>3, FlattenList DEF AgentsShape
      <3>6. \A a \in Range(FlattenSeq(u)) : AgentShape(a)
        BY <3>3, <3>5 DEF AgentsShape
      <3> QED
        BY <3>4, <3>5, <3>6 DEF AgentsShape
    <2>3. CASE r.type \in {"command", "workflow"}
      <3>1. walk = childrenOf(r)
        BY <2>3
      <3>2. CompositeShape(r)
        BY <2>3 DEF ResultShape
      <3> HIDE DEF walk
      <3> QED
        BY <2>3, <3>1, <3>2, ChildrenList
    <2>4. r.type \in {"agent", "command", "workflow", "pipeline"}
      BY DEF ResultShape
    <2> QED
      BY <2>1, <2>2, <2>3, <2>4
  <1> HIDE DEF walk
  <1>3. isList(FlattenSeq(t)) /\ Range(FlattenSeq(t)) \subseteq Range(walk)
    BY <1>2, PassedList DEF AgentsShape
  <1> HIDE DEF t
  <1> QED
    BY <1>1, <1>2, <1>3 DEF AgentsShape

\* The records one by one: what is used and what is out after each.
LEMMA GuardUnfolds ==
  ASSUME NEW records, isList(records)
  PROVE  \E f : /\ f[0] = [used |-> reservedKeys(records), out |-> <<>>]
                /\ \A n \in 1..Len(records) :
                      LET record == guardRecord(records, n, f[n - 1].used)
                      IN  f[n] = [used |-> f[n - 1].used \union {keyOf(record)},
                                  out |-> Append(f[n - 1].out, record)]
                /\ guardRecordKeys(records) = f[Len(records)].out
  <1> DEFINE first == [used |-> reservedKeys(records), out |-> <<>>]
             next(done, i) == [used |-> done.used \union {keyOf(guardRecord(records, i, done.used))},
                               out |-> Append(done.out, guardRecord(records, i, done.used))]
             P(f, n) == f = [k \in 0..n |-> IF k = 0 THEN first ELSE next(f[k - 1], k)]
             Q(n) == \E f : P(f, n)
             S == {n \in Nat : Q(n)}
  <1>1. guardRecordKeys(records) = (CHOOSE f : P(f, Len(records)))[Len(records)].out
    BY DEF guardRecordKeys
  <1> HIDE DEF first, next
  <1>2. S = Nat
    <2>1. 0 \in S
      <3> DEFINE e == [k \in 0..0 |-> first]
      <3>1. P(e, 0)
        OBVIOUS
      <3> QED
        BY <3>1
    <2>2. ASSUME NEW n \in S PROVE n + 1 \in S
      <3>1. n \in Nat
        OBVIOUS
      <3>2. PICK f : P(f, n)
        OBVIOUS
      <3> DEFINE last == next(f[n], n + 1)
                 g == [k \in 0..(n + 1) |-> IF k = n + 1 THEN last ELSE f[k]]
      <3>3. \A k \in 0..n : f[k] = IF k = 0 THEN first ELSE next(f[k - 1], k)
        BY <3>2
      <3>4. g[n + 1] = last /\ \A k \in 0..n : g[k] = f[k]
        BY <3>1
      <3>5. g = [k \in 0..(n + 1) |-> g[k]]
        OBVIOUS
      <3> HIDE DEF g
      <3>6. \A k \in 0..(n + 1) : g[k] = IF k = 0 THEN first ELSE next(g[k - 1], k)
        <4> TAKE k \in 0..(n + 1)
        <4>1. CASE k = n + 1
          <5>1. k # 0 /\ k - 1 = n /\ n \in 0..n
            BY <4>1, <3>1
          <5> QED
            BY <4>1, <5>1, <3>4 DEF last
        <4>2. CASE k # n + 1
          <5>1. k \in 0..n /\ (k # 0 => k - 1 \in 0..n)
            BY <4>2, <3>1
          <5>2. g[k] = f[k] /\ (k # 0 => g[k - 1] = f[k - 1])
            BY <5>1, <3>4
          <5> QED
            BY <5>1, <5>2, <3>3
        <4> QED
          BY <4>1, <4>2
      <3>7. P(g, n + 1)
        BY <3>5, <3>6
      <3> HIDE DEF P
      <3> QED
        BY <3>1, <3>7
    <2> HIDE DEF S
    <2>3. S \in SUBSET Nat
      BY DEF S
    <2> QED
      BY <2>1, <2>2, <2>3, Induction
  <1> DEFINE f == CHOOSE f1 : P(f1, Len(records))
  <1>3. Len(records) \in Nat
    BY ListBasics
  <1>4. Len(records) \in S
    BY <1>2, <1>3
  <1>5. P(f, Len(records))
    BY <1>4
  <1>6. \A h : P(h, Len(records)) =>
          \A k \in 0..Len(records) : h[k] = IF k = 0 THEN first ELSE next(h[k - 1], k)
    OBVIOUS
  <1>7. \A k \in 0..Len(records) : f[k] = IF k = 0 THEN first ELSE next(f[k - 1], k)
    <2> HIDE DEF P, f
    <2> QED
      BY <1>5, <1>6
  <1> HIDE DEF f
  <1>8. f[0] = first /\ \A n \in 1..Len(records) : f[n] = next(f[n - 1], n)
    BY <1>3, <1>7
  <1>9. guardRecordKeys(records) = f[Len(records)].out
    BY <1>1 DEF f
  <1> QED
    BY <1>8, <1>9 DEF first, next

LEMMA AppendList ==
  ASSUME NEW s, isList(s), NEW x
  PROVE  /\ isList(Append(s, x)) /\ Len(Append(s, x)) = Len(s) + 1
         /\ \A i \in 1..Len(s) : Append(s, x)[i] = s[i]
         /\ Append(s, x)[Len(s) + 1] = x
  <1> DEFINE E == Range(s) \union {x}
  <1>1. /\ Len(s) \in Nat /\ s = [i \in 1..Len(s) |-> s[i]]
        /\ \A i \in 1..Len(s) : s[i] \in E
    BY ListBasics
  <1>2. x \in E
    OBVIOUS
  <1> HIDE DEF E
  <1>3. s \in Seq(E)
    <2>1. s \in [1..Len(s) -> E]
      BY <1>1
    <2> QED
      BY <1>1, <2>1, ListOf
  <1>4. /\ Append(s, x) \in Seq(E) /\ Len(Append(s, x)) = Len(s) + 1
        /\ \A i \in 1..Len(s) : Append(s, x)[i] = s[i]
        /\ Append(s, x)[Len(s) + 1] = x
    BY <1>2, <1>3, AppendProperties
  <1> QED
    BY <1>4, SeqIsList

\* Ids are changed, never records dropped.
LEMMA GuardKeepsAll ==
  ASSUME NEW records, isList(records)
  PROVE  isList(guardRecordKeys(records)) /\ Len(guardRecordKeys(records)) = Len(records)
  <1>1. PICK f : /\ f[0] = [used |-> reservedKeys(records), out |-> <<>>]
                 /\ \A n \in 1..Len(records) :
                      LET record == guardRecord(records, n, f[n - 1].used)
                      IN  f[n] = [used |-> f[n - 1].used \union {keyOf(record)},
                                  out |-> Append(f[n - 1].out, record)]
                 /\ guardRecordKeys(records) = f[Len(records)].out
    BY GuardUnfolds
  <1>2. Len(records) \in Nat
    BY ListBasics
  <1> DEFINE T == {n \in Nat : n <= Len(records) => isList(f[n].out) /\ Len(f[n].out) = n}
  <1>3. T = Nat
    <2>1. 0 \in T
      BY <1>1, ListBasics
    <2>2. ASSUME NEW n \in T PROVE n + 1 \in T
      <3>1. n \in Nat
        OBVIOUS
      <3> SUFFICES ASSUME n + 1 <= Len(records)
                   PROVE  isList(f[n + 1].out) /\ Len(f[n + 1].out) = n + 1
        BY <3>1
      <3>2. n + 1 \in 1..Len(records) /\ (n + 1) - 1 = n
        BY <1>2, <3>1
      <3> DEFINE record == guardRecord(records, n + 1, f[n].used)
      <3>3. f[n + 1].out = Append(f[n].out, record)
        <4>1. f[n + 1] = [used |-> f[n].used \union {keyOf(record)},
                          out |-> Append(f[n].out, record)]
          BY <1>1, <3>2
        <4> HIDE DEF record
        <4> QED
          BY <4>1
      <3> HIDE DEF record
      <3>4. isList(f[n].out) /\ Len(f[n].out) = n
        BY <1>2, <3>1
      <3> QED
        BY <3>3, <3>4, AppendList
    <2>3. T \in SUBSET Nat
      OBVIOUS
    <2> HIDE DEF T
    <2> QED
      BY <2>1, <2>2, <2>3, Induction
  <1>4. Len(records) \in T
    BY <1>2, <1>3
  <1> QED
    BY <1>1, <1>4

\* A set of numbers up to some number has a greatest one.
LEMMA MaxOfSome ==
  ASSUME NEW n \in Nat, NEW S \in SUBSET (0..n), S # {}
  PROVE  Max(S) \in S /\ \A x \in S : x <= Max(S)
  <1> DEFINE T == {n - x : x \in S}
  <1>1. T \in SUBSET Nat /\ T # {}
    <2>1. \A x \in S : n - x \in Nat
      OBVIOUS
    <2> QED
      BY <2>1
  <1>2. PICK m \in T : \A y \in T : m <= y
    BY <1>1, LeastNat
  <1>3. PICK x \in S : m = n - x
    BY <1>2
  <1>4. \A y \in S : x >= y
    <2> TAKE y \in S
    <2>1. n - y \in T
      OBVIOUS
    <2>2. n - x <= n - y
      BY <1>2, <1>3, <2>1
    <2> QED
      BY <2>2
  <1>5. Max(S) \in S /\ \A y \in S : Max(S) >= y
    BY <1>4 DEF Max
  <1> QED
    BY <1>5

\* The body's limit keeps no more summaries and records than there are.
LEMMA BudgetKeepsSome ==
  ASSUME NEW rows, NEW recs, NEW summaries, isList(summaries), NEW records, isList(records)
  PROVE  LET kept == enforcePayloadBudget(rows, recs, summaries, records)
         IN  kept.summaries \in 0..Len(summaries) /\ kept.records \in 0..Len(records)
  <1> DEFINE fits(s, r) == payloadWeight(rows, recs, SubSeq(summaries, 1, s),
                                         SubSeq(records, 1, r)) <= MAX_PAYLOAD
             some == {s \in 0..Len(summaries) : fits(s, Len(records))}
             none == {r \in 0..Len(records) : fits(0, r)}
  <1>1. enforcePayloadBudget(rows, recs, summaries, records) =
          IF some # {} THEN [summaries |-> Max(some), records |-> Len(records)]
          ELSE [summaries |-> 0, records |-> IF none = {} THEN 0 ELSE Max(none)]
    BY DEF enforcePayloadBudget
  <1>2. some \in SUBSET (0..Len(summaries)) /\ none \in SUBSET (0..Len(records))
    OBVIOUS
  <1> HIDE DEF some, none
  <1>3. Len(summaries) \in Nat /\ Len(records) \in Nat
    BY ListBasics
  <1>4. some # {} => Max(some) \in 0..Len(summaries)
    BY <1>2, <1>3, MaxOfSome
  <1>5. none # {} => Max(none) \in 0..Len(records)
    BY <1>2, <1>3, MaxOfSome
  <1>6. CASE some # {}
    BY <1>1, <1>3, <1>4, <1>6
  <1>7. CASE some = {}
    BY <1>1, <1>3, <1>5, <1>7
  <1> QED
    BY <1>6, <1>7

LEMMA SubList ==
  ASSUME NEW s, isList(s), NEW n \in 0..Len(s)
  PROVE  /\ isList(SubSeq(s, 1, n)) /\ Len(SubSeq(s, 1, n)) = n
         /\ \A i \in 1..n : SubSeq(s, 1, n)[i] = s[i]
  <1>1. Len(s) \in Nat /\ \A i \in 1..n : s[i] \in Range(s)
    BY ListBasics
  <1>2. /\ SubSeq(s, 1, n) \in Seq(Range(s))
        /\ Len(SubSeq(s, 1, n)) = IF 1 <= n THEN n - 1 + 1 ELSE 0
        /\ \A i \in 1..(n - 1 + 1) : SubSeq(s, 1, n)[i] = s[1 + i - 1]
    BY <1>1, SubSeqProperties
  <1>3. isList(SubSeq(s, 1, n))
    BY <1>2, SeqIsList
  <1>4. Len(SubSeq(s, 1, n)) = n
    BY <1>1, <1>2
  <1>5. \A i \in 1..n : SubSeq(s, 1, n)[i] = s[i]
    BY <1>1, <1>2
  <1> QED
    BY <1>3, <1>4, <1>5

-----------------------------------------------------------------------------
(* One submission: what it lacks of its result is what its marker and its  *)
(* tally count.                                                            *)

\* The marker is the last recommendation, and the only one of its title.
LEMMA MarkerIsLast ==
  ASSUME NEW recs, isList(recs), NEW tally1, NEW produced \in Nat,
         Len(recs) = least(produced, MAX_RECOMMENDATIONS),
         \A i \in 1..Len(recs) : recs[i].title = "fits",
         NEW out, out = marked(recs, tally1, produced)
  PROVE  /\ (produced = Len(recs) /\ tally1.agents = 0 /\ tally1.analysisRecords = 0) =>
               markersOf(out) = {} /\ Len(out) = produced
         /\ ~(produced = Len(recs) /\ tally1.agents = 0 /\ tally1.analysisRecords = 0) =>
               /\ markersOf(out) = {Len(out)}
               /\ Len(out) \in 1..MAX_RECOMMENDATIONS
               /\ Len(out) - 1 <= produced
               /\ produced # Len(recs) => Len(out) - 1 # produced
               /\ Last(out) =
                    buildTruncationMarker(tally1, produced - (Len(out) - 1))
  <1> DEFINE isFull == produced = Len(recs) /\ tally1.agents = 0 /\ tally1.analysisRecords = 0
             kept == capped(recs, MAX_RECOMMENDATIONS - 1)
             marker == buildTruncationMarker(tally1, produced - Len(kept))
  <1>1. MAX_RECOMMENDATIONS \in Nat \ {0, 1}
    BY CeilingsAssumption
  <1>2. CASE isFull
    <2>1. out = recs
      BY <1>2 DEF marked
    <2>2. DOMAIN out = 1..Len(out)
      BY <2>1, ListBasics
    <2>3. \A j \in DOMAIN out : out[j].title # "truncated"
      BY <2>1, <2>2
    <2>4. markersOf(out) = {}
      BY <2>3 DEF markersOf, isMarker
    <2> QED
      BY <1>2, <2>1, <2>4
  <1>3. CASE ~isFull
    <2>1. out = Append(kept, marker)
      BY <1>3 DEF marked
    <2>2. MAX_RECOMMENDATIONS - 1 \in Nat
      BY <1>1
    <2>3. /\ isList(kept) /\ Len(kept) = least(Len(recs), MAX_RECOMMENDATIONS - 1)
          /\ \A i \in 1..Len(kept) : kept[i] = recs[i]
      BY <2>2, CappedList
    <2>4. Len(recs) \in Nat /\ Len(kept) \in Nat
      BY <2>3, ListBasics
    <2>5. /\ Len(kept) <= Len(recs) /\ Len(kept) <= MAX_RECOMMENDATIONS - 1
          /\ Len(kept) <= produced
          /\ produced # Len(recs) => Len(kept) # produced
      BY <1>1, <2>3, <2>4 DEF least
    <2>6. \A i \in 1..Len(kept) : kept[i].title = "fits"
      BY <2>3, <2>4, <2>5
    <2>7. marker.title = "truncated"
      BY DEF buildTruncationMarker
    <2>8. marker = buildTruncationMarker(tally1, produced - Len(kept))
      OBVIOUS
    <2> HIDE DEF kept, marker
    <2>9. /\ isList(out) /\ Len(out) = Len(kept) + 1
          /\ \A i \in 1..Len(kept) : out[i] = kept[i]
          /\ out[Len(kept) + 1] = marker
      BY <2>1, <2>3, AppendList
    <2>10. DOMAIN out = 1..(Len(kept) + 1)
      BY <2>9, ListBasics
    <2>11. markersOf(out) = {Len(out)}
      BY <2>4, <2>6, <2>7, <2>9, <2>10 DEF markersOf, isMarker
    <2>12. Last(out) = marker
      BY <2>9 DEF Last
    <2>13. Len(out) \in 1..MAX_RECOMMENDATIONS /\ Len(out) - 1 = Len(kept)
      BY <1>1, <2>4, <2>5, <2>9
    <2> QED
      BY <1>3, <2>5, <2>8, <2>11, <2>12, <2>13
  <1> QED
    BY <1>2, <1>3

\* A submission, part by part.
LEMMA SubmissionParts ==
  ASSUME NEW r, NEW tally1
  PROVE  LET made == transformToOpsInput(r, tally1)
             children == analysisChildren(r)
             summaries == Mapped(children, LAMBDA a : repairSummary(a.analysis.summary))
             records == FlattenSeq(Mapped(children,
                          LAMBDA a : Mapped(a.analysis.records, repairRecord)))
             allRecs == Mapped(r.recommendations, sanitized)
             recs == capped(allRecs, MAX_RECOMMENDATIONS)
             someSummaries == capped(summaries, MAX_ANALYSIS_SUMMARIES)
             someRecords == guardRecordKeys(capped(records, MAX_ANALYSIS_RECORDS))
             kept == enforcePayloadBudget(extractAgents(r), recs, someSummaries, someRecords)
         IN  /\ made.input.agents = extractAgents(r)
             /\ made.input.recommendations = marked(recs, made.truncated, Len(allRecs))
             /\ made.input.analysisSummary = SubSeq(someSummaries, 1, kept.summaries)
             /\ made.input.analysisRecords = SubSeq(someRecords, 1, kept.records)
             /\ made.input.allGatesPassed = savedVerdict(r)
             /\ made.input.averageScore = averageScore(r)
             /\ DOMAIN made.truncated = DOMAIN emptyTally
             /\ made.truncated.agents = 0 + droppedAgents(r)
             /\ made.truncated.recommendations = 0 + overflow(allRecs, MAX_RECOMMENDATIONS)
             /\ made.truncated.analysisRecords = 0 + Len(records) - kept.records
             /\ made.truncated.analysisSummaries = 0 + Len(summaries) - kept.summaries
  BY DEF transformToOpsInput, freshTally, emptyTally

\* Recommendations are repaired one by one, and none has the marker's title.
LEMMA RecommendationsRepaired ==
  ASSUME NEW r, ResultShape(r)
  PROVE  LET allRecs == Mapped(r.recommendations, sanitized)
             recs == capped(allRecs, MAX_RECOMMENDATIONS)
         IN  /\ isList(allRecs) /\ Len(allRecs) = Len(r.recommendations) /\ Len(allRecs) \in Nat
             /\ isList(recs) /\ Len(recs) = least(Len(allRecs), MAX_RECOMMENDATIONS)
             /\ \A i \in 1..Len(recs) : recs[i].title = "fits"
             /\ overflow(allRecs, MAX_RECOMMENDATIONS) \in Nat
  <1> DEFINE allRecs == Mapped(r.recommendations, sanitized)
             recs == capped(allRecs, MAX_RECOMMENDATIONS)
  <1>1. /\ isList(r.recommendations)
        /\ \A rec \in Range(r.recommendations) : "title" \in DOMAIN rec
    BY DEF ResultShape, RecommendationShape
  <1>2. /\ isList(allRecs) /\ Len(allRecs) = Len(r.recommendations)
        /\ DOMAIN allRecs = DOMAIN r.recommendations
    BY <1>1, MappedList DEF Mapped
  <1>3. Len(allRecs) \in Nat /\ DOMAIN allRecs = 1..Len(allRecs)
    BY <1>2, ListBasics
  <1>4. ASSUME NEW i \in DOMAIN allRecs PROVE allRecs[i].title = "fits"
    <2>1. allRecs[i] = sanitized(r.recommendations[i])
      BY <1>2 DEF Mapped
    <2>2. "title" \in DOMAIN r.recommendations[i]
      BY <1>1, <1>2 DEF Range
    <2> HIDE DEF allRecs
    <2>3. sanitized(r.recommendations[i])["title"] = "fits"
      BY <2>2 DEF sanitized, Texts, Vocabularies
    <2> QED
      BY <2>1, <2>3
  <1> HIDE DEF allRecs
  <1>5. MAX_RECOMMENDATIONS \in Nat
    BY CeilingsAssumption
  <1>6. /\ isList(recs) /\ Len(recs) = least(Len(allRecs), MAX_RECOMMENDATIONS)
        /\ \A i \in 1..Len(recs) : recs[i] = allRecs[i]
        /\ overflow(allRecs, MAX_RECOMMENDATIONS) \in Nat
    BY <1>2, <1>5, CappedList
  <1>7. \A i \in 1..Len(recs) : i \in DOMAIN allRecs
    BY <1>3, <1>5, <1>6 DEF least
  <1> HIDE DEF recs
  <1>8. \A i \in 1..Len(recs) : recs[i].title = "fits"
    BY <1>4, <1>6, <1>7
  <1> QED
    BY <1>2, <1>3, <1>6, <1>8 DEF allRecs, recs

\* The records of the children, one child after the other, are counted, and a
\* submission has as many summaries and records as the budget kept.
LEMMA AnalysisCounted ==
  ASSUME NEW r, ResultShape(r), NEW rows, NEW recs
  PROVE  LET children == analysisChildren(r)
             summaries == Mapped(children, LAMBDA a : repairSummary(a.analysis.summary))
             records == FlattenSeq(Mapped(children,
                          LAMBDA a : Mapped(a.analysis.records, repairRecord)))
             someSummaries == capped(summaries, MAX_ANALYSIS_SUMMARIES)
             someRecords == guardRecordKeys(capped(records, MAX_ANALYSIS_RECORDS))
             kept == enforcePayloadBudget(rows, recs, someSummaries, someRecords)
         IN  /\ Len(summaries) = Len(children) /\ Len(children) \in Nat
             /\ Len(records) = recordCount(r) /\ recordCount(r) \in Nat
             /\ Len(SubSeq(someSummaries, 1, kept.summaries)) = kept.summaries
             /\ Len(SubSeq(someRecords, 1, kept.records)) = kept.records
             /\ kept.summaries \in 0..Len(children) /\ kept.records \in 0..recordCount(r)
  <1> DEFINE children == analysisChildren(r)
             summaries == Mapped(children, LAMBDA a : repairSummary(a.analysis.summary))
             t == Mapped(children, LAMBDA a : Mapped(a.analysis.records, repairRecord))
             records == FlattenSeq(t)
             someSummaries == capped(summaries, MAX_ANALYSIS_SUMMARIES)
             someRecords == guardRecordKeys(capped(records, MAX_ANALYSIS_RECORDS))
             kept == enforcePayloadBudget(rows, recs, someSummaries, someRecords)
             counts == Mapped(children, LAMBDA a : Len(a.analysis.records))
  <1>1. AgentsShape(children)
    BY AnalysisChildrenList
  <1>2. recordCount(r) = sumOf(counts)
    BY DEF recordCount
  <1> HIDE DEF children
  <1>3. isList(children) /\ Len(children) \in Nat /\ DOMAIN children = 1..Len(children)
    BY <1>1, ListBasics DEF AgentsShape
  <1>4. isList(summaries) /\ Len(summaries) = Len(children)
    BY <1>3, MappedList DEF Mapped
  <1>5. isList(t) /\ DOMAIN t = DOMAIN children
    BY <1>3, MappedList DEF Mapped
  <1>6. ASSUME NEW i \in DOMAIN t
        PROVE  isList(t[i]) /\ Len(t[i]) = Len(children[i].analysis.records)
    <2>1. t[i] = Mapped(children[i].analysis.records, repairRecord)
      BY <1>5 DEF Mapped
    <2>2. isList(children[i].analysis.records)
      BY <1>1, <1>5 DEF AgentsShape, AgentShape, Range
    <2> HIDE DEF t
    <2>3. t[i] = [k \in DOMAIN children[i].analysis.records |-> t[i][k]]
      BY <2>1 DEF Mapped
    <2> QED
      BY <2>2, <2>3, MappedList
  <1>7. counts = [i \in DOMAIN t |-> Len(t[i])]
    <2>1. counts = [i \in DOMAIN children |-> Len(children[i].analysis.records)]
      BY DEF Mapped
    <2> HIDE DEF counts, t
    <2> QED
      BY <1>5, <1>6, <2>1
  <1> HIDE DEF t, counts, summaries
  <1>8. /\ isList(records) /\ Len(records) = sumOf(counts)
        /\ [i \in DOMAIN t |-> Len(t[i])] \in Seq(Nat)
    BY <1>5, <1>6, <1>7, FlattenList
  <1>9. sumOf(counts) \in Nat
    BY <1>7, <1>8, SumType
  <1> HIDE DEF records
  <1>10. MAX_ANALYSIS_SUMMARIES \in Nat /\ MAX_ANALYSIS_RECORDS \in Nat
    BY CeilingsAssumption
  <1>11. isList(someSummaries) /\ Len(someSummaries) = least(Len(summaries), MAX_ANALYSIS_SUMMARIES)
    BY <1>4, <1>10, CappedList
  <1>12. isList(someRecords) /\ Len(someRecords) = least(Len(records), MAX_ANALYSIS_RECORDS)
    <2>1. /\ isList(capped(records, MAX_ANALYSIS_RECORDS))
          /\ Len(capped(records, MAX_ANALYSIS_RECORDS)) = least(Len(records), MAX_ANALYSIS_RECORDS)
      BY <1>8, <1>10, CappedList
    <2> QED
      BY <2>1, GuardKeepsAll
  <1> HIDE DEF someSummaries, someRecords
  <1>13. kept.summaries \in 0..Len(someSummaries) /\ kept.records \in 0..Len(someRecords)
    BY <1>11, <1>12, BudgetKeepsSome
  <1> HIDE DEF kept
  <1>14. /\ Len(SubSeq(someSummaries, 1, kept.summaries)) = kept.summaries
         /\ Len(SubSeq(someRecords, 1, kept.records)) = kept.records
    BY <1>11, <1>12, <1>13, SubList
  <1>15. kept.summaries \in 0..Len(children) /\ kept.records \in 0..recordCount(r)
    BY <1>2, <1>3, <1>4, <1>8, <1>9, <1>10, <1>11, <1>12, <1>13 DEF least
  <1>16. Len(records) = recordCount(r) /\ recordCount(r) \in Nat
    BY <1>2, <1>8, <1>9
  <1> QED
    BY <1>3, <1>4, <1>14, <1>15, <1>16
       DEF children, summaries, t, records, someSummaries, someRecords, kept

LEMMA LossInOne ==
  ASSUME NEW r, ResultShape(r), NEW tally1
  PROVE  LET made == transformToOpsInput(r, tally1)
         IN  MarkedLoss(r, made.input) /\ ToldLoss(r, made.input, made.truncated)
  <1> DEFINE made == transformToOpsInput(r, tally1)
             p == made.input
             told == made.truncated
             children == analysisChildren(r)
             summaries == Mapped(children, LAMBDA a : repairSummary(a.analysis.summary))
             records == FlattenSeq(Mapped(children,
                          LAMBDA a : Mapped(a.analysis.records, repairRecord)))
             allRecs == Mapped(r.recommendations, sanitized)
             recs == capped(allRecs, MAX_RECOMMENDATIONS)
             someSummaries == capped(summaries, MAX_ANALYSIS_SUMMARIES)
             someRecords == guardRecordKeys(capped(records, MAX_ANALYSIS_RECORDS))
             kept == enforcePayloadBudget(extractAgents(r), recs, someSummaries, someRecords)
  <1>1. /\ p.agents = extractAgents(r)
        /\ p.recommendations = marked(recs, told, Len(allRecs))
        /\ p.analysisSummary = SubSeq(someSummaries, 1, kept.summaries)
        /\ p.analysisRecords = SubSeq(someRecords, 1, kept.records)
        /\ told.agents = 0 + droppedAgents(r)
        /\ told.analysisRecords = 0 + Len(records) - kept.records
        /\ told.analysisSummaries = 0 + Len(summaries) - kept.summaries
    BY SubmissionParts
  <1>2. /\ Len(summaries) = Len(children) /\ Len(children) \in Nat
        /\ Len(records) = recordCount(r) /\ recordCount(r) \in Nat
        /\ Len(SubSeq(someSummaries, 1, kept.summaries)) = kept.summaries
        /\ Len(SubSeq(someRecords, 1, kept.records)) = kept.records
        /\ kept.summaries \in 0..Len(children) /\ kept.records \in 0..recordCount(r)
    BY AnalysisCounted
  <1>3. /\ Len(allRecs) = Len(r.recommendations) /\ Len(allRecs) \in Nat
        /\ isList(recs) /\ Len(recs) = least(Len(allRecs), MAX_RECOMMENDATIONS)
        /\ \A i \in 1..Len(recs) : recs[i].title = "fits"
    BY RecommendationsRepaired
  <1> HIDE DEF made, p, told, children, summaries, records, allRecs, recs, someSummaries,
               someRecords, kept
  <1>4. /\ isList(extractAgents(r)) /\ droppedAgents(r) \in Nat
        /\ rowCount(r) - Len(extractAgents(r)) = droppedAgents(r)
    BY RowsAreCounted
  <1> DEFINE lost == lostOf(r, p)
             isFull == Len(allRecs) = Len(recs) /\ told.agents = 0 /\ told.analysisRecords = 0
  <1>5. /\ DOMAIN lost = {"agents", "recommendations", "analysisRecords"}
        /\ lost.agents = rowCount(r) - Len(p.agents)
        /\ lost.recommendations = Len(r.recommendations) - Len(p.recommendations)
                                    + Cardinality(markersOf(p.recommendations))
        /\ lost.analysisRecords = recordCount(r) - Len(p.analysisRecords)
    BY DEF lostOf
  <1>6. lost.agents = told.agents /\ lost.analysisRecords = told.analysisRecords
    <2> HIDE DEF lost
    <2> QED
      BY <1>1, <1>2, <1>4, <1>5
  <1>7. told.analysisSummaries = Len(analysisChildren(r)) - Len(p.analysisSummary)
    BY <1>1, <1>2 DEF children
  <1>8. ToldLoss(r, p, told)
    BY <1>6, <1>7 DEF ToldLoss
  <1>9. /\ isFull => markersOf(p.recommendations) = {} /\ Len(p.recommendations) = Len(allRecs)
        /\ ~isFull =>
             /\ markersOf(p.recommendations) = {Len(p.recommendations)}
             /\ Len(p.recommendations) \in 1..MAX_RECOMMENDATIONS
             /\ Len(p.recommendations) - 1 <= Len(allRecs)
             /\ Len(allRecs) # Len(recs) => Len(p.recommendations) - 1 # Len(allRecs)
             /\ Last(p.recommendations) =
                  buildTruncationMarker(told, Len(allRecs) - (Len(p.recommendations) - 1))
    <2> HIDE DEF lost
    <2>1. PICK n \in Nat : n = Len(allRecs)
      BY <1>3
    <2>2. p.recommendations = marked(recs, told, n) /\ Len(recs) = least(n, MAX_RECOMMENDATIONS)
      BY <1>1, <1>3, <2>1
    <2>3. isList(recs) /\ \A i \in 1..Len(recs) : recs[i].title = "fits"
      BY <1>3
    <2> HIDE DEF isFull
    <2> QED
      BY <2>1, <2>2, <2>3, MarkerIsLast DEF isFull
  <1>10. MAX_RECOMMENDATIONS \in Nat
    BY CeilingsAssumption
  <1>11. MarkedLoss(r, p)
    <2> HIDE DEF lost
    <2>1. CASE isFull
      <3>1. lost.recommendations = 0
        <4>1. Cardinality(markersOf(p.recommendations)) = 0
          BY <1>9, <2>1, FS_EmptySet
        <4>2. Len(p.recommendations) = Len(r.recommendations) /\ Len(r.recommendations) \in Nat
          BY <1>3, <1>9, <2>1
        <4> QED
          BY <1>5, <4>1, <4>2
      <3>2. \A kind \in DOMAIN lost : lost[kind] = 0
        BY <1>5, <1>6, <2>1, <3>1
      <3> QED
        BY <1>9, <2>1, <3>2 DEF MarkedLoss, lost
    <2>2. CASE ~isFull
      <3> DEFINE n == Len(p.recommendations)
      <3>1. n \in Nat \ {0} /\ markersOf(p.recommendations) = {n}
        BY <1>9, <1>10, <2>2
      <3>2. Cardinality(markersOf(p.recommendations)) = 1
        BY <3>1, FS_Singleton
      <3>3. lost.recommendations = Len(allRecs) - (n - 1)
        BY <1>3, <1>5, <3>1, <3>2
      <3>4. \E kind \in DOMAIN lost : lost[kind] # 0
        <4>1. CASE Len(allRecs) # Len(recs)
          <5>1. n - 1 # Len(allRecs)
            BY <1>9, <2>2, <4>1
          <5> HIDE DEF n
          <5>2. lost.recommendations # 0
            BY <1>3, <3>1, <3>3, <5>1
          <5> QED
            BY <1>5, <5>2
        <4>2. CASE Len(allRecs) = Len(recs)
          BY <1>5, <1>6, <2>2, <4>2
        <4> QED
          BY <4>1, <4>2
      <3>5. /\ Last(p.recommendations).agents = told.agents
            /\ Last(p.recommendations).recommendations = Len(allRecs) - (n - 1)
            /\ Last(p.recommendations).analysisRecords = told.analysisRecords
        <4> DEFINE marker == buildTruncationMarker(told, Len(allRecs) - (n - 1))
        <4>1. /\ marker.agents = told.agents
              /\ marker.recommendations = Len(allRecs) - (n - 1)
              /\ marker.analysisRecords = told.analysisRecords
          BY DEF buildTruncationMarker
        <4>2. Last(p.recommendations) = marker
          BY <1>9, <2>2
        <4> HIDE DEF marker
        <4> QED
          BY <4>1, <4>2
      <3>6. \A kind \in DOMAIN lost : Last(p.recommendations)[kind] = lost[kind]
        <4> HIDE DEF n
        <4> QED
          BY <1>5, <1>6, <3>3, <3>5
      <3> QED
        BY <3>1, <3>4, <3>6 DEF MarkedLoss, lost
    <2> QED
      BY <2>1, <2>2
  <1> QED
    BY <1>8, <1>11 DEF made, p, told

-----------------------------------------------------------------------------
(***************************************************************************)
(* Record ids made unique: numerals differ, so suffixes do, so one of more *)
(* suffixes than there are keys in use is free.                            *)
(***************************************************************************)

Numeral(n, f) ==
    f = [k \in 0..n |-> IF k < 10 THEN <<Digits[k + 1]>>
                        ELSE Append(f[k \div 10], Digits[(k % 10) + 1])]

LEMMA DigitsDiffer ==
  /\ \A i, j \in 0..9 : Digits[i + 1] = Digits[j + 1] => i = j
  /\ \A i \in 0..9 : Digits[i + 1] # "~" /\ Digits[i + 1] # "X"
  BY DEF Digits

LEMMA TensAndOnes ==
  /\ \A n \in Nat : n >= 10 => n \div 10 \in Nat /\ n \div 10 < n
  /\ \A n \in Nat : n % 10 \in 0..9
  /\ \A n, m \in Nat : n % 10 = m % 10 /\ n \div 10 = m \div 10 => n = m
  OBVIOUS

\* What a numeral has at a place.
LEMMA NumeralAt ==
  ASSUME NEW n \in Nat, NEW f, Numeral(n, f), NEW k \in 0..n
  PROVE  f[k] = IF k < 10 THEN <<Digits[k + 1]>> ELSE Append(f[k \div 10], Digits[(k % 10) + 1])
  BY DEF Numeral

LEMMA NumeralExists ==
  ASSUME NEW n \in Nat
  PROVE  \E f : Numeral(n, f)
  <1> DEFINE S == {m \in Nat : \E f : Numeral(m, f)}
  <1>1. 0 \in S
    <2> DEFINE f == [k \in 0..0 |-> <<Digits[1]>>]
    <2>1. f = [k \in 0..0 |-> IF k < 10 THEN <<Digits[k + 1]>>
                        ELSE Append(f[k \div 10], Digits[(k % 10) + 1])]
      OBVIOUS
    <2> HIDE DEF f
    <2>2. Numeral(0, f)
      BY <2>1 DEF Numeral
    <2> QED
      BY <2>2
  <1>2. ASSUME NEW m \in S PROVE m + 1 \in S
    <2>1. m \in Nat
      OBVIOUS
    <2>2. PICK f : Numeral(m, f)
      OBVIOUS
    <2> DEFINE new == IF m + 1 < 10 THEN <<Digits[(m + 1) + 1]>>
                      ELSE Append(f[(m + 1) \div 10], Digits[((m + 1) % 10) + 1])
               g == [k \in 0..(m + 1) |-> IF k = m + 1 THEN new ELSE f[k]]
    <2>3. g[m + 1] = new /\ \A k \in 0..m : g[k] = f[k]
      BY <2>1
    <2>4. g = [k \in 0..(m + 1) |-> g[k]]
      OBVIOUS
    <2> HIDE DEF g
    <2>5. ASSUME NEW k \in 0..(m + 1)
          PROVE  g[k] = IF k < 10 THEN <<Digits[k + 1]>>
                        ELSE Append(g[k \div 10], Digits[(k % 10) + 1])
      <3>1. k \in Nat /\ (k >= 10 => k \div 10 \in 0..m)
        BY <2>1, TensAndOnes
      <3>2. k >= 10 => g[k \div 10] = f[k \div 10]
        BY <2>3, <3>1
      <3>3. ~(k < 10) => k >= 10
        BY <3>1
      <3>4. CASE k = m + 1
        BY <2>3, <3>2, <3>3, <3>4
      <3>5. CASE k # m + 1
        <4>1. k \in 0..m
          BY <2>1, <3>5
        <4>2. f[k] = IF k < 10 THEN <<Digits[k + 1]>>
                     ELSE Append(f[k \div 10], Digits[(k % 10) + 1])
          BY <2>1, <2>2, <4>1, NumeralAt
        <4> QED
          BY <2>3, <3>2, <3>3, <4>1, <4>2
      <3> QED
        BY <3>4, <3>5
    <2>6. Numeral(m + 1, g)
      BY <2>4, <2>5 DEF Numeral
    <2> QED
      BY <2>1, <2>6
  <1>3. S \in SUBSET Nat
    OBVIOUS
  <1>4. S = Nat
    <2> HIDE DEF S
    <2> QED
      BY <1>1, <1>2, <1>3, Induction
  <1> QED
    BY <1>4

\* A numeral does not depend on how far the function goes.
LEMMA NumeralIsLocal ==
  ASSUME NEW n \in Nat, NEW f, Numeral(n, f), NEW m \in Nat, NEW g, Numeral(m, g)
  PROVE  \A k \in Nat : k <= n /\ k <= m => f[k] = g[k]
  <1> DEFINE S == {b \in Nat : \A k \in 0..b : k <= n /\ k <= m => f[k] = g[k]}
  <1>1. ASSUME NEW k \in Nat, k <= n, k <= m,
               k >= 10 => f[k \div 10] = g[k \div 10]
        PROVE  f[k] = g[k]
    <2>1. k \in 0..n /\ k \in 0..m
      BY <1>1
    <2>2. ~(k < 10) => k >= 10
      OBVIOUS
    <2>3. f[k] = IF k < 10 THEN <<Digits[k + 1]>>
                 ELSE Append(f[k \div 10], Digits[(k % 10) + 1])
      BY <2>1, NumeralAt
    <2>4. g[k] = IF k < 10 THEN <<Digits[k + 1]>>
                 ELSE Append(g[k \div 10], Digits[(k % 10) + 1])
      BY <2>1, NumeralAt
    <2> QED
      BY <1>1, <2>2, <2>3, <2>4
  <1>2. 0 \in S
    <2>1. f[0] = g[0]
      BY <1>1
    <2> QED
      BY <2>1
  <1>3. ASSUME NEW b \in S PROVE b + 1 \in S
    <2>1. b \in Nat /\ \A k \in 0..b : k <= n /\ k <= m => f[k] = g[k]
      OBVIOUS
    <2>2. ASSUME NEW k \in 0..(b + 1), k <= n, k <= m PROVE f[k] = g[k]
      <3>1. k \in Nat /\ (k >= 10 => k \div 10 \in 0..b /\ k \div 10 <= n /\ k \div 10 <= m)
        BY <2>1, <2>2, TensAndOnes
      <3>2. k >= 10 => f[k \div 10] = g[k \div 10]
        BY <2>1, <3>1
      <3> QED
        BY <1>1, <2>2, <3>1, <3>2
    <2> QED
      BY <2>1, <2>2
  <1>4. S \in SUBSET Nat
    OBVIOUS
  <1>5. S = Nat
    <2> HIDE DEF S
    <2> QED
      BY <1>2, <1>3, <1>4, Induction
  <1> QED
    BY <1>5

LEMMA DecimalUnfolds ==
  ASSUME NEW n \in Nat
  PROVE  decimal(n) = IF n < 10 THEN <<Digits[n + 1]>>
                      ELSE Append(decimal(n \div 10), Digits[(n % 10) + 1])
  <1> DEFINE F(m) == CHOOSE f : Numeral(m, f)
  <1>1. \A m \in Nat : Numeral(m, F(m))
    BY NumeralExists
  <1>2. \A m : decimal(m) = F(m)[m]
    BY DEF decimal, Numeral
  <1> HIDE DEF F
  <1> DEFINE f == F(n)
  <1>0. Numeral(n, f) /\ n \in 0..n
    BY <1>1
  <1>5. f[n] = IF n < 10 THEN <<Digits[n + 1]>>
               ELSE Append(f[n \div 10], Digits[(n % 10) + 1])
    <2> HIDE DEF f
    <2> QED
      BY <1>0, NumeralAt
  <1>3. CASE n < 10
    <2>1. F(n)[n] = <<Digits[n + 1]>>
      BY <1>3, <1>5
    <2> QED
      BY <1>2, <1>3, <2>1
  <1>4. CASE ~(n < 10)
    <2> DEFINE t == n \div 10
    <2>1. t \in Nat /\ t <= n
      BY <1>4, TensAndOnes
    <2>2. F(n)[n] = Append(F(n)[t], Digits[(n % 10) + 1])
      BY <1>4, <1>5
    <2> HIDE DEF t
    <2>3. F(n)[t] = F(t)[t]
      BY <1>1, <2>1, NumeralIsLocal
    <2>4. decimal(n) = Append(decimal(t), Digits[(n % 10) + 1])
      BY <1>2, <2>2, <2>3
    <2> QED
      BY <1>4, <2>4 DEF t
  <1> QED
    BY <1>3, <1>4

DigitSet == {Digits[i + 1] : i \in 0..9}

\* A numeral consists of digits, of two or more from ten on.
IsNumeral(n) == /\ decimal(n) \in Seq(DigitSet) /\ Len(decimal(n)) \in Nat \ {0}
                /\ n >= 10 => Len(decimal(n)) # 1

\* What holds of a number if it holds of all below it, holds of every number.
LEMMA Descent ==
  ASSUME NEW T \in SUBSET Nat,
         \A n \in Nat : (\A m \in Nat : m < n => m \in T) => n \in T
  PROVE  T = Nat
  <1> DEFINE S == {b \in Nat : \A m \in Nat : m <= b => m \in T}
  <1>1. 0 \in S
    <2>1. \A m \in Nat : ~(m < 0)
      OBVIOUS
    <2>2. 0 \in T
      BY <2>1
    <2>3. \A m \in Nat : m <= 0 => m = 0
      OBVIOUS
    <2> QED
      BY <2>2, <2>3
  <1>2. ASSUME NEW b \in S PROVE b + 1 \in S
    <2>1. b \in Nat /\ \A m \in Nat : m <= b => m \in T
      OBVIOUS
    <2>2. \A m \in Nat : m < b + 1 => m \in T
      BY <2>1
    <2>3. b + 1 \in T
      BY <2>1, <2>2
    <2>4. \A m \in Nat : m <= b + 1 => m \in T
      BY <2>1, <2>2, <2>3
    <2> QED
      BY <2>1, <2>4
  <1>3. S \in SUBSET Nat
    OBVIOUS
  <1>4. S = Nat
    <2> HIDE DEF S
    <2> QED
      BY <1>1, <1>2, <1>3, Induction
  <1>5. ASSUME NEW m \in Nat PROVE m \in T
    <2>1. m \in S
      BY <1>4, Zenon
    <2> QED
      BY <2>1
  <1> QED
    BY <1>5

LEMMA OneDigit ==
  ASSUME NEW i \in 0..9
  PROVE  <<Digits[i + 1]>> \in Seq(DigitSet) /\ Len(<<Digits[i + 1]>>) = 1
  <1>1. Digits[i + 1] \in DigitSet
    BY DEF DigitSet
  <1> QED
    BY <1>1

LEMMA DecimalIsNumeral ==
  ASSUME NEW n \in Nat
  PROVE  IsNumeral(n)
  <1> DEFINE T == {m \in Nat : IsNumeral(m)}
  <1>1. ASSUME NEW m \in Nat, \A k \in Nat : k < m => k \in T
        PROVE  m \in T
    <2>1. CASE m < 10
      <3>1. m \in 0..9 /\ ~(m >= 10)
        BY <2>1
      <3>2. decimal(m) = <<Digits[m + 1]>>
        BY <2>1, DecimalUnfolds
      <3>3. IsNumeral(m)
        BY <3>1, <3>2, OneDigit DEF IsNumeral
      <3> QED
        BY <3>3
    <2>2. CASE ~(m < 10)
      <3> DEFINE t == m \div 10
                 d == Digits[(m % 10) + 1]
      <3>1. t \in Nat /\ t < m /\ m % 10 \in 0..9
        BY <2>2, TensAndOnes
      <3>2. decimal(m) = Append(decimal(t), d)
        BY <2>2, DecimalUnfolds
      <3>3. d \in DigitSet
        BY <3>1 DEF DigitSet
      <3> HIDE DEF t, d
      <3>4. IsNumeral(t)
        BY <1>1, <3>1
      <3>5. decimal(t) \in Seq(DigitSet) /\ Len(decimal(t)) \in Nat \ {0}
        BY <3>4 DEF IsNumeral
      <3>6. /\ Append(decimal(t), d) \in Seq(DigitSet)
            /\ Len(Append(decimal(t), d)) = Len(decimal(t)) + 1
        BY <3>3, <3>5, AppendProperties
      <3>7. Len(decimal(m)) = Len(decimal(t)) + 1
        BY <3>2, <3>6
      <3>8. decimal(m) \in Seq(DigitSet)
        BY <3>2, <3>6
      <3>9. Len(decimal(m)) \in Nat \ {0} /\ Len(decimal(m)) # 1
        BY <3>5, <3>7
      <3>10. IsNumeral(m)
        BY <3>8, <3>9 DEF IsNumeral
      <3> QED
        BY <3>10
    <2> QED
      BY <2>1, <2>2
  <1>2. T \in SUBSET Nat
    OBVIOUS
  <1>3. T = Nat
    <2> HIDE DEF T
    <2> QED
      BY <1>1, <1>2, Descent
  <1> QED
    BY <1>3

LEMMA AppendsDiffer ==
  ASSUME NEW S, NEW s \in Seq(S), NEW t \in Seq(S), NEW x \in S, NEW y \in S,
         Append(s, x) = Append(t, y)
  PROVE  s = t /\ x = y
  <1>1. /\ Len(Append(s, x)) = Len(s) + 1 /\ Append(s, x)[Len(s) + 1] = x
        /\ \A i \in 1..Len(s) : Append(s, x)[i] = s[i]
    BY AppendProperties
  <1>2. /\ Len(Append(t, y)) = Len(t) + 1 /\ Append(t, y)[Len(t) + 1] = y
        /\ \A i \in 1..Len(t) : Append(t, y)[i] = t[i]
    BY AppendProperties
  <1>3. Len(s) \in Nat /\ Len(t) \in Nat
    BY LenProperties
  <1>4. Len(s) = Len(t)
    BY <1>1, <1>2, <1>3
  <1>5. \A i \in 1..Len(s) : s[i] = t[i]
    BY <1>1, <1>2, <1>4
  <1>6. s = t
    BY <1>4, <1>5, SeqEqual
  <1> QED
    BY <1>1, <1>2, <1>4, <1>6

LEMMA DecimalsDiffer ==
  ASSUME NEW n \in Nat
  PROVE  \A m \in Nat : decimal(n) = decimal(m) => n = m
  <1> DEFINE T == {k \in Nat : \A m \in Nat : decimal(k) = decimal(m) => k = m}
  <1>1. ASSUME NEW k \in Nat, \A b \in Nat : b < k => b \in T
        PROVE  k \in T
    <2> SUFFICES ASSUME NEW m \in Nat, decimal(k) = decimal(m) PROVE k = m
      OBVIOUS
    <2>1. CASE k < 10
      <3>1. k \in 0..9 /\ decimal(k) = <<Digits[k + 1]>>
        BY <2>1, DecimalUnfolds
      <3>2. Len(decimal(m)) = 1
        BY <3>1, OneDigit
      <3>3. ~(m >= 10)
        BY <3>2, DecimalIsNumeral DEF IsNumeral
      <3>4. m < 10 /\ m \in 0..9
        BY <3>3
      <3>5. decimal(m) = <<Digits[m + 1]>>
        BY <3>4, DecimalUnfolds
      <3>6. Digits[k + 1] = Digits[m + 1]
        <4>1. <<Digits[k + 1]>> = <<Digits[m + 1]>>
          BY <3>1, <3>5, Zenon
        <4> QED
          BY <4>1
      <3> QED
        BY <3>1, <3>4, <3>6, DigitsDiffer
    <2>2. CASE ~(k < 10)
      <3>1. Len(decimal(k)) # 1
        BY <2>2, DecimalIsNumeral DEF IsNumeral
      <3>2. ~(m < 10)
        <4> SUFFICES ASSUME m < 10 PROVE FALSE
          OBVIOUS
        <4>1. m \in 0..9 /\ decimal(m) = <<Digits[m + 1]>>
          BY DecimalUnfolds
        <4> QED
          BY <3>1, <4>1, OneDigit
      <3> DEFINE t == k \div 10
                 u == m \div 10
                 d == Digits[(k % 10) + 1]
                 e == Digits[(m % 10) + 1]
      <3>3. t \in Nat /\ t < k /\ u \in Nat /\ k % 10 \in 0..9 /\ m % 10 \in 0..9
        BY <2>2, <3>2, TensAndOnes
      <3>4. decimal(k) = Append(decimal(t), d) /\ decimal(m) = Append(decimal(u), e)
        BY <2>2, <3>2, DecimalUnfolds
      <3>5. d \in DigitSet /\ e \in DigitSet
        BY <3>3 DEF DigitSet
      <3>6. d = e => k % 10 = m % 10
        BY <3>3, DigitsDiffer
      <3>7. t = u /\ k % 10 = m % 10 => k = m
        BY TensAndOnes
      <3> HIDE DEF t, u, d, e
      <3>8. decimal(t) \in Seq(DigitSet) /\ decimal(u) \in Seq(DigitSet)
        BY <3>3, DecimalIsNumeral DEF IsNumeral
      <3>9. decimal(t) = decimal(u) /\ d = e
        <4>1. Append(decimal(t), d) = Append(decimal(u), e)
          BY <3>4, Zenon
        <4> QED
          BY <3>5, <3>8, <4>1, AppendsDiffer
      <3>10. t = u
        BY <1>1, <3>3, <3>9
      <3> QED
        BY <3>6, <3>7, <3>9, <3>10
    <2> QED
      BY <2>1, <2>2
  <1>2. T \in SUBSET Nat
    OBVIOUS
  <1>3. T = Nat
    <2> HIDE DEF T
    <2> QED
      BY <1>1, <1>2, Descent
  <1> QED
    BY <1>3

LEMMA SuffixParts ==
  ASSUME NEW n \in Nat
  PROVE  /\ isList(suffix(n)) /\ Len(suffix(n)) = Len(decimal(n)) + 1
         /\ Len(decimal(n)) \in Nat \ {0}
         /\ suffix(n)[1] = "~"
         /\ \A i \in 1..Len(decimal(n)) :
               suffix(n)[i + 1] = decimal(n)[i] /\ decimal(n)[i] \in DigitSet
  <1> DEFINE E == {"~"} \union DigitSet
             d == decimal(n)
             t == <<"~">>
  <1>1. d \in Seq(DigitSet) /\ Len(d) \in Nat \ {0}
    BY DecimalIsNumeral DEF IsNumeral
  <1> HIDE DEF d
  <1>2. \A i \in 1..Len(d) : d[i] \in DigitSet
    BY <1>1, ElementOfSeq
  <1>3. t \in Seq(E) /\ Len(t) = 1 /\ t[1] = "~"
    OBVIOUS
  <1>4. d \in Seq(E)
    <2>1. d \in [1..Len(d) -> E]
      BY <1>1
    <2> HIDE DEF E
    <2> QED
      BY <1>1, <2>1, ListOf
  <1> HIDE DEF E, t
  <1>5. /\ t \o d \in Seq(E) /\ Len(t \o d) = Len(t) + Len(d)
        /\ \A i \in 1 .. Len(t) + Len(d) : (t \o d)[i] = IF i <= Len(t) THEN t[i] ELSE d[i - Len(t)]
    BY <1>3, <1>4, ConcatProperties
  <1>6. suffix(n) = t \o d
    BY DEF suffix, t, d
  <1>7. isList(suffix(n)) /\ Len(suffix(n)) = Len(d) + 1
    <2>1. isList(t \o d)
      BY <1>5, SeqIsList
    <2>2. Len(t \o d) = Len(d) + 1
      BY <1>1, <1>3, <1>5
    <2> QED
      BY <1>6, <2>1, <2>2
  <1>8. suffix(n)[1] = "~"
    BY <1>1, <1>3, <1>5, <1>6
  <1>9. ASSUME NEW i \in 1..Len(d) PROVE suffix(n)[i + 1] = d[i]
    <2>1. i + 1 \in 1 .. 1 + Len(d) /\ ~(i + 1 <= 1) /\ (i + 1) - 1 = i
      BY <1>1
    <2> QED
      BY <1>3, <1>5, <1>6, <2>1
  <1> QED
    BY <1>1, <1>2, <1>7, <1>8, <1>9 DEF d

LEMMA FoldIsList ==
  ASSUME NEW s, isList(s)
  PROVE  /\ isList(fold(s)) /\ Len(fold(s)) = Len(s)
         /\ \A i \in 1..Len(s) : fold(s)[i] = IF s[i] = "X" THEN "x" ELSE s[i]
  <1> DEFINE f == fold(s)
  <1>1. f = [i \in DOMAIN s |-> IF s[i] = "X" THEN "x" ELSE s[i]]
    BY DEF fold, Mapped
  <1> HIDE DEF f
  <1>2. isList(f) /\ Len(f) = Len(s) /\ DOMAIN s = 1..Len(s)
    BY <1>1, MappedList, ListBasics
  <1> QED
    BY <1>1, <1>2 DEF f

SuffixFits(n) == Len(suffix(n)) <= RECORD_ID_MAX_LENGTH

\* What an id with a suffix ends in.
LEMMA SuffixedEnds ==
  ASSUME NEW id, isList(id), NEW n \in Nat, SuffixFits(n)
  PROVE  LET s == suffixed(id, n)
             k == Len(decimal(n))
         IN  /\ isList(s) /\ Len(s) \in Nat /\ Len(s) <= RECORD_ID_MAX_LENGTH
             /\ k \in Nat \ {0} /\ k < Len(s)
             /\ fold(s)[Len(s) - k] = "~"
             /\ \A i \in 1..k : fold(s)[Len(s) - k + i] = decimal(n)[i]
                                /\ decimal(n)[i] \in DigitSet
  <1> DEFINE x == suffix(n)
             d == decimal(n)
             k == Len(d)
             b == least(Len(id), RECORD_ID_MAX_LENGTH - Len(x))
             base == SubSeq(id, 1, b)
             s == suffixed(id, n)
             E == Range(base) \union Range(x)
  <1>1. /\ isList(x) /\ Len(x) = k + 1 /\ k \in Nat \ {0} /\ x[1] = "~"
        /\ \A i \in 1..k : x[i + 1] = d[i] /\ d[i] \in DigitSet
    BY SuffixParts
  <1>2. Len(x) <= RECORD_ID_MAX_LENGTH /\ RECORD_ID_MAX_LENGTH \in Nat
    BY CeilingsAssumption DEF SuffixFits
  <1>3. s = base \o x
    BY DEF suffixed
  <1> HIDE DEF x, s, d, k
  <1>4. Len(id) \in Nat
    BY ListBasics
  <1>5. b \in 0..Len(id) /\ b + Len(x) <= RECORD_ID_MAX_LENGTH
    <2> DEFINE room == RECORD_ID_MAX_LENGTH - Len(x)
    <2>1. room \in Nat /\ room + Len(x) = RECORD_ID_MAX_LENGTH /\ Len(x) \in Nat
      BY <1>1, <1>2
    <2>2. b = IF Len(id) < room THEN Len(id) ELSE room
      BY DEF least
    <2> HIDE DEF room, b
    <2> QED
      BY <1>2, <1>4, <2>1, <2>2
  <1> HIDE DEF b
  <1>6. isList(base) /\ Len(base) = b
    BY <1>5, SubList
  <1> HIDE DEF base
  <1>7. base \in Seq(E) /\ x \in Seq(E)
    <2>1. /\ base = [i \in 1..Len(base) |-> base[i]] /\ Len(base) \in Nat
          /\ \A i \in 1..Len(base) : base[i] \in Range(base)
          /\ x = [i \in 1..Len(x) |-> x[i]] /\ Len(x) \in Nat
          /\ \A i \in 1..Len(x) : x[i] \in Range(x)
      BY <1>1, <1>6, ListBasics
    <2>2. base \in [1..Len(base) -> E] /\ x \in [1..Len(x) -> E]
      BY <2>1
    <2> HIDE DEF E
    <2> QED
      BY <2>1, <2>2, ListOf
  <1> HIDE DEF E
  <1>8. /\ s \in Seq(E) /\ Len(s) = b + Len(x)
        /\ \A i \in 1 .. b + Len(x) : s[i] = IF i <= b THEN base[i] ELSE x[i - b]
    BY <1>3, <1>6, <1>7, ConcatProperties
  <1>9. isList(s)
    BY <1>8, SeqIsList
  <1>10. /\ Len(s) \in Nat /\ Len(s) <= RECORD_ID_MAX_LENGTH /\ k < Len(s) /\ Len(s) - k = b + 1
    BY <1>1, <1>5, <1>8
  <1>11. \A i \in 1..Len(s) : fold(s)[i] = IF s[i] = "X" THEN "x" ELSE s[i]
    BY <1>9, FoldIsList
  <1>12. fold(s)[Len(s) - k] = "~"
    <2>1. b + 1 \in 1..Len(s) /\ ~(b + 1 <= b) /\ (b + 1) - b = 1
      BY <1>1, <1>5, <1>8
    <2>2. s[b + 1] = "~"
      BY <1>1, <1>8, <2>1
    <2> QED
      BY <1>10, <1>11, <2>1, <2>2
  <1>13. ASSUME NEW i \in 1..k
         PROVE  fold(s)[Len(s) - k + i] = d[i] /\ d[i] \in DigitSet
    <2>1. /\ Len(s) - k + i = b + 1 + i /\ b + 1 + i \in 1..Len(s)
          /\ ~(b + 1 + i <= b) /\ (b + 1 + i) - b = i + 1
      BY <1>1, <1>5, <1>8
    <2>2. s[b + 1 + i] = d[i]
      BY <1>1, <1>8, <2>1
    <2>3. d[i] \in DigitSet /\ d[i] # "X"
      BY <1>1, DigitsDiffer DEF DigitSet
    <2> QED
      BY <1>11, <2>1, <2>2, <2>3
  <1> QED
    BY <1>1, <1>9, <1>10, <1>12, <1>13 DEF s, k, d

\* Ids that read the same under the fold have the same suffix.
LEMMA SuffixesDiffer ==
  ASSUME NEW id, isList(id), NEW n \in Nat, NEW m \in Nat, SuffixFits(n), SuffixFits(m),
         fold(suffixed(id, n)) = fold(suffixed(id, m))
  PROVE  n = m
  <1> DEFINE s == suffixed(id, n)
             t == suffixed(id, m)
             d == decimal(n)
             e == decimal(m)
  <1>1. /\ isList(s) /\ Len(s) \in Nat /\ Len(d) \in Nat \ {0} /\ Len(d) < Len(s)
        /\ fold(s)[Len(s) - Len(d)] = "~"
        /\ \A i \in 1..Len(d) : fold(s)[Len(s) - Len(d) + i] = d[i] /\ d[i] \in DigitSet
    BY SuffixedEnds
  <1>2. /\ isList(t) /\ Len(t) \in Nat /\ Len(e) \in Nat \ {0} /\ Len(e) < Len(t)
        /\ fold(t)[Len(t) - Len(e)] = "~"
        /\ \A i \in 1..Len(e) : fold(t)[Len(t) - Len(e) + i] = e[i] /\ e[i] \in DigitSet
    BY SuffixedEnds
  <1>3. d \in Seq(DigitSet) /\ e \in Seq(DigitSet)
    BY DecimalIsNumeral DEF IsNumeral
  <1>4. d = e => n = m
    BY DecimalsDiffer
  <1>5. fold(s) = fold(t)
    OBVIOUS
  <1> HIDE DEF s, t, d, e
  <1>6. Len(s) = Len(t)
    BY <1>1, <1>2, <1>5, FoldIsList
  <1>7. \A c \in DigitSet : c # "~"
    BY DigitsDiffer DEF DigitSet
  <1> DEFINE L == Len(s)
             f == fold(s)
             p == Len(d)
             q == Len(e)
  <1>8. /\ L \in Nat /\ p \in Nat \ {0} /\ q \in Nat \ {0} /\ p < L /\ q < L
        /\ f[L - p] = "~" /\ f[L - q] = "~"
        /\ \A i \in 1..p : f[L - p + i] = d[i] /\ f[L - p + i] # "~"
        /\ \A i \in 1..q : f[L - q + i] = e[i] /\ f[L - q + i] # "~"
    BY <1>1, <1>2, <1>5, <1>6, <1>7
  <1> HIDE DEF L, f
  <1>9. p = q
    <2> HIDE DEF p, q
    <2>1. CASE q < p
      <3>1. p - q \in 1..p /\ L - p + (p - q) = L - q
        BY <1>8, <2>1
      <3> QED
        BY <1>8, <3>1
    <2>2. CASE p < q
      <3>1. q - p \in 1..q /\ L - q + (q - p) = L - p
        BY <1>8, <2>2
      <3> QED
        BY <1>8, <3>1
    <2> QED
      BY <1>8, <2>1, <2>2
  <1>10. \A i \in 1..p : d[i] = e[i]
    BY <1>8, <1>9
  <1>11. d = e
    BY <1>3, <1>9, <1>10, SeqEqual
  <1> QED
    BY <1>4, <1>11

\* One of more suffixes than there are keys in use is free, and fits.
LEMMA SuffixIsFree ==
  ASSUME NEW record, isList(record.recordId), NEW used, IsFiniteSet(used),
         Cardinality(used) <= 2 * MAX_ANALYSIS_RECORDS
  PROVE  LET n == freeSuffix(record, used)
         IN  /\ n \in Nat /\ SuffixFits(n)
             /\ key(record.agentName, suffixed(record.recordId, n)) \notin used
  <1> DEFINE u == Cardinality(used)
             N == 2 .. u + 2
             k(n) == key(record.agentName, suffixed(record.recordId, n))
             S == {n \in N : k(n) \notin used}
             f == [n \in N |-> k(n)]
  <1>1. u \in Nat /\ MAX_ANALYSIS_RECORDS \in Nat
    BY FS_CardinalityType, CeilingsAssumption
  <1>2. \A n \in N : n \in Nat /\ SuffixFits(n)
    <2> TAKE n \in N
    <2>1. n \in Nat /\ n \in 2 .. 2 * MAX_ANALYSIS_RECORDS + 2
      BY <1>1
    <2> QED
      BY <2>1, SuffixAssumption DEF SuffixFits
  <1>3. IsFiniteSet(N) /\ Cardinality(N) = u + 1
    <2>1. 2 \in Int /\ u + 2 \in Int /\ ~(2 > u + 2) /\ (u + 2) - 2 + 1 = u + 1
      BY <1>1
    <2> HIDE DEF u
    <2> QED
      BY <2>1, FS_Interval
  <1>4. freeSuffix(record, used) = Min(S)
    BY DEF freeSuffix
  <1>5. \A n, m \in N : k(n) = k(m) => n = m
    <2> TAKE n, m \in N
    <2> HAVE k(n) = k(m)
    <2>1. fold(suffixed(record.recordId, n)) = fold(suffixed(record.recordId, m))
      BY DEF key
    <2> HIDE DEF N, k
    <2> QED
      BY <1>2, <2>1, SuffixesDiffer
  <1> HIDE DEF k, N, u
  <1>6. S # {}
    <2> SUFFICES ASSUME S = {} PROVE FALSE
      OBVIOUS
    <2>1. f \in [N -> used]
      OBVIOUS
    <2>2. Cardinality(used) < Cardinality(N)
      BY <1>1, <1>3 DEF u
    <2>3. \A x, y \in N : x # y => f[x] # f[y]
      BY <1>5
    <2> HIDE DEF f
    <2> QED
      BY <1>3, <2>1, <2>2, <2>3, FS_PigeonHole
  <1>7. S \in SUBSET Nat
    BY <1>2
  <1>8. Min(S) \in S
    <2>1. PICK m \in S : \A n \in S : m <= n
      BY <1>6, <1>7, LeastNat
    <2> HIDE DEF S
    <2> QED
      BY <2>1 DEF Min
  <1>9. Min(S) \in Nat /\ SuffixFits(Min(S)) /\ k(Min(S)) \notin used
    <2> DEFINE n == Min(S)
    <2> HIDE DEF n
    <2>1. n \in N /\ k(n) \notin used
      BY <1>8 DEF n
    <2> QED
      BY <1>2, <2>1 DEF n
  <1> QED
    BY <1>4, <1>9 DEF k

\* A record under a name of its own: what it holds is kept.
LEMMA RenamedIsNew ==
  ASSUME NEW record, RecordShape(record), NEW used, IsFiniteSet(used),
         Cardinality(used) <= 2 * MAX_ANALYSIS_RECORDS
  PROVE  LET r == renamed(record, used)
         IN  RecordShape(r) /\ r.data = record.data /\ keyOf(r) \notin used
  <1> DEFINE n == freeSuffix(record, used)
             id == suffixed(record.recordId, n)
             r == renamed(record, used)
  <1>1. /\ {"agentName", "recordId", "data"} \subseteq DOMAIN record
        /\ isList(record.recordId)
    BY DEF RecordShape
  <1>2. n \in Nat /\ SuffixFits(n) /\ key(record.agentName, id) \notin used
    BY <1>1, SuffixIsFree
  <1>3. r = [record EXCEPT !.recordId = id]
    BY DEF renamed
  <1> HIDE DEF r, n
  <1>4. isList(id) /\ Len(id) <= RECORD_ID_MAX_LENGTH
    BY <1>1, <1>2, SuffixedEnds
  <1> HIDE DEF id
  <1>5. /\ DOMAIN r = DOMAIN record /\ r.recordId = id
        /\ r.data = record.data /\ r.agentName = record.agentName
    BY <1>1, <1>3
  <1> QED
    BY <1>1, <1>2, <1>4, <1>5 DEF RecordShape, keyOf, r

LEMMA KeysAreFinite ==
  ASSUME NEW records, isList(records)
  PROVE  IsFiniteSet(reservedKeys(records)) /\ Cardinality(reservedKeys(records)) <= Len(records)
  <1> DEFINE n == Len(records)
             f == [i \in 1..n |-> keyOf(records[i])]
             K == reservedKeys(records)
  <1>1. n \in Nat /\ DOMAIN records = 1..n
    BY ListBasics
  <1>2. K = {keyOf(records[i]) : i \in 1..n}
    BY <1>1 DEF reservedKeys
  <1>3. f \in Surjection(1..n, K)
    <2> HIDE DEF K
    <2>1. f \in [1..n -> K] /\ \A x \in K : \E i \in 1..n : f[i] = x
      BY <1>2
    <2> QED
      BY <2>1 DEF Surjection
  <1>4. IsFiniteSet(1..n) /\ Cardinality(1..n) = n
    <2>1. 1 \in Int /\ n \in Int /\ (1 > n => n = 0) /\ n - 1 + 1 = n
      BY <1>1
    <2> HIDE DEF n
    <2> QED
      BY <2>1, FS_Interval
  <1> HIDE DEF f, K, n
  <1>5. IsFiniteSet(K) /\ Cardinality(K) <= n
    BY <1>3, <1>4, FS_Surjection
  <1> QED
    BY <1>5 DEF K, n

\* What guards the first n records: they are as they were but for their names,
\* the first of each name keeps it, and no two have one.
GuardedSoFar(records, n, used, out) ==
    /\ isList(out) /\ Len(out) = n
    /\ IsFiniteSet(used) /\ Cardinality(used) <= Len(records) + n
    /\ reservedKeys(records) \subseteq used
    /\ \A i \in 1..n :
          /\ RecordShape(out[i]) /\ out[i].data = records[i].data /\ keyOf(out[i]) \in used
          /\ IF isFirst(records, i) THEN out[i] = records[i]
             ELSE keyOf(out[i]) \notin reservedKeys(records)
    /\ \A i, j \in 1..n : keyOf(out[i]) = keyOf(out[j]) => i = j

LEMMA GuardOne ==
  ASSUME NEW records, isList(records), Len(records) <= MAX_ANALYSIS_RECORDS,
         \A i \in 1..Len(records) : RecordShape(records[i]),
         NEW n \in Nat, n + 1 <= Len(records), NEW used, NEW out,
         GuardedSoFar(records, n, used, out),
         NEW r, r = guardRecord(records, n + 1, used)
  PROVE  GuardedSoFar(records, n + 1, used \union {keyOf(r)}, Append(out, r))
  <1> DEFINE R == reservedKeys(records)
             used1 == used \union {keyOf(r)}
             out1 == Append(out, r)
             L == Len(records)
  <1>1. L \in Nat /\ DOMAIN records = 1..L /\ MAX_ANALYSIS_RECORDS \in Nat
    BY ListBasics, CeilingsAssumption
  <1>2. /\ isList(out) /\ Len(out) = n
        /\ IsFiniteSet(used) /\ Cardinality(used) <= L + n
        /\ R \subseteq used
        /\ \A i \in 1..n :
              /\ RecordShape(out[i]) /\ out[i].data = records[i].data /\ keyOf(out[i]) \in used
              /\ IF isFirst(records, i) THEN out[i] = records[i] ELSE keyOf(out[i]) \notin R
        /\ \A i, j \in 1..n : keyOf(out[i]) = keyOf(out[j]) => i = j
    BY DEF GuardedSoFar
  <1>3. n + 1 \in 1..L /\ RecordShape(records[n + 1])
    BY <1>1
  <1>4. \A i \in 1..L : keyOf(records[i]) \in R
    BY <1>1 DEF reservedKeys
  <1>5. Cardinality(used) \in Nat /\ Cardinality(used) <= 2 * MAX_ANALYSIS_RECORDS
    <2>1. Cardinality(used) \in Nat
      BY <1>2, FS_CardinalityType
    <2> HIDE DEF L
    <2> QED
      BY <1>1, <1>2, <1>3, <2>1 DEF L
  <1> HIDE DEF L, R
  <1>6. /\ RecordShape(r) /\ r.data = records[n + 1].data
        /\ isFirst(records, n + 1) => r = records[n + 1]
        /\ ~isFirst(records, n + 1) => keyOf(r) \notin used
    <2>1. CASE isFirst(records, n + 1)
      BY <1>3, <2>1 DEF guardRecord
    <2>2. CASE ~isFirst(records, n + 1)
      <3>1. r = renamed(records[n + 1], used)
        BY <2>2 DEF guardRecord
      <3> QED
        BY <1>2, <1>3, <1>5, <2>2, <3>1, RenamedIsNew
    <2> QED
      BY <2>1, <2>2
  <1>7. /\ isList(out1) /\ Len(out1) = n + 1
        /\ \A i \in 1..n : out1[i] = out[i]
        /\ out1[n + 1] = r
    BY <1>2, AppendList
  <1>8. IsFiniteSet(used1) /\ Cardinality(used1) <= L + (n + 1)
    <2>1. IsFiniteSet(used1) /\ Cardinality(used1) <= Cardinality(used) + 1
      <3> DEFINE x == keyOf(r)
      <3> HIDE DEF x
      <3>1. /\ IsFiniteSet(used \union {x})
            /\ Cardinality(used \union {x})
                  = IF x \in used THEN Cardinality(used) ELSE Cardinality(used) + 1
        BY <1>2, FS_AddElement
      <3>2. used1 = used \union {x}
        BY DEF x
      <3> HIDE DEF used1
      <3> QED
        BY <1>5, <3>1, <3>2
    <2>2. Cardinality(used1) \in Nat
      BY <2>1, FS_CardinalityType
    <2> HIDE DEF used1
    <2> QED
      BY <1>1, <1>2, <1>5, <2>1, <2>2
  <1> HIDE DEF used1, out1
  <1>9. used \subseteq used1 /\ keyOf(r) \in used1 /\ R \subseteq used1
    BY <1>2 DEF used1
  <1>10. ASSUME NEW i \in 1 .. n + 1
         PROVE  /\ RecordShape(out1[i]) /\ out1[i].data = records[i].data /\ keyOf(out1[i]) \in used1
                /\ IF isFirst(records, i) THEN out1[i] = records[i] ELSE keyOf(out1[i]) \notin R
    <2>1. CASE i = n + 1
      BY <1>2, <1>6, <1>7, <1>9, <2>1
    <2>2. CASE i # n + 1
      <3>1. i \in 1..n
        BY <2>2
      <3> QED
        BY <1>2, <1>7, <1>9, <3>1
    <2> QED
      BY <2>1, <2>2
  \* The new one has no key that one before it has.
  <1>11. ASSUME NEW i \in 1..n PROVE keyOf(out[i]) # keyOf(r)
    <2>1. CASE ~isFirst(records, n + 1)
      BY <1>2, <1>6, <2>1
    <2>2. CASE isFirst(records, n + 1) /\ ~isFirst(records, i)
      BY <1>2, <1>3, <1>4, <1>6, <2>2
    <2>3. CASE isFirst(records, n + 1) /\ isFirst(records, i)
      <3>1. keyOf(records[i]) # keyOf(records[n + 1])
        <4>1. i \in 1 .. ((n + 1) - 1)
          OBVIOUS
        <4> QED
          BY <2>3, <4>1 DEF isFirst
      <3> QED
        BY <1>2, <1>6, <2>3, <3>1
    <2> QED
      BY <2>1, <2>2, <2>3
  <1>12. ASSUME NEW i \in 1 .. n + 1, NEW j \in 1 .. n + 1, keyOf(out1[i]) = keyOf(out1[j])
         PROVE  i = j
    <2>1. CASE i = n + 1 /\ j # n + 1
      <3>1. j \in 1..n
        BY <2>1
      <3> QED
        BY <1>7, <1>11, <1>12, <2>1, <3>1
    <2>2. CASE i # n + 1 /\ j = n + 1
      <3>1. i \in 1..n
        BY <2>2
      <3> QED
        BY <1>7, <1>11, <1>12, <2>2, <3>1
    <2>3. CASE i # n + 1 /\ j # n + 1
      <3>1. i \in 1..n /\ j \in 1..n
        BY <2>3
      <3> QED
        BY <1>2, <1>7, <1>12, <3>1
    <2>4. CASE i = n + 1 /\ j = n + 1
      BY <2>4
    <2> QED
      BY <2>1, <2>2, <2>3, <2>4
  <1> QED
    BY <1>7, <1>8, <1>9, <1>10, <1>12 DEF GuardedSoFar, used1, out1, L, R

\* Guarded, no two records have one key, every id fits, and the data is kept.
LEMMA GuardedAreDistinct ==
  ASSUME NEW records, isList(records), Len(records) <= MAX_ANALYSIS_RECORDS,
         \A i \in 1..Len(records) : RecordShape(records[i])
  PROVE  LET out == guardRecordKeys(records)
         IN  /\ \A i \in 1..Len(records) : RecordShape(out[i]) /\ out[i].data = records[i].data
             /\ \A i, j \in 1..Len(records) : keyOf(out[i]) = keyOf(out[j]) => i = j
  <1>1. PICK f : /\ f[0] = [used |-> reservedKeys(records), out |-> <<>>]
                 /\ \A n \in 1..Len(records) :
                      LET record == guardRecord(records, n, f[n - 1].used)
                      IN  f[n] = [used |-> f[n - 1].used \union {keyOf(record)},
                                  out |-> Append(f[n - 1].out, record)]
                 /\ guardRecordKeys(records) = f[Len(records)].out
    BY GuardUnfolds
  <1>2. Len(records) \in Nat
    BY ListBasics
  <1> DEFINE T == {n \in Nat : n <= Len(records) =>
                                 GuardedSoFar(records, n, f[n].used, f[n].out)}
  <1>3. T = Nat
    <2>1. 0 \in T
      <3>1. f[0].used = reservedKeys(records) /\ f[0].out = <<>>
        BY <1>1
      <3>2. GuardedSoFar(records, 0, reservedKeys(records), <<>>)
        <4>1. Len(records) + 0 = Len(records)
          BY <1>2
        <4> QED
          BY <4>1, KeysAreFinite, ListBasics DEF GuardedSoFar
      <3> QED
        BY <3>1, <3>2
    <2>2. ASSUME NEW n \in T PROVE n + 1 \in T
      <3>1. n \in Nat
        OBVIOUS
      <3> SUFFICES ASSUME n + 1 <= Len(records)
                   PROVE  GuardedSoFar(records, n + 1, f[n + 1].used, f[n + 1].out)
        BY <3>1
      <3>2. n + 1 \in 1..Len(records) /\ (n + 1) - 1 = n
        BY <1>2, <3>1
      <3> DEFINE record == guardRecord(records, n + 1, f[n].used)
      <3>3. /\ f[n + 1].used = f[n].used \union {keyOf(record)}
            /\ f[n + 1].out = Append(f[n].out, record)
        <4>1. f[n + 1] = [used |-> f[n].used \union {keyOf(record)},
                          out |-> Append(f[n].out, record)]
          BY <1>1, <3>2
        <4> HIDE DEF record
        <4> QED
          BY <4>1
      <3>4. GuardedSoFar(records, n, f[n].used, f[n].out)
        BY <1>2, <3>1
      <3>5. record = guardRecord(records, n + 1, f[n].used)
        OBVIOUS
      <3> HIDE DEF record
      <3>6. GuardedSoFar(records, n + 1, f[n].used \union {keyOf(record)}, Append(f[n].out, record))
        BY <3>1, <3>4, <3>5, GuardOne
      <3> QED
        BY <3>3, <3>6, Zenon
    <2>3. T \in SUBSET Nat
      OBVIOUS
    <2> HIDE DEF T
    <2> QED
      BY <2>1, <2>2, <2>3, Induction
  <1>4. Len(records) \in T
    BY <1>2, <1>3
  <1>5. GuardedSoFar(records, Len(records), f[Len(records)].used, f[Len(records)].out)
    BY <1>2, <1>4
  <1> QED
    BY <1>1, <1>5 DEF GuardedSoFar

-----------------------------------------------------------------------------
(***************************************************************************)
(* What a save accepts: each row, recommendation, summary and record of a  *)
(* submission is within its bounds, and they are not too many.             *)
(***************************************************************************)

LEMMA RoundedHalves ==
  /\ \A h \in Int : roundHalves(h) \in Int /\ roundHalves(h) % 2 = 0
  /\ \A h \in Nat : roundHalves(h) \in Nat /\ roundHalves(h) >= h
  /\ \A h \in Int : h <= 200 => roundHalves(h) <= 200
  /\ \A h \in Int : h >= 2 => roundHalves(h) >= 2
  BY DEF roundHalves

LEMMA ScoresAreClamped == \A n : clampMaxScore(n) \in 0..200
  <1> TAKE n
  <1>1. CASE n \notin Int
    BY <1>1 DEF clampMaxScore
  <1>2. CASE n \in Int
    BY <1>2 DEF clampMaxScore, greatest, least
  <1> QED
    BY <1>1, <1>2

LEMMA TokensAreRounded ==
  \A n : LET k == repairTokenCount(n) IN k = Absent \/ (k \in Nat /\ k % 2 = 0)
  <1> TAKE n
  <1>1. CASE n \notin Int \/ (n \in Int /\ n < 0)
    BY <1>1 DEF repairTokenCount
  <1>2. CASE ~(n \notin Int \/ (n \in Int /\ n < 0))
    <2>1. repairTokenCount(n) = roundHalves(n) /\ n \in Nat
      BY <1>2 DEF repairTokenCount
    <2> QED
      BY <2>1, RoundedHalves
  <1> QED
    BY <1>1, <1>2

LEMMA RowIsAccepted ==
  ASSUME NEW r
  PROVE  AcceptedRow(resultToAgent(r))
  <1> DEFINE row == resultToAgent(r)
             k == repairTokenCount(r.tokens)
             limit == IF r.maxScore = Absent THEN 200 ELSE r.maxScore
  <1>1. /\ row.maxScore = IF r.score = Absent THEN Absent ELSE clampMaxScore(limit)
        /\ row.summary = IF r.type = "agent" THEN wireSummary(r.summary) ELSE "absent"
        /\ row.inputTokens = IF k = Absent THEN 0 ELSE k
        /\ row.cachedInputTokens = k
    BY DEF resultToAgent
  <1>2. k = Absent \/ (k \in Nat /\ k % 2 = 0)
    BY TokensAreRounded
  <1>3. clampMaxScore(limit) \in 0..200
    BY ScoresAreClamped
  <1> HIDE DEF row, k, limit
  <1>4. row.maxScore = Absent \/ row.maxScore \in 0..200
    BY <1>1, <1>3
  <1>5. row.summary # "long"
    BY <1>1 DEF wireSummary, clamp
  <1>6. row.inputTokens = Absent \/ (row.inputTokens \in Nat /\ row.inputTokens % 2 = 0)
    <2>1. 0 \in Nat /\ 0 % 2 = 0
      OBVIOUS
    <2>2. CASE k = Absent
      BY <1>1, <2>1, <2>2
    <2>3. CASE k # Absent
      BY <1>1, <1>2, <2>3
    <2> QED
      BY <2>2, <2>3
  <1>7. row.cachedInputTokens = Absent
        \/ (row.cachedInputTokens \in Nat /\ row.cachedInputTokens % 2 = 0)
    BY <1>1, <1>2
  <1> QED
    BY <1>4, <1>5, <1>6, <1>7 DEF AcceptedRow, row

\* A list of rows, each accepted.
RowList(l) == isList(l) /\ \A row \in Range(l) : AcceptedRow(row)

LEMMA NoRows == RowList(<<>>)
  <1>1. Range(<<>>) = {}
    BY DEF Range
  <1> QED
    BY <1>1, ListBasics DEF RowList

LEMMA OneRow ==
  ASSUME NEW r
  PROVE  RowList(<<resultToAgent(r)>>)
  <1> DEFINE row == resultToAgent(r)
  <1>1. AcceptedRow(row)
    BY RowIsAccepted
  <1> HIDE DEF row
  <1>2. isList(<<row>>) /\ DOMAIN <<row>> = {1} /\ <<row>>[1] = row
    BY SingletonList
  <1>3. Range(<<row>>) = {row}
    BY <1>2 DEF Range
  <1> QED
    BY <1>1, <1>2, <1>3 DEF RowList, row

LEMMA MappedRows ==
  ASSUME NEW s, isList(s)
  PROVE  RowList(Mapped(s, resultToAgent)) /\ Len(Mapped(s, resultToAgent)) = Len(s)
  <1> DEFINE t == Mapped(s, resultToAgent)
  <1>1. isList(t) /\ Len(t) = Len(s) /\ DOMAIN t = DOMAIN s
    BY MappedList DEF Mapped
  <1>2. ASSUME NEW row \in Range(t) PROVE AcceptedRow(row)
    <2>1. PICK i \in DOMAIN t : row = t[i]
      BY DEF Range
    <2>2. t[i] = resultToAgent(s[i])
      BY <1>1 DEF Mapped
    <2> QED
      BY <2>1, <2>2, RowIsAccepted
  <1> HIDE DEF t
  <1> QED
    BY <1>1, <1>2 DEF RowList, t

LEMMA FlattenRows ==
  ASSUME NEW t, isList(t), \A i \in DOMAIN t : RowList(t[i])
  PROVE  RowList(FlattenSeq(t))
  <1>1. \A i \in DOMAIN t : isList(t[i])
    BY DEF RowList
  <1>2. /\ isList(FlattenSeq(t))
        /\ Range(FlattenSeq(t)) \subseteq UNION {Range(t[i]) : i \in DOMAIN t}
    BY <1>1, FlattenList
  <1>3. ASSUME NEW row \in Range(FlattenSeq(t)) PROVE AcceptedRow(row)
    <2>1. PICK i \in DOMAIN t : row \in Range(t[i])
      BY <1>2
    <2> QED
      BY <2>1 DEF RowList
  <1> QED
    BY <1>2, <1>3 DEF RowList

LEMMA CappedRows ==
  ASSUME NEW l, RowList(l), NEW n \in Nat
  PROVE  RowList(capped(l, n))
  <1> DEFINE c == capped(l, n)
  <1>1. isList(l)
    BY DEF RowList
  <1>2. /\ isList(c) /\ Len(c) = least(Len(l), n)
        /\ \A i \in 1..Len(c) : c[i] = l[i]
    BY <1>1, CappedList
  <1> HIDE DEF c
  <1>3. DOMAIN c = 1..Len(c) /\ DOMAIN l = 1..Len(l) /\ Len(l) \in Nat
    BY <1>1, <1>2, ListBasics
  <1>4. ASSUME NEW row \in Range(c) PROVE AcceptedRow(row)
    <2>1. PICK i \in DOMAIN c : row = c[i]
      BY DEF Range
    <2>2. i \in DOMAIN l /\ row = l[i]
      BY <1>2, <1>3, <2>1 DEF least
    <2> QED
      BY <2>2 DEF RowList, Range
  <1> QED
    BY <1>2, <1>4 DEF RowList, c

LEMMA CommandRowsAccepted ==
  ASSUME NEW cmd, isList(cmd.agentResults)
  PROVE  RowList(commandRows(cmd)) /\ Len(commandRows(cmd)) = greatest(1, Len(cmd.agentResults))
  <1>1. Len(cmd.agentResults) \in Nat /\ (Len(cmd.agentResults) = 0 <=> cmd.agentResults = <<>>)
    BY ListBasics
  <1>2. CASE cmd.agentResults # <<>>
    <2>1. commandRows(cmd) = Mapped(cmd.agentResults, resultToAgent)
      BY <1>2 DEF commandRows
    <2>2. RowList(commandRows(cmd)) /\ Len(commandRows(cmd)) = Len(cmd.agentResults)
      BY <2>1, MappedRows
    <2> QED
      BY <1>1, <1>2, <2>2 DEF greatest
  <1>3. CASE cmd.agentResults = <<>>
    <2>1. commandRows(cmd) = <<resultToAgent(cmd)>>
      BY <1>3 DEF commandRows
    <2>2. RowList(commandRows(cmd)) /\ Len(commandRows(cmd)) = 1
      BY <2>1, OneRow, SingletonList
    <2> QED
      BY <1>1, <1>3, <2>2 DEF greatest
  <1> QED
    BY <1>2, <1>3

LEMMA PhaseRowsAccepted ==
  ASSUME NEW phase, PhaseShape(phase)
  PROVE  RowList(phaseRows(phase))
  <1>1. CASE phase.decision = "skipped"
    BY <1>1, NoRows DEF phaseRows
  <1>2. CASE phase.decision # "skipped"
    <2> DEFINE t == Mapped(phase.commands, commandRows)
    <2>1. isList(t) /\ DOMAIN t = DOMAIN phase.commands
      BY MappedList DEF PhaseShape, Mapped
    <2>2. \A i \in DOMAIN t : RowList(t[i])
      <3> TAKE i \in DOMAIN t
      <3>1. phase.commands[i] \in Range(phase.commands)
        BY <2>1 DEF Range
      <3>2. t[i] = commandRows(phase.commands[i])
        BY <2>1 DEF Mapped
      <3>3. isList(phase.commands[i].agentResults)
        BY <3>1 DEF PhaseShape, AgentsShape
      <3> QED
        BY <3>2, <3>3, CommandRowsAccepted
    <2>3. phaseRows(phase) = FlattenSeq(t)
      BY <1>2 DEF phaseRows
    <2> HIDE DEF t
    <2> QED
      BY <2>1, <2>2, <2>3, FlattenRows
  <1> QED
    BY <1>1, <1>2

LEMMA OrItselfAccepted ==
  ASSUME NEW rows, RowList(rows), NEW r
  PROVE  RowList(orItself(rows, r))
  BY OneRow DEF orItself

LEMMA WorkflowRowsAccepted ==
  ASSUME NEW wf, wf.type = "workflow", CompositeShape(wf)
  PROVE  RowList(workflowRows(wf))
  <1> DEFINE t == Mapped(wf.phases, phaseRows)
  <1>1. isList(t) /\ DOMAIN t = DOMAIN wf.phases
    BY MappedList DEF CompositeShape, Mapped
  <1>2. \A i \in DOMAIN t : RowList(t[i])
    <2> TAKE i \in DOMAIN t
    <2>1. wf.phases[i] \in Range(wf.phases)
      BY <1>1 DEF Range
    <2>2. t[i] = phaseRows(wf.phases[i])
      BY <1>1 DEF Mapped
    <2>3. PhaseShape(wf.phases[i])
      BY <2>1 DEF CompositeShape
    <2> QED
      BY <2>2, <2>3, PhaseRowsAccepted
  <1>3. workflowRows(wf) = orItself(FlattenSeq(t), wf)
    BY DEF workflowRows
  <1> HIDE DEF t
  <1> QED
    BY <1>1, <1>2, <1>3, FlattenRows, OrItselfAccepted

LEMMA StageRowsAccepted ==
  ASSUME NEW stage, StageShape(stage)
  PROVE  RowList(stageRows(stage))
  <1>1. CASE stage.status = "skipped" \/ stage.result = Absent
    BY <1>1, NoRows DEF stageRows
  <1>2. CASE ~(stage.status = "skipped" \/ stage.result = Absent) /\ stage.agentResults # <<>>
    <2>1. stageRows(stage) = Mapped(stage.agentResults, resultToAgent)
      BY <1>2 DEF stageRows
    <2> QED
      BY <2>1, MappedRows DEF StageShape, AgentsShape
  <1>3. CASE /\ ~(stage.status = "skipped" \/ stage.result = Absent) /\ stage.agentResults = <<>>
             /\ stage.result.type = "workflow"
    <2>1. stageRows(stage) = capped(workflowRows(stage.result), MAX_RUN_AGENTS)
      BY <1>3 DEF stageRows, extractWorkflowAgents
    <2>2. RowList(workflowRows(stage.result))
      BY <1>3, WorkflowRowsAccepted DEF StageShape
    <2>3. MAX_RUN_AGENTS \in Nat
      BY CeilingsAssumption
    <2> QED
      BY <2>1, <2>2, <2>3, CappedRows
  <1>4. CASE /\ ~(stage.status = "skipped" \/ stage.result = Absent) /\ stage.agentResults = <<>>
             /\ stage.result.type # "workflow"
    <2>1. stageRows(stage) = commandRows(stage.result)
      BY <1>4 DEF stageRows
    <2>2. isList(stage.result.agentResults)
      BY <1>4 DEF StageShape, CompositeShape, AgentsShape
    <2> QED
      BY <2>1, <2>2, CommandRowsAccepted
  <1> QED
    BY <1>1, <1>2, <1>3, <1>4

LEMMA PipelineRowsAccepted ==
  ASSUME NEW pl, pl.type = "pipeline", ResultShape(pl)
  PROVE  RowList(pipelineRows(pl))
  <1> DEFINE t == Mapped(pl.stages, stageRows)
  <1>1. isList(pl.stages) /\ \A stage \in Range(pl.stages) : StageShape(stage)
    BY DEF ResultShape
  <1>2. isList(t) /\ DOMAIN t = DOMAIN pl.stages
    BY <1>1, MappedList DEF Mapped
  <1>3. \A i \in DOMAIN t : RowList(t[i])
    <2> TAKE i \in DOMAIN t
    <2>1. t[i] = stageRows(pl.stages[i]) /\ pl.stages[i] \in Range(pl.stages)
      BY <1>2 DEF Range, Mapped
    <2> QED
      BY <1>1, <2>1, StageRowsAccepted
  <1>4. pipelineRows(pl) = orItself(FlattenSeq(t), pl)
    BY DEF pipelineRows
  <1> HIDE DEF t
  <1> QED
    BY <1>2, <1>3, <1>4, FlattenRows, OrItselfAccepted

\* A command's own rows meet no ceiling.
PanelFits(r) == r.type = "command" => Len(r.agentResults) <= MAX_RUN_AGENTS

LEMMA RowsAreAccepted ==
  ASSUME NEW r, ResultShape(r), PanelFits(r)
  PROVE  RowList(extractAgents(r)) /\ Len(extractAgents(r)) \in 1..MAX_RUN_AGENTS
  <1>1. r.type \in {"agent", "command", "workflow", "pipeline"}
    BY DEF ResultShape
  <1>2. MAX_RUN_AGENTS \in Nat \ {0, 1}
    BY CeilingsAssumption
  <1>3. ASSUME NEW rows, RowList(rows), Len(rows) \in Nat \ {0}
        PROVE  RowList(capped(rows, MAX_RUN_AGENTS)) /\ Len(capped(rows, MAX_RUN_AGENTS)) \in 1..MAX_RUN_AGENTS
    <2>1. Len(capped(rows, MAX_RUN_AGENTS)) = least(Len(rows), MAX_RUN_AGENTS)
      BY <1>2, <1>3, CappedList DEF RowList
    <2>2. least(Len(rows), MAX_RUN_AGENTS) \in 1..MAX_RUN_AGENTS
      BY <1>2, <1>3 DEF least
    <2> QED
      BY <1>2, <1>3, <2>1, <2>2, CappedRows
  <1>4. CASE r.type = "agent"
    <2>1. extractAgents(r) = <<resultToAgent(r)>>
      BY <1>4 DEF extractAgents, uncappedRows
    <2>2. Len(<<resultToAgent(r)>>) = 1
      BY SingletonList
    <2> QED
      BY <1>2, <2>1, <2>2, OneRow
  <1>5. CASE r.type = "command"
    <2>1. extractAgents(r) = commandRows(r)
      BY <1>5 DEF extractAgents, uncappedRows
    <2>2. isList(r.agentResults)
      BY <1>5 DEF ResultShape, CompositeShape, AgentsShape
    <2>3. RowList(commandRows(r)) /\ Len(commandRows(r)) = greatest(1, Len(r.agentResults))
      BY <2>2, CommandRowsAccepted
    <2>4. Len(r.agentResults) \in Nat /\ Len(r.agentResults) <= MAX_RUN_AGENTS
      BY <1>5, <2>2, ListBasics DEF PanelFits
    <2>5. greatest(1, Len(r.agentResults)) \in 1..MAX_RUN_AGENTS
      BY <1>2, <2>4 DEF greatest
    <2> QED
      BY <2>1, <2>3, <2>5
  <1>6. CASE r.type = "workflow"
    <2>1. extractAgents(r) = capped(workflowRows(r), MAX_RUN_AGENTS)
      BY <1>6 DEF extractAgents, uncappedRows
    <2>2. CompositeShape(r)
      BY <1>6 DEF ResultShape
    <2>3. Len(workflowRows(r)) \in Nat \ {0} /\ RowList(workflowRows(r))
      BY <1>6, <2>2, WorkflowRowsList, WorkflowRowsAccepted
    <2> QED
      BY <1>3, <2>1, <2>3
  <1>7. CASE r.type = "pipeline"
    <2>1. extractAgents(r) = capped(pipelineRows(r), MAX_RUN_AGENTS)
      BY <1>7 DEF extractAgents, uncappedRows
    <2>2. Len(pipelineRows(r)) \in Nat \ {0} /\ RowList(pipelineRows(r))
      BY <1>7, PipelineRowsCounted, PipelineRowsAccepted
    <2> QED
      BY <1>3, <2>1, <2>2
  <1> QED
    BY <1>1, <1>4, <1>5, <1>6, <1>7

LEMMA RecommendationIsAccepted ==
  ASSUME NEW rec, RecommendationShape(rec)
  PROVE  AcceptedRecommendation(sanitized(rec))
  <1> DEFINE s == sanitized(rec)
  <1>1. /\ {"title", "agent", "priority"} \subseteq DOMAIN rec
        /\ rec.agent \in {"absent", "empty", "fits", "long"}
        /\ "secondaryFailureCodes" \in DOMAIN rec =>
              rec.secondaryFailureCodes \in {"absent", "fits", "long", "notArray"}
    BY DEF RecommendationShape
  <1>2. DOMAIN s = DOMAIN rec
    BY DEF sanitized
  <1>3. s.title = "fits" /\ s.priority = "member"
    BY <1>1 DEF sanitized, Texts, Vocabularies
  <1>4. s.agent \in {"empty", "fits"}
    <2>1. s.agent = IF rec.agent = "absent" THEN "fits" ELSE clamp(rec.agent)
      BY <1>1 DEF sanitized, Texts, Vocabularies
    <2> QED
      BY <1>1, <2>1 DEF clamp
  <1>5. ASSUME NEW f \in DOMAIN s \intersect Texts PROVE s[f] # "long"
    <2>1. CASE f \in {"agent", "title"}
      BY <1>3, <1>4, <2>1
    <2>2. CASE f \notin {"agent", "title"}
      <3>1. s[f] = clamp(rec[f])
        BY <1>2, <2>2 DEF sanitized, Texts, Vocabularies
      <3> QED
        BY <3>1 DEF clamp
    <2> QED
      BY <2>1, <2>2
  <1>6. ASSUME NEW f \in DOMAIN s \intersect Vocabularies PROVE s[f] # "other"
    <2>1. s[f] = keepIfValid(rec[f])
      BY <1>2 DEF sanitized, Texts, Vocabularies
    <2> QED
      BY <2>1 DEF keepIfValid
  <1>7. ASSUME "lineNumber" \in DOMAIN s
        PROVE  s.lineNumber = Absent \/ (s.lineNumber \in Nat /\ s.lineNumber % 2 = 0)
    <2> DEFINE n == rec.lineNumber
    <2>1. s.lineNumber = IF n \notin Int THEN Absent ELSE greatest(0, roundHalves(n))
      BY <1>2, <1>7 DEF sanitized, Texts, Vocabularies, repairLineNumber
    <2> HIDE DEF n, s
    <2>2. CASE n \notin Int
      BY <2>1, <2>2
    <2>3. CASE n \in Int
      <3> DEFINE h == roundHalves(n)
      <3>1. h \in Int /\ h % 2 = 0
        BY <2>3, RoundedHalves
      <3>2. s.lineNumber = greatest(0, h)
        BY <2>1, <2>3
      <3> HIDE DEF h
      <3>3. greatest(0, h) \in Nat /\ greatest(0, h) % 2 = 0
        BY <3>1 DEF greatest
      <3> QED
        BY <3>2, <3>3
    <2> QED
      BY <2>2, <2>3
  <1>8. ASSUME "secondaryFailureCodes" \in DOMAIN s
        PROVE  s.secondaryFailureCodes \in {"absent", "fits"}
    <2>1. s.secondaryFailureCodes = keepSecondaryFailureCodes(rec["secondaryFailureCodes"])
      BY <1>2, <1>8 DEF sanitized, Texts, Vocabularies
    <2> HIDE DEF s
    <2> QED
      BY <1>1, <1>2, <1>8, <2>1 DEF keepSecondaryFailureCodes
  <1> HIDE DEF s
  <1> QED
    BY <1>3, <1>4, <1>5, <1>6, <1>7, <1>8 DEF AcceptedRecommendation, s

\* The repaired recommendations that the ceiling keeps.
LEMMA RecommendationsAreAccepted ==
  ASSUME NEW r, ResultShape(r)
  PROVE  LET recs == capped(Mapped(r.recommendations, sanitized), MAX_RECOMMENDATIONS)
         IN  /\ isList(recs) /\ Len(recs) \in Nat /\ Len(recs) <= MAX_RECOMMENDATIONS
             /\ \A i \in 1..Len(recs) : AcceptedRecommendation(recs[i])
  <1> DEFINE all == Mapped(r.recommendations, sanitized)
             recs == capped(all, MAX_RECOMMENDATIONS)
  <1>1. /\ isList(r.recommendations)
        /\ \A rec \in Range(r.recommendations) : RecommendationShape(rec)
    BY DEF ResultShape
  <1>2. isList(all) /\ DOMAIN all = DOMAIN r.recommendations
    BY <1>1, MappedList DEF Mapped
  <1>3. ASSUME NEW i \in DOMAIN all PROVE AcceptedRecommendation(all[i])
    <2>1. all[i] = sanitized(r.recommendations[i])
      BY <1>2 DEF Mapped
    <2>2. r.recommendations[i] \in Range(r.recommendations)
      BY <1>2 DEF Range
    <2> HIDE DEF all
    <2> QED
      BY <1>1, <2>1, <2>2, RecommendationIsAccepted
  <1> HIDE DEF all
  <1>4. MAX_RECOMMENDATIONS \in Nat
    BY CeilingsAssumption
  <1>5. /\ isList(recs) /\ Len(recs) = least(Len(all), MAX_RECOMMENDATIONS)
        /\ \A i \in 1..Len(recs) : recs[i] = all[i]
    BY <1>2, <1>4, CappedList
  <1> HIDE DEF recs
  <1>6. Len(all) \in Nat /\ DOMAIN all = 1..Len(all)
    BY <1>2, ListBasics
  <1>7. Len(recs) \in Nat /\ Len(recs) <= MAX_RECOMMENDATIONS /\ Len(recs) <= Len(all)
    BY <1>4, <1>5, <1>6 DEF least
  <1>8. \A i \in 1..Len(recs) : AcceptedRecommendation(recs[i])
    BY <1>3, <1>5, <1>6, <1>7
  <1> QED
    BY <1>5, <1>7, <1>8 DEF recs, all

\* With its marker a submission has no more of them than it may, and one more
\* at most than the ceiling kept.
LEMMA MarkedAreAccepted ==
  ASSUME NEW recs, isList(recs), Len(recs) <= MAX_RECOMMENDATIONS,
         \A i \in 1..Len(recs) : AcceptedRecommendation(recs[i]),
         NEW tally1, NEW produced
  PROVE  LET out == marked(recs, tally1, produced)
         IN  /\ isList(out) /\ Len(out) \in Nat
             /\ Len(out) <= MAX_RECOMMENDATIONS /\ Len(out) <= Len(recs) + 1
             /\ \A i \in DOMAIN out : isMarker(out[i]) \/ AcceptedRecommendation(out[i])
  <1> DEFINE out == marked(recs, tally1, produced)
             kept == capped(recs, MAX_RECOMMENDATIONS - 1)
             marker == buildTruncationMarker(tally1, produced - Len(kept))
  <1>1. out = recs \/ out = Append(kept, marker)
    BY DEF marked
  <1>2. isMarker(marker)
    BY DEF buildTruncationMarker, isMarker
  <1>3. MAX_RECOMMENDATIONS \in Nat \ {0, 1} /\ MAX_RECOMMENDATIONS - 1 \in Nat
    BY CeilingsAssumption
  <1>4. Len(recs) \in Nat
    BY ListBasics
  <1> HIDE DEF out
  <1>5. CASE out = recs
    <2>1. DOMAIN out = 1..Len(out)
      BY <1>5, ListBasics
    <2> QED
      BY <1>4, <1>5, <2>1 DEF out
  <1>6. CASE out = Append(kept, marker)
    <2>1. /\ isList(kept) /\ Len(kept) = least(Len(recs), MAX_RECOMMENDATIONS - 1)
          /\ \A i \in 1..Len(kept) : kept[i] = recs[i]
      BY <1>3, CappedList
    <2> HIDE DEF kept, marker
    <2>2. Len(kept) \in Nat /\ Len(kept) <= Len(recs) /\ Len(kept) <= MAX_RECOMMENDATIONS - 1
      BY <1>3, <1>4, <2>1 DEF least
    <2>3. /\ isList(out) /\ Len(out) = Len(kept) + 1
          /\ \A i \in 1..Len(kept) : out[i] = kept[i]
          /\ out[Len(kept) + 1] = marker
      BY <1>6, <2>1, AppendList
    <2>4. DOMAIN out = 1 .. Len(kept) + 1
      BY <2>3, ListBasics
    <2>5. ASSUME NEW i \in DOMAIN out PROVE isMarker(out[i]) \/ AcceptedRecommendation(out[i])
      <3>1. CASE i = Len(kept) + 1
        BY <1>2, <2>3, <3>1
      <3>2. CASE i # Len(kept) + 1
        <4>1. i \in 1..Len(kept) /\ i \in 1..Len(recs)
          BY <1>4, <2>2, <2>4, <3>2
        <4> QED
          BY <2>1, <2>3, <4>1
      <3> QED
        BY <3>1, <3>2
    <2>6. Len(out) \in Nat /\ Len(out) <= MAX_RECOMMENDATIONS /\ Len(out) <= Len(recs) + 1
      BY <1>3, <1>4, <2>2, <2>3
    <2> QED
      BY <2>3, <2>5, <2>6 DEF out
  <1> QED
    BY <1>1, <1>5, <1>6

LEMMA ShareInBounds ==
  ASSUME NEW n \in Nat \ {0}
  PROVE  greatest(1, roundHalves(200 \div n) \div 2) \in 1..100
  <1>1. 200 \div n \in Nat /\ 200 \div n <= 200
    OBVIOUS
  <1> DEFINE q == 200 \div n
  <1> HIDE DEF q
  <1>2. q \in Nat /\ q <= 200
    BY <1>1 DEF q
  <1>3. roundHalves(q) \in Nat /\ roundHalves(q) <= 200
    BY <1>2, RoundedHalves
  <1>4. roundHalves(q) \div 2 \in Nat /\ roundHalves(q) \div 2 <= 100
    BY <1>3
  <1>5. greatest(1, roundHalves(q) \div 2) \in 1..100
    BY <1>4 DEF greatest
  <1> QED
    BY <1>5 DEF q

AcceptedCategory(cat) == /\ cat.score \in Nat /\ cat.score % 2 = 0
                         /\ cat.weight \in 2..200 /\ cat.weight % 2 = 0

LEMMA CategoryIsAccepted ==
  ASSUME NEW cat, cat.score \in Int, NEW share \in 1..100
  PROVE  AcceptedCategory(repairCategory(cat, share))
  <1> DEFINE c == repairCategory(cat, share)
             h == roundHalves(cat.score)
             w == cat.weight
  <1>1. /\ c.score = greatest(0, h)
        /\ c.weight = IF w \notin Int THEN 2 * share
                      ELSE least(200, greatest(2, roundHalves(w)))
    BY DEF repairCategory
  <1>2. h \in Int /\ h % 2 = 0
    BY RoundedHalves
  <1>3. w \in Int => roundHalves(w) \in Int /\ roundHalves(w) % 2 = 0
    BY RoundedHalves
  <1> HIDE DEF c, h, w
  <1>4. c.score \in Nat /\ c.score % 2 = 0
    <2>1. greatest(0, h) \in Nat /\ greatest(0, h) % 2 = 0
      BY <1>2 DEF greatest
    <2> QED
      BY <1>1, <2>1
  <1>5. c.weight \in 2..200 /\ c.weight % 2 = 0
    <2>1. CASE w \notin Int
      <3>1. 2 * share \in 2..200 /\ (2 * share) % 2 = 0
        OBVIOUS
      <3> QED
        BY <1>1, <2>1, <3>1
    <2>2. CASE w \in Int
      <3> DEFINE g == roundHalves(w)
      <3>1. g \in Int /\ g % 2 = 0
        BY <1>3, <2>2
      <3>2. c.weight = least(200, greatest(2, g))
        BY <1>1, <2>2
      <3> HIDE DEF g
      <3>3. greatest(2, g) \in Nat /\ greatest(2, g) >= 2 /\ greatest(2, g) % 2 = 0
        BY <3>1 DEF greatest
      <3>4. least(200, greatest(2, g)) \in 2..200 /\ least(200, greatest(2, g)) % 2 = 0
        BY <3>3 DEF least
      <3> QED
        BY <3>2, <3>4
    <2> QED
      BY <2>1, <2>2
  <1> QED
    BY <1>4, <1>5 DEF AcceptedCategory, c

LEMMA CategoriesAreAccepted ==
  ASSUME NEW cats, isList(cats)
  PROVE  \A i \in DOMAIN repairCategories(cats) : AcceptedCategory(repairCategories(cats)[i])
  <1> DEFINE share == IF cats = <<>> THEN 1
                      ELSE greatest(1, roundHalves(200 \div Len(cats)) \div 2)
             t == [i \in DOMAIN cats |-> IF cats[i].score \in Int THEN <<cats[i]>> ELSE <<>>]
             some == FlattenSeq(t)
             out == repairCategories(cats)
  <1>1. out = [i \in DOMAIN some |-> repairCategory(some[i], share)]
    BY DEF repairCategories, chosen, Mapped
  <1>2. share \in 1..100
    <2>1. cats # <<>> => Len(cats) \in Nat \ {0}
      BY ListBasics
    <2>2. CASE cats = <<>>
      BY <2>2
    <2>3. CASE cats # <<>>
      <3>1. greatest(1, roundHalves(200 \div Len(cats)) \div 2) \in 1..100
        BY <2>1, <2>3, ShareInBounds
      <3> QED
        BY <2>3, <3>1
    <2> QED
      BY <2>2, <2>3
  <1> HIDE DEF share, out
  <1>3. isList(t) /\ DOMAIN t = DOMAIN cats
    BY MappedList
  <1>4. ASSUME NEW i \in DOMAIN t
        PROVE  isList(t[i]) /\ \A cat \in Range(t[i]) : cat.score \in Int
    <2>1. CASE cats[i].score \in Int
      <3>1. t[i] = <<cats[i]>>
        BY <1>3, <2>1
      <3> HIDE DEF t
      <3>2. isList(<<cats[i]>>) /\ DOMAIN <<cats[i]>> = {1} /\ <<cats[i]>>[1] = cats[i]
        BY SingletonList
      <3>3. Range(<<cats[i]>>) = {cats[i]}
        BY <3>2 DEF Range
      <3> QED
        BY <2>1, <3>1, <3>2, <3>3
    <2>2. CASE cats[i].score \notin Int
      <3>1. t[i] = <<>>
        BY <1>3, <2>2
      <3> HIDE DEF t
      <3>2. Range(<<>>) = {}
        BY DEF Range
      <3> QED
        BY <3>1, <3>2, ListBasics
    <2> QED
      BY <2>1, <2>2
  <1> HIDE DEF t
  <1>5. isList(some) /\ Range(some) \subseteq UNION {Range(t[i]) : i \in DOMAIN t}
    BY <1>3, <1>4, FlattenList
  <1> HIDE DEF some
  <1>6. ASSUME NEW i \in DOMAIN out PROVE AcceptedCategory(out[i])
    <2>1. i \in DOMAIN some /\ out[i] = repairCategory(some[i], share)
      BY <1>1
    <2>2. some[i].score \in Int
      <3>1. some[i] \in Range(some)
        BY <2>1 DEF Range
      <3> QED
        BY <1>4, <1>5, <3>1
    <2> QED
      BY <1>2, <2>1, <2>2, CategoryIsAccepted
  <1> QED
    BY <1>6 DEF out

LEMMA SummaryIsAccepted ==
  ASSUME NEW summary, SummaryShape(summary)
  PROVE  AcceptedSummary(repairSummary(summary))
  <1> DEFINE s == repairSummary(summary)
             cats == repairCategories(summary.categoryScores)
  <1>1. /\ {"categoryScores", "maps", "sections", "oddItems", "auditImplications", "metrics"}
              \subseteq DOMAIN summary
        /\ isList(summary.categoryScores)
        /\ summary.maps \in Nat /\ summary.sections \in Nat
    BY DEF SummaryShape
  <1>2. \A i \in DOMAIN cats : AcceptedCategory(cats[i])
    BY <1>1, CategoriesAreAccepted
  <1> HIDE DEF cats
  <1>3. /\ s.categoryScores = cats
        /\ s.maps = least(summary.maps, MaxMaps)
        /\ s.sections = least(summary.sections, MaxSections)
        /\ s.oddItems = FALSE
        /\ s.auditImplications = clamp(summary.auditImplications)
        /\ s.metrics = IF summary.metrics = "over" THEN "absent" ELSE summary.metrics
    BY <1>1 DEF repairSummary, blobExceedsBound, cats
  <1> HIDE DEF s
  <1>4. s.maps <= MaxMaps /\ s.sections <= MaxSections
    <2>1. MaxMaps \in Nat /\ MaxSections \in Nat
      BY CeilingsAssumption
    <2>2. least(summary.maps, MaxMaps) <= MaxMaps /\ least(summary.sections, MaxSections) <= MaxSections
      BY <1>1, <2>1 DEF least
    <2> QED
      BY <1>3, <2>2
  <1>5. s.auditImplications # "long" /\ s.metrics # "over" /\ ~s.oddItems
    BY <1>3 DEF clamp
  <1>6. \A i \in DOMAIN s.categoryScores :
          LET cat == s.categoryScores[i]
          IN  /\ cat.score \in Nat /\ cat.score % 2 = 0
              /\ cat.weight \in 2..200 /\ cat.weight % 2 = 0
    BY <1>2, <1>3 DEF AcceptedCategory
  <1> QED
    BY <1>4, <1>5, <1>6 DEF AcceptedSummary, s

-----------------------------------------------------------------------------
(* The analysis that stays, and the weight of the body.                    *)

\* Repaired to the bounds, a record keeps its shape and its key.
LEMMA RecordIsRepaired ==
  ASSUME NEW record, RecordShape(record)
  PROVE  RecordShape(repairRecord(record)) /\ repairRecord(record).data # "over"
  <1> DEFINE out == repairRecord(record)
  <1>1. /\ {"agentName", "recordId", "data"} \subseteq DOMAIN record
        /\ isList(record.recordId) /\ Len(record.recordId) <= RECORD_ID_MAX_LENGTH
    BY DEF RecordShape
  <1>2. /\ DOMAIN out = DOMAIN record /\ out.recordId = record.recordId
        /\ out.data = IF record.data = "over" THEN "small" ELSE record.data
    BY <1>1 DEF repairRecord, blobExceedsBound
  <1> HIDE DEF out
  <1>3. RecordShape(out) /\ out.data # "over"
    BY <1>1, <1>2 DEF RecordShape
  <1> QED
    BY <1>3 DEF out

RecordList(l) == /\ isList(l)
                 /\ \A i \in 1..Len(l) : RecordShape(l[i]) /\ l[i].data # "over"

\* The records of all the children, one child after the other.
LEMMA RecordsAreShaped ==
  ASSUME NEW children, AgentsShape(children)
  PROVE  RecordList(FlattenSeq(Mapped(children,
                       LAMBDA a : Mapped(a.analysis.records, repairRecord))))
  <1> DEFINE t == Mapped(children, LAMBDA a : Mapped(a.analysis.records, repairRecord))
             records == FlattenSeq(t)
  <1>1. isList(children)
    BY DEF AgentsShape
  <1>2. isList(t) /\ DOMAIN t = DOMAIN children
    BY <1>1, MappedList DEF Mapped
  <1>3. ASSUME NEW i \in DOMAIN t
        PROVE  /\ isList(t[i])
               /\ \A record \in Range(t[i]) : RecordShape(record) /\ record.data # "over"
    <2> DEFINE own == children[i].analysis.records
               l == Mapped(own, repairRecord)
    <2>1. t[i] = l
      BY <1>2 DEF Mapped
    <2>2. isList(own) /\ \A record \in Range(own) : RecordShape(record)
      <3>1. children[i] \in Range(children)
        BY <1>2 DEF Range
      <3> QED
        BY <3>1 DEF AgentsShape, AgentShape
    <2> HIDE DEF t, own
    <2>3. isList(l) /\ DOMAIN l = DOMAIN own
      BY <2>2, MappedList DEF Mapped
    <2>4. ASSUME NEW k \in DOMAIN l PROVE RecordShape(l[k]) /\ l[k].data # "over"
      <3>1. l[k] = repairRecord(own[k]) /\ own[k] \in Range(own)
        BY <2>3 DEF Mapped, Range
      <3> HIDE DEF l
      <3> QED
        BY <2>2, <3>1, RecordIsRepaired
    <2> HIDE DEF l
    <2> QED
      BY <2>1, <2>3, <2>4 DEF Range
  <1> HIDE DEF t
  <1>4. isList(records) /\ Range(records) \subseteq UNION {Range(t[i]) : i \in DOMAIN t}
    BY <1>2, <1>3, FlattenList
  <1> HIDE DEF records
  <1>5. ASSUME NEW i \in 1..Len(records) PROVE RecordShape(records[i]) /\ records[i].data # "over"
    <2>1. records[i] \in Range(records)
      BY <1>4, ListBasics
    <2> QED
      BY <1>3, <1>4, <2>1
  <1> QED
    BY <1>4, <1>5 DEF RecordList, records, t

\* What a save accepts of the records.
RecordsFit(l) ==
    /\ isList(l)
    /\ \A j, k \in 1..Len(l) : /\ RecordShape(l[j]) /\ l[j].data # "over"
                               /\ keyOf(l[j]) = keyOf(l[k]) => j = k

LEMMA GuardedRecordsFit ==
  ASSUME NEW records, RecordList(records)
  PROVE  LET out == guardRecordKeys(capped(records, MAX_ANALYSIS_RECORDS))
         IN  RecordsFit(out) /\ Len(out) \in Nat /\ Len(out) <= MAX_ANALYSIS_RECORDS
  <1> DEFINE some == capped(records, MAX_ANALYSIS_RECORDS)
             out == guardRecordKeys(some)
  <1>1. MAX_ANALYSIS_RECORDS \in Nat
    BY CeilingsAssumption
  <1>2. isList(records) /\ Len(records) \in Nat
    BY ListBasics DEF RecordList
  <1>3. /\ isList(some) /\ Len(some) = least(Len(records), MAX_ANALYSIS_RECORDS)
        /\ \A i \in 1..Len(some) : some[i] = records[i]
    BY <1>1, <1>2, CappedList
  <1> HIDE DEF some
  <1>4. Len(some) \in Nat /\ Len(some) <= MAX_ANALYSIS_RECORDS /\ Len(some) <= Len(records)
    BY <1>1, <1>2, <1>3 DEF least
  <1>5. \A i \in 1..Len(some) : RecordShape(some[i]) /\ some[i].data # "over"
    BY <1>2, <1>3, <1>4 DEF RecordList
  <1>6. isList(out) /\ Len(out) = Len(some)
    BY <1>3, GuardKeepsAll
  <1>7. /\ \A i \in 1..Len(some) : RecordShape(out[i]) /\ out[i].data = some[i].data
        /\ \A i, j \in 1..Len(some) : keyOf(out[i]) = keyOf(out[j]) => i = j
    BY <1>3, <1>4, <1>5, GuardedAreDistinct
  <1> HIDE DEF out
  <1>8. RecordsFit(out)
    BY <1>5, <1>6, <1>7 DEF RecordsFit
  <1> QED
    BY <1>4, <1>6, <1>8 DEF out, some

LEMMA SummariesAreAccepted ==
  ASSUME NEW children, AgentsShape(children)
  PROVE  LET out == capped(Mapped(children, LAMBDA a : repairSummary(a.analysis.summary)),
                           MAX_ANALYSIS_SUMMARIES)
         IN  /\ isList(out) /\ Len(out) \in Nat /\ Len(out) <= MAX_ANALYSIS_SUMMARIES
             /\ \A i \in 1..Len(out) : AcceptedSummary(out[i])
  <1> DEFINE all == Mapped(children, LAMBDA a : repairSummary(a.analysis.summary))
             out == capped(all, MAX_ANALYSIS_SUMMARIES)
  <1>1. MAX_ANALYSIS_SUMMARIES \in Nat
    BY CeilingsAssumption
  <1>2. isList(children)
    BY DEF AgentsShape
  <1>3. isList(all) /\ DOMAIN all = DOMAIN children
    BY <1>2, MappedList DEF Mapped
  <1>4. ASSUME NEW i \in DOMAIN all PROVE AcceptedSummary(all[i])
    <2>1. all[i] = repairSummary(children[i].analysis.summary)
      BY <1>3 DEF Mapped
    <2>2. SummaryShape(children[i].analysis.summary)
      <3>1. children[i] \in Range(children)
        BY <1>3 DEF Range
      <3> QED
        BY <3>1 DEF AgentsShape, AgentShape
    <2> HIDE DEF all
    <2> QED
      BY <2>1, <2>2, SummaryIsAccepted
  <1> HIDE DEF all
  <1>5. Len(all) \in Nat /\ DOMAIN all = 1..Len(all)
    BY <1>3, ListBasics
  <1>6. /\ isList(out) /\ Len(out) = least(Len(all), MAX_ANALYSIS_SUMMARIES)
        /\ \A i \in 1..Len(out) : out[i] = all[i]
    BY <1>1, <1>3, CappedList
  <1> HIDE DEF out
  <1>7. Len(out) \in Nat /\ Len(out) <= MAX_ANALYSIS_SUMMARIES /\ Len(out) <= Len(all)
    BY <1>1, <1>5, <1>6 DEF least
  <1>8. \A i \in 1..Len(out) : AcceptedSummary(out[i])
    BY <1>4, <1>5, <1>6, <1>7
  <1> QED
    BY <1>6, <1>7, <1>8 DEF out, all

\* What is kept fits, unless there was nothing left to drop.
LEMMA BudgetFits ==
  ASSUME NEW rows, NEW recs, NEW summaries, isList(summaries), NEW records, isList(records)
  PROVE  LET kept == enforcePayloadBudget(rows, recs, summaries, records)
             s == SubSeq(summaries, 1, kept.summaries)
             l == SubSeq(records, 1, kept.records)
         IN  (s = <<>> /\ l = <<>>) \/ payloadWeight(rows, recs, s, l) <= MAX_PAYLOAD
  <1> DEFINE fits(s, r) == payloadWeight(rows, recs, SubSeq(summaries, 1, s),
                                         SubSeq(records, 1, r)) <= MAX_PAYLOAD
             some == {s \in 0..Len(summaries) : fits(s, Len(records))}
             none == {r \in 0..Len(records) : fits(0, r)}
             kept == enforcePayloadBudget(rows, recs, summaries, records)
  <1>1. kept = IF some # {} THEN [summaries |-> Max(some), records |-> Len(records)]
               ELSE [summaries |-> 0, records |-> IF none = {} THEN 0 ELSE Max(none)]
    BY DEF enforcePayloadBudget
  <1>2. some \in SUBSET (0..Len(summaries)) /\ none \in SUBSET (0..Len(records))
    OBVIOUS
  <1>3. \A s \in some : fits(s, Len(records))
    OBVIOUS
  <1>4. \A r \in none : fits(0, r)
    OBVIOUS
  <1> HIDE DEF some, none, kept
  <1>5. Len(summaries) \in Nat /\ Len(records) \in Nat
    BY ListBasics
  <1>6. some # {} => Max(some) \in some
    BY <1>2, <1>5, MaxOfSome
  <1>7. none # {} => Max(none) \in none
    BY <1>2, <1>5, MaxOfSome
  <1> HIDE DEF fits
  <1>8. fits(kept.summaries, kept.records) \/ (kept.summaries = 0 /\ kept.records = 0)
    <2>1. CASE some # {}
      BY <1>1, <1>3, <1>6, <2>1
    <2>2. CASE some = {} /\ none # {}
      BY <1>1, <1>4, <1>7, <2>2
    <2>3. CASE some = {} /\ none = {}
      BY <1>1, <2>3
    <2> QED
      BY <2>1, <2>2, <2>3
  <1>9. SubSeq(summaries, 1, 0) = <<>> /\ SubSeq(records, 1, 0) = <<>>
    <2>1. 0 \in 0..Len(summaries) /\ 0 \in 0..Len(records)
      BY <1>5
    <2>2. /\ isList(SubSeq(summaries, 1, 0)) /\ Len(SubSeq(summaries, 1, 0)) = 0
          /\ isList(SubSeq(records, 1, 0)) /\ Len(SubSeq(records, 1, 0)) = 0
      BY <2>1, SubList
    <2> QED
      BY <2>2, ListBasics
  <1> QED
    BY <1>8, <1>9 DEF fits, kept

LEMMA WeightsAreNumbers ==
  ASSUME NEW w, isList(w), \A i \in DOMAIN w : w[i] \in Nat
  PROVE  sumOf(w) \in Nat
  <1>1. Len(w) \in Nat /\ DOMAIN w = 1..Len(w) /\ w = [i \in 1..Len(w) |-> w[i]]
    BY ListBasics
  <1>2. w \in [1..Len(w) -> Nat]
    BY <1>1
  <1>3. w \in Seq(Nat)
    BY <1>1, <1>2, ListOf
  <1> QED
    BY <1>3, SumType

\* The marker adds one to the weight at most.
LEMMA MarkerIsLight ==
  ASSUME NEW rows, Len(rows) \in Nat, NEW recs, Len(recs) \in Nat,
         NEW more, Len(more) \in Nat, Len(more) <= Len(recs) + 1,
         NEW s, isList(s), NEW l, isList(l),
         payloadWeight(rows, recs, s, l) <= MAX_PAYLOAD
  PROVE  payloadWeight(rows, more, s, l) <= MAX_PAYLOAD + 1
  <1> DEFINE a == sumOf(Mapped(s, LAMBDA x : weightOf(x.metrics)))
             b == sumOf(Mapped(l, LAMBDA x : weightOf(x.data)))
  <1>1. \A blob : weightOf(blob) \in Nat
    BY CeilingsAssumption DEF weightOf
  <1>2. a \in Nat
    <2> DEFINE w == Mapped(s, LAMBDA x : weightOf(x.metrics))
    <2>1. isList(w) /\ DOMAIN w = DOMAIN s
      BY MappedList DEF Mapped
    <2>2. \A i \in DOMAIN w : w[i] \in Nat
      BY <1>1 DEF Mapped
    <2> HIDE DEF w
    <2>3. sumOf(w) \in Nat
      BY <2>1, <2>2, WeightsAreNumbers
    <2> QED
      BY <2>3 DEF w
  <1>3. b \in Nat
    <2> DEFINE w == Mapped(l, LAMBDA x : weightOf(x.data))
    <2>1. isList(w) /\ DOMAIN w = DOMAIN l
      BY MappedList DEF Mapped
    <2>2. \A i \in DOMAIN w : w[i] \in Nat
      BY <1>1 DEF Mapped
    <2> HIDE DEF w
    <2>3. sumOf(w) \in Nat
      BY <2>1, <2>2, WeightsAreNumbers
    <2> QED
      BY <2>3 DEF w
  <1>4. Len(rows) + Len(recs) + a + b <= MAX_PAYLOAD
    BY DEF payloadWeight
  <1>5. payloadWeight(rows, more, s, l) = Len(rows) + Len(more) + a + b
    BY DEF payloadWeight
  <1> HIDE DEF a, b
  <1>6. MAX_PAYLOAD \in Nat
    BY CeilingsAssumption
  <1>7. Len(rows) + Len(more) + a + b <= MAX_PAYLOAD + 1
    BY <1>2, <1>3, <1>4, <1>6
  <1> QED
    BY <1>5, <1>7

\* What a save accepts (PayloadFitsTheWire), of one submission.
Accepted(p) ==
    /\ Len(p.agents) \in 1..MAX_RUN_AGENTS
    /\ Len(p.recommendations) <= MAX_RECOMMENDATIONS
    /\ Len(p.analysisSummary) <= MAX_ANALYSIS_SUMMARIES
    /\ Len(p.analysisRecords) <= MAX_ANALYSIS_RECORDS
    /\ \A j \in DOMAIN p.agents : AcceptedRow(p.agents[j])
    /\ \A j \in DOMAIN p.recommendations :
          isMarker(p.recommendations[j]) \/ AcceptedRecommendation(p.recommendations[j])
    /\ \A j \in DOMAIN p.analysisSummary : AcceptedSummary(p.analysisSummary[j])
    /\ \A j, k \in DOMAIN p.analysisRecords :
          /\ Len(p.analysisRecords[j].recordId) <= RECORD_ID_MAX_LENGTH
          /\ p.analysisRecords[j].data # "over"
          /\ keyOf(p.analysisRecords[j]) = keyOf(p.analysisRecords[k]) => j = k
    /\ \/ (p.analysisSummary = <<>> /\ p.analysisRecords = <<>>)
       \/ payloadWeight(p.agents, p.recommendations, p.analysisSummary, p.analysisRecords)
             <= MAX_PAYLOAD + 1
    /\ p.averageScore = Absent \/ p.averageScore \in 0..200

LEMMA OneIsAccepted ==
  ASSUME NEW r, ResultShape(r), PanelFits(r), NEW tally1
  PROVE  Accepted(transformToOpsInput(r, tally1).input)
  <1> DEFINE p == transformToOpsInput(r, tally1).input
             told == transformToOpsInput(r, tally1).truncated
             rows == extractAgents(r)
             children == analysisChildren(r)
             summaries == capped(Mapped(children, LAMBDA a : repairSummary(a.analysis.summary)),
                                 MAX_ANALYSIS_SUMMARIES)
             all == FlattenSeq(Mapped(children,
                       LAMBDA a : Mapped(a.analysis.records, repairRecord)))
             records == guardRecordKeys(capped(all, MAX_ANALYSIS_RECORDS))
             recs == capped(Mapped(r.recommendations, sanitized), MAX_RECOMMENDATIONS)
             out == marked(recs, told, Len(Mapped(r.recommendations, sanitized)))
             kept == enforcePayloadBudget(rows, recs, summaries, records)
             s == SubSeq(summaries, 1, kept.summaries)
             l == SubSeq(records, 1, kept.records)
  <1>1. /\ p.agents = rows /\ p.recommendations = out
        /\ p.analysisSummary = s /\ p.analysisRecords = l
        /\ p.averageScore = averageScore(r)
    BY SubmissionParts
  <1>2. RowList(rows) /\ Len(rows) \in 1..MAX_RUN_AGENTS
    BY RowsAreAccepted
  <1>3. /\ isList(recs) /\ Len(recs) \in Nat /\ Len(recs) <= MAX_RECOMMENDATIONS
        /\ \A i \in 1..Len(recs) : AcceptedRecommendation(recs[i])
    BY RecommendationsAreAccepted
  <1>4. AgentsShape(children)
    BY AnalysisChildrenList
  <1> HIDE DEF children
  <1>5. /\ isList(summaries) /\ Len(summaries) \in Nat
        /\ Len(summaries) <= MAX_ANALYSIS_SUMMARIES
        /\ \A i \in 1..Len(summaries) : AcceptedSummary(summaries[i])
    BY <1>4, SummariesAreAccepted
  <1>6. RecordList(all)
    BY <1>4, RecordsAreShaped
  <1> HIDE DEF all
  <1>7. RecordsFit(records) /\ Len(records) \in Nat /\ Len(records) <= MAX_ANALYSIS_RECORDS
    BY <1>6, GuardedRecordsFit
  <1> HIDE DEF p, told, rows, recs, summaries, records
  <1>8. /\ isList(out) /\ Len(out) \in Nat
        /\ Len(out) <= MAX_RECOMMENDATIONS /\ Len(out) <= Len(recs) + 1
        /\ \A i \in DOMAIN out : isMarker(out[i]) \/ AcceptedRecommendation(out[i])
    BY <1>3, MarkedAreAccepted
  <1> HIDE DEF out
  <1>9. isList(records)
    BY <1>7 DEF RecordsFit
  <1>10. kept.summaries \in 0..Len(summaries) /\ kept.records \in 0..Len(records)
    BY <1>5, <1>9, BudgetKeepsSome
  <1>11. (s = <<>> /\ l = <<>>) \/ payloadWeight(rows, recs, s, l) <= MAX_PAYLOAD
    BY <1>5, <1>9, BudgetFits
  <1> HIDE DEF kept
  <1>12. /\ isList(s) /\ Len(s) = kept.summaries
         /\ \A i \in 1..kept.summaries : s[i] = summaries[i]
    BY <1>5, <1>10, SubList
  <1>13. /\ isList(l) /\ Len(l) = kept.records
         /\ \A i \in 1..kept.records : l[i] = records[i]
    BY <1>9, <1>10, SubList
  <1> HIDE DEF s, l
  <1>14. DOMAIN s = 1..kept.summaries /\ DOMAIN l = 1..kept.records
    BY <1>12, <1>13, ListBasics
  <1>15. MAX_ANALYSIS_SUMMARIES \in Nat /\ MAX_ANALYSIS_RECORDS \in Nat
    BY CeilingsAssumption
  <1>16. /\ Len(s) <= MAX_ANALYSIS_SUMMARIES /\ Len(l) <= MAX_ANALYSIS_RECORDS
         /\ 1..kept.summaries \subseteq 1..Len(summaries)
         /\ 1..kept.records \subseteq 1..Len(records)
    BY <1>5, <1>7, <1>10, <1>12, <1>13, <1>15
  <1>17. \A j \in DOMAIN s : AcceptedSummary(s[j])
    BY <1>5, <1>12, <1>14, <1>16
  <1>18. ASSUME NEW j \in DOMAIN l, NEW k \in DOMAIN l
         PROVE  /\ Len(l[j].recordId) <= RECORD_ID_MAX_LENGTH
                /\ l[j].data # "over"
                /\ keyOf(l[j]) = keyOf(l[k]) => j = k
    <2>1. l[j] = records[j] /\ l[k] = records[k] /\ j \in 1..Len(records) /\ k \in 1..Len(records)
      BY <1>13, <1>14, <1>16
    <2> QED
      BY <1>7, <2>1 DEF RecordsFit, RecordShape
  <1>19. (s = <<>> /\ l = <<>>) \/ payloadWeight(rows, out, s, l) <= MAX_PAYLOAD + 1
    <2>1. Len(rows) \in Nat
      BY <1>2
    <2> QED
      BY <1>3, <1>8, <1>11, <1>12, <1>13, <2>1, MarkerIsLight
  <1>20. \A j \in DOMAIN rows : AcceptedRow(rows[j])
    BY <1>2 DEF RowList, Range
  <1>21. averageScore(r) = Absent \/ averageScore(r) \in 0..200
    BY ScoresAreClamped DEF averageScore, clampAverageScore
  <1>22. Accepted(p)
    BY <1>1, <1>2, <1>8, <1>16, <1>17, <1>18, <1>19, <1>20, <1>21 DEF Accepted
  <1> QED
    BY <1>22 DEF p

-----------------------------------------------------------------------------
(* The counts of a submission. *)

\* The submission does not depend on what the client had counted before.
LEMMA CountedAfresh ==
  ASSUME NEW r, NEW tally1, NEW tally2
  PROVE  transformToOpsInput(r, tally1) = transformToOpsInput(r, tally2)
  BY DEF transformToOpsInput, freshTally

\* Its counts are numbers.
LEMMA CountsType ==
  ASSUME NEW r, ResultShape(r), NEW tally1
  PROVE  LET told == transformToOpsInput(r, tally1).truncated
         IN  DOMAIN told = DOMAIN emptyTally /\ \A f \in DOMAIN told : told[f] \in Nat
  <1> DEFINE told == transformToOpsInput(r, tally1).truncated
             children == analysisChildren(r)
             summaries == Mapped(children, LAMBDA a : repairSummary(a.analysis.summary))
             records == FlattenSeq(Mapped(children,
                          LAMBDA a : Mapped(a.analysis.records, repairRecord)))
             allRecs == Mapped(r.recommendations, sanitized)
             recs == capped(allRecs, MAX_RECOMMENDATIONS)
             someSummaries == capped(summaries, MAX_ANALYSIS_SUMMARIES)
             someRecords == guardRecordKeys(capped(records, MAX_ANALYSIS_RECORDS))
             kept == enforcePayloadBudget(extractAgents(r), recs, someSummaries, someRecords)
  <1>1. /\ DOMAIN told = DOMAIN emptyTally
        /\ told.agents = 0 + droppedAgents(r)
        /\ told.recommendations = 0 + overflow(allRecs, MAX_RECOMMENDATIONS)
        /\ told.analysisRecords = 0 + Len(records) - kept.records
        /\ told.analysisSummaries = 0 + Len(summaries) - kept.summaries
    BY SubmissionParts
  <1>2. /\ Len(summaries) = Len(children) /\ Len(children) \in Nat
        /\ Len(records) = recordCount(r) /\ recordCount(r) \in Nat
        /\ kept.summaries \in 0..Len(children) /\ kept.records \in 0..recordCount(r)
    BY AnalysisCounted
  <1>3. overflow(allRecs, MAX_RECOMMENDATIONS) \in Nat /\ droppedAgents(r) \in Nat
    BY RecommendationsRepaired, RowsAreCounted
  <1> HIDE DEF told, children, summaries, records, allRecs, recs, someSummaries,
               someRecords, kept
  <1>4. /\ told.agents \in Nat /\ told.recommendations \in Nat
        /\ told.analysisRecords \in Nat /\ told.analysisSummaries \in Nat
    BY <1>1, <1>2, <1>3
  <1>5. DOMAIN emptyTally = {"agents", "recommendations", "analysisRecords", "analysisSummaries"}
    BY DEF emptyTally
  <1> QED
    BY <1>1, <1>4, <1>5 DEF told

-----------------------------------------------------------------------------
(* The executions of a call, and what its submission is made of.           *)

LEMMA ConcatList ==
  ASSUME NEW s, isList(s), NEW t, isList(t)
  PROVE  isList(s \o t)
  <1> DEFINE E == Range(s) \union Range(t)
  <1>1. \A l : isList(l) /\ Range(l) \subseteq E => l \in Seq(E)
    <2> HIDE DEF E
    <2> TAKE l
    <2> HAVE isList(l) /\ Range(l) \subseteq E
    <2>1. /\ Len(l) \in Nat /\ l = [i \in 1..Len(l) |-> l[i]]
          /\ \A i \in 1..Len(l) : l[i] \in Range(l)
      BY ListBasics
    <2>2. l \in [1..Len(l) -> E]
      BY <2>1
    <2> QED
      BY <2>1, <2>2, ListOf
  <1>2. Range(s) \subseteq E /\ Range(t) \subseteq E
    OBVIOUS
  <1> HIDE DEF E
  <1>3. s \o t \in Seq(E)
    BY <1>1, <1>2, ConcatProperties
  <1> QED
    BY <1>3, SeqIsList

\* A result that is saved has the shape of one, be it of a run that threw.
LEMMA TrackedShape ==
  ASSUME NEW c \in Callers, NEW j \in Jobs[c], j.throws = "no" \/ trackThrownRun(j)
  PROVE  ResultShape(trackedResult(j))
  <1>1. CASE j.throws = "no"
    BY <1>1, JobsAssumption DEF trackedResult
  <1>2. CASE j.throws # "no"
    <2> DEFINE r == crashResult(j)
               rec == [title |-> "long", agent |-> "absent", priority |-> "member",
                       severity |-> "member", failureCode |-> "member"]
    <2>1. /\ r.type = "agent" /\ r.recommendations = <<rec>>
          /\ r.analysis.records = <<>> /\ r.analysis.summary = j.result.analysis.summary
      BY DEF crashResult
    <2>2. RecommendationShape(rec)
      BY DEF RecommendationShape
    <2> HIDE DEF r, rec
    <2>3. isList(<<rec>>) /\ DOMAIN <<rec>> = {1} /\ <<rec>>[1] = rec
      BY SingletonList
    <2>4. Range(<<rec>>) = {rec}
      BY <2>3 DEF Range
    <2>5. SummaryShape(r.analysis.summary)
      BY <1>2, <2>1, JobsAssumption DEF trackThrownRun, hasBilledMetrics, AgentShape
    <2>6. AgentShape(r)
      <3>1. Range(<<>>) = {}
        BY DEF Range
      <3> QED
        BY <2>1, <2>5, <3>1, ListBasics DEF AgentShape
    <2>7. ResultShape(r)
      BY <2>1, <2>2, <2>3, <2>4, <2>6 DEF ResultShape
    <2> QED
      BY <1>2, <2>7 DEF trackedResult, r
  <1> QED
    BY <1>1, <1>2

LEMMA ExecutionsList ==
  ASSUME NEW j, ResultShape(trackedResult(j))
  PROVE  isList(executionsOf(j))
  <1> DEFINE rows == extractAgents(trackedResult(j))
             t == [i \in DOMAIN rows |->
                     IF rows[i].definitionVersion # Absent THEN <<rows[i]>> ELSE <<>>]
             agents == FlattenSeq(t)
             own == <<[kind |-> j.resolved.type, name |-> j.resolved.name]>>
             theirs == Mapped(agents, LAMBDA row : [kind |-> "agent", name |-> row.name])
  <1>1. executionsOf(j) = IF j.resolved.version = "unknown" THEN <<>>
                          ELSE own \o IF j.resolved.type = "agent" THEN <<>> ELSE theirs
    BY DEF executionsOf, chosen, Mapped
  <1>2. isList(rows)
    BY RowsAreCounted
  <1>3. isList(own)
    BY SingletonList
  <1> HIDE DEF rows, own
  <1>4. isList(agents)
    BY <1>2, PassedList
  <1> HIDE DEF agents
  <1>5. isList(theirs)
    BY <1>4, MappedList DEF Mapped
  <1> HIDE DEF theirs
  <1>6. isList(own \o theirs) /\ isList(own \o <<>>) /\ isList(<<>>)
    BY <1>3, <1>5, ConcatList, ListBasics
  <1> QED
    BY <1>1, <1>6

LEMMA ProjectKnown ==
  ASSUME NEW c \in Callers, NEW j \in Jobs[c], config \in Configs
  PROVE  projectOf(j) \in Projects
  <1>1. j \in UNION {Jobs[d] : d \in Callers}
    OBVIOUS
  <1>2. {j.project, j.target, j.resolved.name} \subseteq Projects
    BY <1>1 DEF Projects
  <1>3. config.defaultProject \in Projects
    BY DEF Projects
  <1> QED
    BY <1>2, <1>3 DEF projectOf

-----------------------------------------------------------------------------
(***************************************************************************)
(* The invariant of the calls that save what they ran: how far each has    *)
(* come, what it wrote on its result, and what the tracker and the         *)
(* registry have of it.                                                    *)
(***************************************************************************)

\* Whose result may be saved, and what the submission of it is.
Tracked(c) == job[c].throws = "no" \/ trackThrownRun(job[c])
made(c) == transformToOpsInput(trackedResult(job[c]), emptyTally)

\* The id an execution of the call is recorded under.
Recorded(c, runId) ==
    IF config.trackingEnabled
    THEN fields[c].trackedRun # Absent /\ fields[c].trackedRun.runId = runId
    ELSE runId = Local

\* One call: it has written nothing until it was answered, it sent what its
\* result makes, and what it wrote is of its own run.
CallInv(c) ==
    /\ IF pc[c] = "idle" THEN job[c] = Absent ELSE job[c] \in Jobs[c]
    /\ pc[c] \in {"idle", "running", "saving"} =>
          fields[c] = NoFields /\ \A i \in DOMAIN tracker : tracker[i].by # c
    /\ pc[c] = "saving" =>
          /\ Tracked(c) /\ config.trackingEnabled
          /\ inflight[c] = [project |-> projectOf(job[c]), input |-> made(c).input,
                            repairedRecommendations |-> made(c).repairedRecommendations,
                            truncated |-> made(c).truncated]

ResultInv(c) ==
    /\ DOMAIN fields[c] = DOMAIN NoFields
    /\ fields[c].trackingFailed \in BOOLEAN
    /\ fields[c].submissionTruncated # Absent =>
          pc[c] # "idle" /\ Tracked(c) /\ fields[c].submissionTruncated = made(c).truncated
    /\ fields[c].trackedRun # Absent =>
          /\ fields[c].trackedRun.runId \in DOMAIN tracker
          /\ tracker[fields[c].trackedRun.runId].by = c
          /\ tracker[fields[c].trackedRun.runId].project = fields[c].trackedRun.project
          /\ fields[c].dashboardUrl
    /\ fields[c].trackingFailed =>
          /\ fields[c].trackedRun = Absent /\ ~fields[c].dashboardUrl
          /\ fields[c].submissionTruncated = Absent

PendingInv(c) ==
    /\ isList(pending[c]) /\ (pc[c] = "recording" <=> pending[c] # <<>>)
    /\ \A k \in DOMAIN pending[c] :
          /\ pending[c][k].by = c /\ pending[c][k].runId \in Nat
          /\ Recorded(c, pending[c][k].runId)

\* The runs saved: one of a call, made from its result.
TrackerInv ==
    /\ isList(tracker)
    /\ \A i \in DOMAIN tracker :
          /\ tracker[i].by \in Callers /\ Tracked(tracker[i].by)
          /\ tracker[i].input = made(tracker[i].by).input
    /\ \A i, j \in DOMAIN tracker : tracker[i].by = tracker[j].by => i = j

RecordsInv ==
    \A e \in registry : e.by \in Callers /\ e.runId \in Nat /\ Recorded(e.by, e.runId)

TallyInv == DOMAIN tally = DOMAIN emptyTally /\ \A f \in DOMAIN tally : tally[f] \in Nat

VarsInv ==
    /\ config \in Configs
    /\ pc \in [Callers -> {"idle", "running", "saving", "recording", "returned", "threw"}]
    /\ DOMAIN job = Callers /\ DOMAIN inflight = Callers
    /\ DOMAIN fields = Callers /\ DOMAIN pending = Callers

TrackingIInv ==
    /\ VarsInv /\ TallyInv /\ TrackerInv /\ RecordsInv
    /\ \A c \in Callers : CallInv(c) /\ ResultInv(c) /\ PendingInv(c)

LEMMA TrackingInitially == Init => TrackingIInv
  <1> SUFFICES ASSUME Init PROVE TrackingIInv
    OBVIOUS
  <1> USE DEF Init
  <1>1. VarsInv
    BY DEF VarsInv
  <1>2. TallyInv
    BY DEF TallyInv, emptyTally
  <1>3. DOMAIN <<>> = {}
    OBVIOUS
  <1>4. TrackerInv /\ RecordsInv
    BY <1>3, ListBasics DEF TrackerInv, RecordsInv
  <1>5. ASSUME NEW c \in Callers PROVE CallInv(c) /\ ResultInv(c) /\ PendingInv(c)
    <2>1. pc[c] = "idle" /\ job[c] = Absent /\ fields[c] = NoFields /\ pending[c] = <<>>
      OBVIOUS
    <2>2. tracker = <<>>
      OBVIOUS
    <2>3. CallInv(c)
      BY <1>3, <2>1, <2>2 DEF CallInv
    <2>4. ResultInv(c)
      BY <2>1 DEF ResultInv, NoFields
    <2>5. PendingInv(c)
      BY <1>3, <2>1, ListBasics DEF PendingInv
    <2> QED
      BY <2>3, <2>4, <2>5
  <1> QED
    BY <1>1, <1>2, <1>4, <1>5 DEF TrackingIInv

\* A call none of whose state changes keeps its part, when the tracker only
\* gains runs of another.
LEMMA OtherKeeps ==
  ASSUME NEW c \in Callers, NEW d \in Callers, c # d,
         CallInv(d), ResultInv(d), PendingInv(d), config' = config,
         job'[d] = job[d], pc'[d] = pc[d], inflight'[d] = inflight[d],
         fields'[d] = fields[d], pending'[d] = pending[d],
         \A i \in DOMAIN tracker : i \in DOMAIN tracker' /\ tracker'[i] = tracker[i],
         \A i \in DOMAIN tracker' : i \in DOMAIN tracker \/ tracker'[i].by = c
  PROVE  CallInv(d)' /\ ResultInv(d)' /\ PendingInv(d)'
  <1>1. (made(d)') = made(d) /\ (Tracked(d)' <=> Tracked(d)) /\ (projectOf(job[d])') = projectOf(job[d])
    BY DEF made, Tracked, projectOf
  <1>2. \A x : Recorded(d, x)' <=> Recorded(d, x)
    BY DEF Recorded
  <1>3. CallInv(d)'
    BY <1>1 DEF CallInv
  <1>4. ResultInv(d)'
    BY <1>1 DEF ResultInv
  <1>5. PendingInv(d)'
    BY <1>2 DEF PendingInv
  <1> QED
    BY <1>3, <1>4, <1>5

\* The runs saved stay as they were made, while the jobs of their callers do.
LEMMA RunsKept ==
  ASSUME TrackerInv, tracker' = tracker,
         \A i \in DOMAIN tracker : job'[tracker[i].by] = job[tracker[i].by]
  PROVE  TrackerInv'
  <1>1. ASSUME NEW i \in DOMAIN tracker
        PROVE  /\ tracker[i].by \in Callers
               /\ Tracked(tracker[i].by)' /\ tracker[i].input = (made(tracker[i].by)').input
    BY DEF TrackerInv, Tracked, made
  <1> QED
    BY <1>1 DEF TrackerInv, Tracked, made

LEMMA RunSaved ==
  ASSUME TrackingIInv, NEW c \in Callers, pc[c] = "saving", job' = job, NEW run,
         run = [by |-> c, project |-> inflight[c].project, input |-> inflight[c].input],
         tracker' = Append(tracker, run)
  PROVE  /\ TrackerInv'
         /\ Len(tracker') = Len(tracker) + 1 /\ Len(tracker') \in DOMAIN tracker'
         /\ tracker'[Len(tracker')] = run
         /\ \A i \in DOMAIN tracker : i \in DOMAIN tracker' /\ tracker'[i] = tracker[i]
         /\ \A i \in DOMAIN tracker' : i \in DOMAIN tracker \/ tracker'[i].by = c
  <1>1. TrackerInv /\ CallInv(c)
    BY DEF TrackingIInv
  <1>2. Len(tracker) \in Nat /\ DOMAIN tracker = 1..Len(tracker)
    BY <1>1, ListBasics DEF TrackerInv
  <1>3. /\ isList(tracker') /\ Len(tracker') = Len(tracker) + 1
        /\ \A i \in 1..Len(tracker) : tracker'[i] = tracker[i]
        /\ tracker'[Len(tracker) + 1] = run
    BY <1>1, AppendList DEF TrackerInv
  <1>4. DOMAIN tracker' = 1..(Len(tracker) + 1)
    BY <1>3, ListBasics
  <1>5. \A i \in DOMAIN tracker : i \in DOMAIN tracker' /\ tracker'[i] = tracker[i]
    BY <1>2, <1>3, <1>4
  <1>6. \A i \in DOMAIN tracker' : i \in DOMAIN tracker \/ i = Len(tracker) + 1
    BY <1>2, <1>4
  <1>7. Len(tracker) + 1 \in DOMAIN tracker'
    BY <1>2, <1>4
  <1>8. run.by = c /\ Tracked(c) /\ run.input = made(c).input
    BY <1>1 DEF CallInv
  <1>9. \A i \in DOMAIN tracker : tracker[i].by # c
    BY <1>1 DEF CallInv
  <1>10. \A d : (made(d)') = made(d) /\ (Tracked(d)' <=> Tracked(d))
    BY DEF made, Tracked
  <1>11. ASSUME NEW i \in DOMAIN tracker'
         PROVE  /\ tracker'[i].by \in Callers /\ Tracked(tracker'[i].by)
                /\ tracker'[i].input = made(tracker'[i].by).input
    <2>1. CASE i \in DOMAIN tracker
      BY <1>1, <1>5, <2>1 DEF TrackerInv
    <2>2. CASE i = Len(tracker) + 1
      BY <1>3, <1>8, <2>2
    <2> QED
      BY <1>6, <2>1, <2>2
  <1>12. ASSUME NEW i \in DOMAIN tracker', NEW k \in DOMAIN tracker',
                tracker'[i].by = tracker'[k].by
         PROVE  i = k
    <2>1. CASE i \in DOMAIN tracker /\ k \in DOMAIN tracker
      BY <1>1, <1>5, <1>12, <2>1 DEF TrackerInv
    <2>2. CASE i = Len(tracker) + 1 \/ k = Len(tracker) + 1
      BY <1>3, <1>5, <1>6, <1>8, <1>9, <1>12, <2>2
    <2> QED
      BY <1>6, <2>1, <2>2
  <1>13. TrackerInv'
    BY <1>3, <1>10, <1>11, <1>12 DEF TrackerInv
  <1> QED
    BY <1>3, <1>5, <1>6, <1>7, <1>8, <1>13

\* The executions recorded stay true of their callers' results.
LEMMA RecordsKept ==
  ASSUME RecordsInv, registry' = registry, config' = config,
         \A d \in Callers : fields'[d] = fields[d] \/ fields[d] = NoFields
  PROVE  RecordsInv'
  <1>1. ASSUME NEW e \in registry PROVE Recorded(e.by, e.runId)'
    <2>1. e.by \in Callers /\ Recorded(e.by, e.runId)
      BY DEF RecordsInv
    <2>2. CASE config.trackingEnabled
      <3>1. fields[e.by].trackedRun # Absent
        BY <2>1, <2>2 DEF Recorded
      <3>2. fields[e.by] # NoFields
        BY <3>1 DEF NoFields
      <3> QED
        BY <2>1, <2>2, <3>2 DEF Recorded
    <2>3. CASE ~config.trackingEnabled
      BY <2>1, <2>3 DEF Recorded
    <2> QED
      BY <2>2, <2>3
  <1> QED
    BY <1>1 DEF RecordsInv

LEMMA CallKeeps ==
  ASSUME TrackingIInv, NEW c \in Callers, Call(c)
  PROVE  TrackingIInv'
  <1> USE DEF Call, outside
  <1>1. VarsInv /\ TallyInv /\ TrackerInv /\ RecordsInv /\ CallInv(c) /\ ResultInv(c) /\ PendingInv(c)
    BY DEF TrackingIInv
  <1>2. PICK j \in Jobs[c] : job' = [job EXCEPT ![c] = j]
    OBVIOUS
  <1>3. /\ job'[c] = j /\ \A d \in Callers \ {c} : job'[d] = job[d] /\ pc'[d] = pc[d]
        /\ pc[c] = "idle" /\ pc'[c] = "running"
    BY <1>1, <1>2 DEF VarsInv
  <1>4. VarsInv'
    BY <1>1, <1>2 DEF VarsInv
  <1>5. TallyInv'
    BY <1>1 DEF TallyInv
  <1>6. fields[c] = NoFields /\ \A i \in DOMAIN tracker : tracker[i].by # c
    BY <1>1, <1>3 DEF CallInv
  <1>7. TrackerInv'
    <2>1. \A i \in DOMAIN tracker : job'[tracker[i].by] = job[tracker[i].by]
      BY <1>1, <1>3, <1>6 DEF TrackerInv
    <2> QED
      BY <1>1, <2>1, RunsKept
  <1>8. RecordsInv'
    BY <1>1, RecordsKept
  <1>9. CallInv(c)' /\ ResultInv(c)' /\ PendingInv(c)'
    <2>1. CallInv(c)'
      BY <1>3, <1>6 DEF CallInv
    <2>2. ResultInv(c)'
      BY <1>1, <1>6 DEF ResultInv, NoFields
    <2>3. PendingInv(c)'
      BY <1>1, <1>3 DEF PendingInv, Recorded
    <2> QED
      BY <2>1, <2>2, <2>3
  <1>10. ASSUME NEW d \in Callers \ {c} PROVE CallInv(d)' /\ ResultInv(d)' /\ PendingInv(d)'
    <2>1. CallInv(d) /\ ResultInv(d) /\ PendingInv(d)
      BY DEF TrackingIInv
    <2> QED
      BY <1>3, <2>1, OtherKeeps
  <1> QED
    BY <1>4, <1>5, <1>7, <1>8, <1>9, <1>10 DEF TrackingIInv

LEMMA EndUntrackedKeeps ==
  ASSUME TrackingIInv, NEW c \in Callers, EndUntracked(c)
  PROVE  TrackingIInv'
  <1> USE DEF EndUntracked, outside
  <1>1. VarsInv /\ TallyInv /\ TrackerInv /\ RecordsInv /\ CallInv(c) /\ ResultInv(c) /\ PendingInv(c)
    BY DEF TrackingIInv
  <1>2. pc' = [pc EXCEPT ![c] = pc'[c]] /\ pc'[c] \in {"returned", "threw"} /\ pc[c] = "running"
    BY <1>1 DEF VarsInv, outcome
  <1>3. \A d \in Callers \ {c} : pc'[d] = pc[d]
    BY <1>1, <1>2 DEF VarsInv
  <1>4. VarsInv' /\ TallyInv'
    BY <1>1, <1>2 DEF VarsInv, TallyInv
  <1>5. TrackerInv' /\ RecordsInv'
    BY <1>1, RunsKept, RecordsKept
  <1>6. CallInv(c)' /\ ResultInv(c)' /\ PendingInv(c)'
    <2>1. CallInv(c)'
      BY <1>1, <1>2 DEF CallInv
    <2>2. fields[c] = NoFields
      BY <1>1, <1>2 DEF CallInv
    <2>3. ResultInv(c)'
      BY <1>1, <2>2 DEF ResultInv, NoFields
    <2>4. PendingInv(c)'
      BY <1>1, <1>2 DEF PendingInv, Recorded
    <2> QED
      BY <2>1, <2>3, <2>4
  <1>7. ASSUME NEW d \in Callers \ {c} PROVE CallInv(d)' /\ ResultInv(d)' /\ PendingInv(d)'
    <2>1. CallInv(d) /\ ResultInv(d) /\ PendingInv(d)
      BY DEF TrackingIInv
    <2> QED
      BY <1>3, <2>1, OtherKeeps
  <1> QED
    BY <1>4, <1>5, <1>6, <1>7 DEF TrackingIInv

\* What a response writes is of the run it names, and nothing is written on
\* another's result.
LEMMA MirrorKeeps ==
  ASSUME TrackingIInv, NEW c \in Callers, job[c] \in Jobs[c], Tracked(c), fields[c] = NoFields,
         NEW response, NEW counted, Mirror(c, response, counted),
         response.truncated = made(c).truncated, response.runId \in Nat,
         DOMAIN counted = DOMAIN emptyTally, \A f \in DOMAIN counted : counted[f] \in Nat,
         config' = config, job' = job,
         response.runId = Local => ~config.trackingEnabled,
         response.runId # Local =>
            /\ config.trackingEnabled /\ response.runId \in DOMAIN tracker'
            /\ tracker'[response.runId].by = c
            /\ tracker'[response.runId].project = inflight'[c].project
            /\ inflight'[c].project \in Projects
  PROVE  /\ CallInv(c)' /\ ResultInv(c)' /\ PendingInv(c)' /\ TallyInv'
         /\ \A d \in Callers \ {c} :
               pc'[d] = pc[d] /\ fields'[d] = fields[d] /\ pending'[d] = pending[d]
         /\ pc' \in [Callers -> {"idle", "running", "saving", "recording", "returned", "threw"}]
         /\ DOMAIN fields' = Callers /\ DOMAIN pending' = Callers
  <1> DEFINE executions == executionsOf(job[c])
             drops == IF executions # <<>> /\ job[c].resolved.type # "agent"
                      THEN droppedAgents(trackedResult(job[c])) ELSE 0
             written == [NoFields EXCEPT
                           !.dashboardUrl = response.runId # Local,
                           !.repairedRecommendations = response.repairedRecommendations,
                           !.submissionTruncated = response.truncated,
                           !.analysisRejected = response.analysisRejected,
                           !.trackedRun = trackedRun(response.runId, inflight'[c].project)]
             queued == Mapped(executions, LAMBDA e : [kind |-> e.kind, name |-> e.name,
                                                     runId |-> response.runId, by |-> c])
             next == IF executions = <<>> THEN outcome(c) ELSE "recording"
  <1>1. VarsInv
    BY DEF TrackingIInv
  <1>2. /\ fields' = [fields EXCEPT ![c] = written]
        /\ pending' = [pending EXCEPT ![c] = queued]
        /\ pc' = [pc EXCEPT ![c] = next]
        /\ tally' = [counted EXCEPT !.agents = @ + drops]
    BY <1>1 DEF Mirror, VarsInv
  <1>3. next \in {"returned", "threw", "recording"} /\ (next = "recording" <=> executions # <<>>)
    BY DEF outcome
  <1>4. ResultShape(trackedResult(job[c]))
    BY TrackedShape DEF Tracked
  <1>5. isList(executions)
    BY <1>4, ExecutionsList
  <1>6. drops \in Nat
    BY <1>4, RowsAreCounted
  <1>7. written.trackedRun = trackedRun(response.runId, inflight'[c].project)
    BY DEF NoFields
  <1>8. /\ written.dashboardUrl = (response.runId # Local)
        /\ written.submissionTruncated = made(c).truncated
        /\ written.trackingFailed = FALSE /\ DOMAIN written = DOMAIN NoFields
    BY DEF NoFields
  <1>9. IF response.runId = Local THEN written.trackedRun = Absent
        ELSE /\ written.trackedRun # Absent /\ written.trackedRun.runId = response.runId
             /\ written.trackedRun.project = inflight'[c].project
    <2>1. CASE response.runId = Local
      BY <1>7, <2>1 DEF trackedRun
    <2>2. CASE response.runId # Local
      <3>1. written.trackedRun = [runId |-> response.runId, project |-> inflight'[c].project]
        BY <1>7, <2>2 DEF trackedRun
      <3>2. [runId |-> response.runId, project |-> inflight'[c].project] \in [runId : Nat, project : Projects]
        BY <2>2
      <3> HIDE DEF written
      <3> QED
        BY <2>2, <3>1, <3>2, RunsAssumption
    <2> QED
      BY <2>1, <2>2
  <1>10. /\ isList(queued) /\ (queued = <<>> <=> executions = <<>>)
         /\ \A k \in DOMAIN queued : queued[k].by = c /\ queued[k].runId = response.runId
    <2> HIDE DEF executions
    <2>1. isList(queued) /\ Len(queued) = Len(executions) /\ DOMAIN queued = DOMAIN executions
      BY <1>5, MappedList DEF Mapped
    <2>2. \A k \in DOMAIN queued : queued[k].by = c /\ queued[k].runId = response.runId
      BY <2>1 DEF Mapped
    <2> HIDE DEF queued
    <2> QED
      BY <1>5, <2>1, <2>2, ListBasics
  <1> HIDE DEF executions, drops, written, queued, next
  <1>11. /\ fields'[c] = written /\ pending'[c] = queued /\ pc'[c] = next
         /\ \A d \in Callers \ {c} :
               pc'[d] = pc[d] /\ fields'[d] = fields[d] /\ pending'[d] = pending[d]
         /\ DOMAIN fields' = Callers /\ DOMAIN pending' = Callers
         /\ pc' \in [Callers -> {"idle", "running", "saving", "recording", "returned", "threw"}]
    BY <1>1, <1>2, <1>3 DEF VarsInv
  <1>12. (made(c)') = made(c) /\ Tracked(c)'
    BY DEF made, Tracked
  <1>13. CallInv(c)'
    BY <1>3, <1>11 DEF CallInv
  <1>14. ResultInv(c)'
    <2>1. fields'[c].submissionTruncated = (made(c)').truncated /\ pc'[c] # "idle"
      BY <1>3, <1>8, <1>11, <1>12
    <2> QED
      BY <1>8, <1>9, <1>11, <1>12, <2>1 DEF ResultInv
  <1>15. PendingInv(c)'
    <2>1. Recorded(c, response.runId)'
      BY <1>9, <1>11 DEF Recorded
    <2>2. ASSUME NEW k \in DOMAIN pending'[c]
          PROVE  /\ pending'[c][k].by = c /\ pending'[c][k].runId \in Nat
                 /\ Recorded(c, pending[c][k].runId)'
      <3>1. pending'[c][k].by = c /\ pending'[c][k].runId = response.runId
        BY <1>10, <1>11
      <3> QED
        BY <2>1, <3>1 DEF Recorded
    <2>3. isList(pending'[c]) /\ (pc'[c] = "recording" <=> pending'[c] # <<>>)
      BY <1>3, <1>10, <1>11
    <2> QED
      BY <2>2, <2>3 DEF PendingInv
  <1>16. TallyInv'
    <2>1. DOMAIN counted = {"agents", "recommendations", "analysisRecords", "analysisSummaries"}
      BY DEF emptyTally
    <2>2. counted.agents + drops \in Nat
      BY <1>6, <2>1
    <2>3. DOMAIN tally' = DOMAIN counted /\ \A f \in DOMAIN counted : tally'[f] \in Nat
      BY <1>2, <2>1, <2>2
    <2> QED
      BY <2>3 DEF TallyInv
  <1> QED
    BY <1>11, <1>13, <1>14, <1>15, <1>16

LEMMA SubmitKeeps ==
  ASSUME TrackingIInv, NEW c \in Callers, Submit(c)
  PROVE  TrackingIInv'
  <1> DEFINE j == job[c]
             sub == transformToOpsInput(trackedResult(j), tally)
             sent == [project |-> projectOf(j), input |-> sub.input,
                      repairedRecommendations |-> sub.repairedRecommendations,
                      truncated |-> sub.truncated]
             response == [runId |-> Local,
                          repairedRecommendations |-> sub.repairedRecommendations,
                          truncated |-> sub.truncated, analysisRejected |-> Absent]
  <1>1. VarsInv /\ TallyInv /\ TrackerInv /\ RecordsInv /\ CallInv(c) /\ ResultInv(c) /\ PendingInv(c)
    BY DEF TrackingIInv
  <1>2. sub = made(c)
    BY CountedAfresh DEF made
  <1>3. /\ pc[c] = "running" /\ Tracked(c)
        /\ inflight' = [inflight EXCEPT ![c] = sent]
        /\ UNCHANGED <<config, job, tracker, registry>>
    BY DEF Submit, Tracked
  <1>4. /\ config.trackingEnabled => /\ pc' = [pc EXCEPT ![c] = "saving"] /\ tally' = sub.truncated
                                     /\ UNCHANGED <<fields, pending>>
        /\ ~config.trackingEnabled => Mirror(c, response, sub.truncated)
    BY DEF Submit
  <1>5. DOMAIN sub.truncated = DOMAIN emptyTally /\ \A f \in DOMAIN sub.truncated : sub.truncated[f] \in Nat
    <2>1. ResultShape(trackedResult(j))
      BY <1>1, <1>3, TrackedShape DEF CallInv, Tracked
    <2> QED
      BY <2>1, CountsType
  <1> HIDE DEF sub
  <1>6. /\ DOMAIN inflight' = Callers /\ inflight'[c] = sent
        /\ \A d \in Callers \ {c} : inflight'[d] = inflight[d]
    BY <1>1, <1>3 DEF VarsInv
  <1>7. /\ job[c] \in Jobs[c] /\ fields[c] = NoFields /\ \A i \in DOMAIN tracker : tracker[i].by # c
    BY <1>1, <1>3 DEF CallInv
  <1>8. TrackerInv'
    BY <1>1, <1>3, RunsKept
  <1>9. /\ TallyInv' /\ CallInv(c)' /\ ResultInv(c)' /\ PendingInv(c)'
        /\ \A d \in Callers \ {c} :
              pc'[d] = pc[d] /\ fields'[d] = fields[d] /\ pending'[d] = pending[d]
        /\ pc' \in [Callers -> {"idle", "running", "saving", "recording", "returned", "threw"}]
        /\ DOMAIN fields' = Callers /\ DOMAIN pending' = Callers
    <2>1. CASE config.trackingEnabled
      <3>1. /\ pc'[c] = "saving"
            /\ \A d \in Callers \ {c} :
                  pc'[d] = pc[d] /\ fields'[d] = fields[d] /\ pending'[d] = pending[d]
            /\ pc' \in [Callers -> {"idle", "running", "saving", "recording", "returned", "threw"}]
            /\ DOMAIN fields' = Callers /\ DOMAIN pending' = Callers
        BY <1>1, <1>4, <2>1 DEF VarsInv
      <3>2. TallyInv'
        BY <1>4, <1>5, <2>1 DEF TallyInv
      <3>3. (made(c)') = made(c) /\ Tracked(c)' /\ (projectOf(job[c])') = projectOf(job[c])
        BY <1>3 DEF made, Tracked, projectOf
      <3>4. CallInv(c)'
        BY <1>2, <1>3, <1>4, <1>6, <1>7, <2>1, <3>1, <3>3 DEF CallInv
      <3>5. ResultInv(c)'
        <4>1. fields'[c] = NoFields
          BY <1>4, <1>7, <2>1
        <4> QED
          BY <4>1 DEF ResultInv, NoFields
      <3>6. PendingInv(c)'
        BY <1>1, <1>3, <1>4, <2>1, <3>1 DEF PendingInv, Recorded
      <3> QED
        BY <3>1, <3>2, <3>4, <3>5, <3>6
    <2>2. CASE ~config.trackingEnabled
      <3>1. /\ response.truncated = made(c).truncated /\ response.runId = Local
        BY <1>2
      <3>2. Local \in Nat
        BY DEF Local
      <3>3. Mirror(c, response, sub.truncated)
        BY <1>4, <2>2
      <3> HIDE DEF response
      <3> QED
        BY <1>3, <1>5, <1>7, <2>2, <3>1, <3>2, <3>3, MirrorKeeps
    <2> QED
      BY <2>1, <2>2
  <1>10. VarsInv'
    BY <1>1, <1>3, <1>6, <1>9 DEF VarsInv
  <1>11. RecordsInv'
    <2>1. \A d \in Callers : fields'[d] = fields[d] \/ fields[d] = NoFields
      BY <1>7, <1>9
    <2> QED
      BY <1>1, <1>3, <2>1, RecordsKept
  <1>12. ASSUME NEW d \in Callers \ {c} PROVE CallInv(d)' /\ ResultInv(d)' /\ PendingInv(d)'
    <2>1. CallInv(d) /\ ResultInv(d) /\ PendingInv(d)
      BY DEF TrackingIInv
    <2> QED
      BY <1>3, <1>6, <1>9, <2>1, OtherKeeps
  <1> QED
    BY <1>8, <1>9, <1>10, <1>11, <1>12 DEF TrackingIInv

LEMMA SavedKeeps ==
  ASSUME TrackingIInv, NEW c \in Callers, Saved(c)
  PROVE  TrackingIInv'
  <1> DEFINE run == [by |-> c, project |-> inflight[c].project, input |-> inflight[c].input]
  <1>1. VarsInv /\ TallyInv /\ TrackerInv /\ RecordsInv /\ CallInv(c) /\ ResultInv(c) /\ PendingInv(c)
    BY DEF TrackingIInv
  <1>2. /\ pc[c] = "saving" /\ tracker' = Append(tracker, run)
        /\ UNCHANGED <<config, job, inflight, registry>>
    BY DEF Saved
  <1>3. PICK rejected \in {Absent, "some"} :
          Mirror(c, [runId |-> Len(tracker'),
                     repairedRecommendations |-> inflight[c].repairedRecommendations,
                     truncated |-> inflight[c].truncated,
                     analysisRejected |-> rejected], tally)
    BY DEF Saved
  <1> DEFINE response == [runId |-> Len(tracker'),
                          repairedRecommendations |-> inflight[c].repairedRecommendations,
                          truncated |-> inflight[c].truncated,
                          analysisRejected |-> rejected]
  <1>4. /\ job[c] \in Jobs[c] /\ fields[c] = NoFields /\ Tracked(c) /\ config.trackingEnabled
        /\ inflight[c].project = projectOf(job[c]) /\ inflight[c].truncated = made(c).truncated
    BY <1>1, <1>2 DEF CallInv
  <1>5. inflight[c].project \in Projects
    BY <1>1, <1>4, ProjectKnown DEF VarsInv
  <1>6. run = [by |-> c, project |-> inflight[c].project, input |-> inflight[c].input]
    OBVIOUS
  <1> HIDE DEF run
  <1>7. /\ TrackerInv'
        /\ Len(tracker') = Len(tracker) + 1 /\ Len(tracker') \in DOMAIN tracker'
        /\ tracker'[Len(tracker')] = run
        /\ \A i \in DOMAIN tracker : i \in DOMAIN tracker' /\ tracker'[i] = tracker[i]
        /\ \A i \in DOMAIN tracker' : i \in DOMAIN tracker \/ tracker'[i].by = c
    BY <1>2, <1>6, RunSaved
  <1>8. Len(tracker) \in Nat
    BY <1>1, ListBasics DEF TrackerInv
  <1>9. response.runId = Len(tracker') /\ response.runId \in Nat /\ response.runId # Local
    BY <1>7, <1>8 DEF Local
  <1>10. run.by = c /\ run.project = inflight'[c].project
    BY <1>2, <1>6
  <1>11. response.truncated = made(c).truncated
    BY <1>4
  <1> HIDE DEF response
  <1>12. /\ TallyInv' /\ CallInv(c)' /\ ResultInv(c)' /\ PendingInv(c)'
         /\ \A d \in Callers \ {c} :
               pc'[d] = pc[d] /\ fields'[d] = fields[d] /\ pending'[d] = pending[d]
         /\ pc' \in [Callers -> {"idle", "running", "saving", "recording", "returned", "threw"}]
         /\ DOMAIN fields' = Callers /\ DOMAIN pending' = Callers
    <2>1. Mirror(c, response, tally)
      BY <1>3 DEF response
    <2>2. response.runId \in DOMAIN tracker' /\ tracker'[response.runId] = run
      BY <1>7, <1>9
    <2>3. tracker'[response.runId].by = c /\ tracker'[response.runId].project = inflight'[c].project
      BY <1>10, <2>2
    <2>4. inflight'[c].project \in Projects
      BY <1>2, <1>5
    <2>5. DOMAIN tally = DOMAIN emptyTally /\ \A f \in DOMAIN tally : tally[f] \in Nat
      BY <1>1 DEF TallyInv
    <2>6. config' = config /\ job' = job
      BY <1>2
    <2> QED
      BY <1>4, <1>9, <1>11, <2>1, <2>2, <2>3, <2>4, <2>5, <2>6, MirrorKeeps
  <1>13. VarsInv'
    BY <1>1, <1>2, <1>12 DEF VarsInv
  <1>14. RecordsInv'
    <2>1. \A d \in Callers : fields'[d] = fields[d] \/ fields[d] = NoFields
      BY <1>4, <1>12
    <2> QED
      BY <1>1, <1>2, <2>1, RecordsKept
  <1>15. ASSUME NEW d \in Callers \ {c} PROVE CallInv(d)' /\ ResultInv(d)' /\ PendingInv(d)'
    <2>1. CallInv(d) /\ ResultInv(d) /\ PendingInv(d)
      BY DEF TrackingIInv
    <2> QED
      BY <1>2, <1>7, <1>12, <2>1, OtherKeeps
  <1> QED
    BY <1>7, <1>12, <1>13, <1>14, <1>15 DEF TrackingIInv

LEMMA SaveFailedKeeps ==
  ASSUME TrackingIInv, NEW c \in Callers, SaveFailed(c)
  PROVE  TrackingIInv'
  <1> DEFINE run == [by |-> c, project |-> inflight[c].project, input |-> inflight[c].input]
             failed == [NoFields EXCEPT !.trackingFailed = TRUE, !.trackedRun = Absent]
  <1>1. VarsInv /\ TallyInv /\ TrackerInv /\ RecordsInv /\ CallInv(c) /\ ResultInv(c) /\ PendingInv(c)
    BY DEF TrackingIInv
  <1>2. /\ pc[c] = "saving" /\ (tracker' = Append(tracker, run) \/ tracker' = tracker)
        /\ UNCHANGED <<config, job, inflight, pending, tally, registry>>
        /\ pc' = [pc EXCEPT ![c] = outcome(c)]
    BY DEF SaveFailed
  <1>3. job[c] \in Jobs[c] /\ fields[c] = NoFields /\ Tracked(c)
    BY <1>1, <1>2 DEF CallInv
  <1>4. fields' = [fields EXCEPT ![c] = failed]
    BY <1>1, <1>3 DEF SaveFailed, VarsInv
  <1>5. /\ failed.trackingFailed = TRUE /\ failed.trackedRun = Absent
        /\ failed.dashboardUrl = FALSE /\ failed.submissionTruncated = Absent
        /\ DOMAIN failed = DOMAIN NoFields
    BY DEF NoFields
  <1> HIDE DEF failed
  <1>6. run = [by |-> c, project |-> inflight[c].project, input |-> inflight[c].input]
    OBVIOUS
  <1> HIDE DEF run
  <1>7. /\ TrackerInv'
        /\ \A i \in DOMAIN tracker : i \in DOMAIN tracker' /\ tracker'[i] = tracker[i]
        /\ \A i \in DOMAIN tracker' : i \in DOMAIN tracker \/ tracker'[i].by = c
    <2>1. CASE tracker' = Append(tracker, run)
      BY <1>2, <1>6, <2>1, RunSaved
    <2>2. CASE tracker' = tracker
      BY <1>1, <1>2, <2>2, RunsKept
    <2> QED
      BY <1>2, <2>1, <2>2
  <1>8. /\ fields'[c] = failed /\ pc'[c] \in {"returned", "threw"} /\ DOMAIN fields' = Callers
        /\ \A d \in Callers \ {c} : pc'[d] = pc[d] /\ fields'[d] = fields[d]
        /\ pc' \in [Callers -> {"idle", "running", "saving", "recording", "returned", "threw"}]
    BY <1>1, <1>2, <1>4 DEF VarsInv, outcome
  <1>9. VarsInv' /\ TallyInv'
    BY <1>1, <1>2, <1>8 DEF VarsInv, TallyInv
  <1>10. RecordsInv'
    <2>1. \A d \in Callers : fields'[d] = fields[d] \/ fields[d] = NoFields
      BY <1>3, <1>8
    <2> QED
      BY <1>1, <1>2, <2>1, RecordsKept
  <1>11. CallInv(c)'
    BY <1>2, <1>3, <1>8 DEF CallInv
  <1>12. ResultInv(c)'
    BY <1>5, <1>8 DEF ResultInv
  <1>13. PendingInv(c)'
    <2>1. pending[c] = <<>> /\ isList(<<>>) /\ DOMAIN <<>> = {}
      BY <1>1, <1>2, ListBasics DEF PendingInv
    <2> QED
      BY <1>2, <1>8, <2>1 DEF PendingInv
  <1>14. ASSUME NEW d \in Callers \ {c} PROVE CallInv(d)' /\ ResultInv(d)' /\ PendingInv(d)'
    <2>1. CallInv(d) /\ ResultInv(d) /\ PendingInv(d)
      BY DEF TrackingIInv
    <2> QED
      BY <1>2, <1>7, <1>8, <2>1, OtherKeeps
  <1> QED
    BY <1>7, <1>9, <1>10, <1>11, <1>12, <1>13, <1>14 DEF TrackingIInv

LEMMA RecordKeeps ==
  ASSUME TrackingIInv, NEW c \in Callers, Record(c)
  PROVE  TrackingIInv'
  <1> USE DEF Record
  <1>1. VarsInv /\ TallyInv /\ TrackerInv /\ RecordsInv /\ CallInv(c) /\ ResultInv(c) /\ PendingInv(c)
    BY DEF TrackingIInv
  <1> DEFINE queue == pending[c]
  <1>2. isList(queue) /\ queue # <<>>
    BY <1>1 DEF PendingInv
  <1>3. /\ Len(queue) \in Nat \ {0} /\ DOMAIN queue = 1..Len(queue)
        /\ queue \in Seq(Range(queue))
    BY <1>2, ListBasics DEF isList
  <1>4. /\ Head(queue) = queue[1] /\ isList(Tail(queue)) /\ Len(Tail(queue)) = Len(queue) - 1
        /\ \A k \in 1..Len(Tail(queue)) : Tail(queue)[k] = queue[k + 1]
    <2>1. /\ Tail(queue) \in Seq(Range(queue)) /\ Len(Tail(queue)) = Len(queue) - 1
          /\ \A k \in 1..Len(Tail(queue)) : Tail(queue)[k] = queue[k + 1]
      BY <1>2, <1>3, HeadTailProperties
    <2>2. isList(Tail(queue))
      BY <2>1, SeqIsList
    <2>3. Head(queue) = queue[1]
      BY <1>2, <1>3
    <2> QED
      BY <2>1, <2>2, <2>3
  <1>5. DOMAIN Tail(queue) = 1..Len(Tail(queue)) /\ (Tail(queue) = <<>> <=> Len(queue) = 1)
    <2> HIDE DEF queue
    <2>1. DOMAIN Tail(queue) = 1..Len(Tail(queue)) /\ (Len(Tail(queue)) = 0 <=> Tail(queue) = <<>>)
      BY <1>4, ListBasics
    <2> QED
      BY <1>3, <1>4, <2>1
  <1>6. \A k \in DOMAIN queue : queue[k].by = c /\ queue[k].runId \in Nat /\ Recorded(c, queue[k].runId)
    BY <1>1 DEF PendingInv
  <1>7. /\ pending'[c] = Tail(queue)
        /\ pc'[c] = IF Len(queue) = 1 THEN outcome(c) ELSE "recording"
        /\ \A d \in Callers \ {c} : pc'[d] = pc[d] /\ pending'[d] = pending[d]
        /\ DOMAIN pending' = Callers
        /\ pc' \in [Callers -> {"idle", "running", "saving", "recording", "returned", "threw"}]
    BY <1>1 DEF VarsInv, outcome
  <1>8. pc'[c] # "idle" /\ pc'[c] # "running" /\ pc'[c] # "saving" /\ (pc'[c] = "recording" <=> Len(queue) # 1)
    BY <1>7 DEF outcome
  <1>9. registry' \subseteq registry \union {queue[1]}
    BY <1>4
  <1> HIDE DEF queue
  <1>10. VarsInv' /\ TallyInv'
    BY <1>1, <1>7 DEF VarsInv, TallyInv
  <1>11. TrackerInv'
    BY <1>1, RunsKept
  <1>12. \A d, x : Recorded(d, x)' <=> Recorded(d, x)
    BY DEF Recorded
  <1>13. RecordsInv'
    <2>1. 1 \in DOMAIN queue
      BY <1>3
    <2> QED
      BY <1>1, <1>6, <1>9, <1>12, <2>1 DEF RecordsInv
  <1>14. CallInv(c)'
    BY <1>1, <1>8 DEF CallInv
  <1>15. ResultInv(c)'
    <2>1. (made(c)') = made(c) /\ (Tracked(c)' <=> Tracked(c))
      BY DEF made, Tracked
    <2> QED
      BY <1>1, <1>8, <2>1 DEF ResultInv
  <1>16. PendingInv(c)'
    <2>1. ASSUME NEW k \in DOMAIN Tail(queue)
          PROVE  /\ Tail(queue)[k].by = c /\ Tail(queue)[k].runId \in Nat
                 /\ Recorded(c, Tail(queue)[k].runId)
      <3>1. k + 1 \in DOMAIN queue /\ Tail(queue)[k] = queue[k + 1]
        BY <1>3, <1>4, <1>5
      <3> QED
        BY <1>6, <3>1
    <2>2. ASSUME NEW k \in DOMAIN pending'[c]
          PROVE  /\ pending'[c][k].by = c /\ pending'[c][k].runId \in Nat
                 /\ Recorded(c, pending[c][k].runId)'
      <3>1. k \in DOMAIN Tail(queue) /\ pending'[c][k] = Tail(queue)[k]
        BY <1>7
      <3>2. config' = config /\ fields' = fields
        OBVIOUS
      <3> QED
        BY <2>1, <3>1, <3>2 DEF Recorded
    <2>3. isList(pending'[c]) /\ (pc'[c] = "recording" <=> pending'[c] # <<>>)
      BY <1>4, <1>5, <1>7, <1>8
    <2> QED
      BY <2>2, <2>3 DEF PendingInv
  <1>17. ASSUME NEW d \in Callers \ {c} PROVE CallInv(d)' /\ ResultInv(d)' /\ PendingInv(d)'
    <2>1. CallInv(d) /\ ResultInv(d) /\ PendingInv(d)
      BY DEF TrackingIInv
    <2> QED
      BY <1>7, <2>1, OtherKeeps
  <1> QED
    BY <1>10, <1>11, <1>13, <1>14, <1>15, <1>16, <1>17 DEF TrackingIInv

LEMMA TrackingStutters ==
  ASSUME TrackingIInv, UNCHANGED vars
  PROVE  TrackingIInv'
  <1> USE DEF vars
  <1>1. VarsInv /\ TallyInv /\ TrackerInv /\ RecordsInv
    BY DEF TrackingIInv
  <1>2. VarsInv' /\ TallyInv' /\ TrackerInv' /\ RecordsInv'
    BY <1>1, RunsKept, RecordsKept DEF VarsInv, TallyInv
  <1>3. ASSUME NEW d \in Callers PROVE CallInv(d)' /\ ResultInv(d)' /\ PendingInv(d)'
    <2>1. CallInv(d) /\ ResultInv(d) /\ PendingInv(d)
      BY DEF TrackingIInv
    <2>2. (made(d)') = made(d) /\ (Tracked(d)' <=> Tracked(d)) /\ (projectOf(job[d])') = projectOf(job[d])
      BY DEF made, Tracked, projectOf
    <2>3. CallInv(d)' /\ ResultInv(d)'
      BY <2>1, <2>2 DEF CallInv, ResultInv
    <2>4. \A x : Recorded(d, x)' <=> Recorded(d, x)
      BY DEF Recorded
    <2>5. PendingInv(d)'
      BY <2>1, <2>4 DEF PendingInv
    <2> QED
      BY <2>3, <2>5
  <1> QED
    BY <1>2, <1>3 DEF TrackingIInv

LEMMA TrackingInductive == TrackingIInv /\ [Next]_vars => TrackingIInv'
  <1> SUFFICES ASSUME TrackingIInv, [Next]_vars PROVE TrackingIInv'
    OBVIOUS
  <1>1. ASSUME NEW c \in Callers, Call(c) PROVE TrackingIInv'
    BY <1>1, CallKeeps
  <1>2. ASSUME NEW c \in Callers, EndUntracked(c) PROVE TrackingIInv'
    BY <1>2, EndUntrackedKeeps
  <1>3. ASSUME NEW c \in Callers, Submit(c) PROVE TrackingIInv'
    BY <1>3, SubmitKeeps
  <1>4. ASSUME NEW c \in Callers, Saved(c) PROVE TrackingIInv'
    BY <1>4, SavedKeeps
  <1>5. ASSUME NEW c \in Callers, SaveFailed(c) PROVE TrackingIInv'
    BY <1>5, SaveFailedKeeps
  <1>6. ASSUME NEW c \in Callers, Record(c) PROVE TrackingIInv'
    BY <1>6, RecordKeeps
  <1>7. CASE UNCHANGED vars
    BY <1>7, TrackingStutters
  <1> QED
    BY <1>1, <1>2, <1>3, <1>4, <1>5, <1>6, <1>7 DEF Next

LEMMA TrackingInvariant == Spec => []TrackingIInv
  <1> QED
    BY TrackingInitially, TrackingInductive, PTL DEF Spec

-----------------------------------------------------------------------------
(* What the invariant says. *)

\* Where every call is, what is counted, and what was saved and recorded are
\* of their kinds (UluOpsClient, SubmissionClient).
THEOREM TrackingTypeCorrect == Spec => []TypeOK
  <1>1. ASSUME TrackingIInv PROVE TypeOK
    <2>1. VarsInv /\ TallyInv /\ TrackerInv /\ RecordsInv
      BY <1>1 DEF TrackingIInv
    <2>2. ASSUME NEW c \in Callers
          PROVE  /\ IF pc[c] = "idle" THEN job[c] = Absent ELSE job[c] \in Jobs[c]
                 /\ DOMAIN fields[c] = DOMAIN NoFields /\ fields[c].trackingFailed \in BOOLEAN
                 /\ pc[c] = "recording" <=> pending[c] # <<>>
                 /\ pc[c] = "saving" =>
                      DOMAIN inflight[c] = {"project", "input", "truncated",
                                            "repairedRecommendations"}
      <3>1. CallInv(c) /\ ResultInv(c) /\ PendingInv(c)
        BY <1>1 DEF TrackingIInv
      <3>2. pc[c] = "saving" =>
              DOMAIN inflight[c] = {"project", "input", "truncated", "repairedRecommendations"}
        BY <3>1 DEF CallInv
      <3> QED
        BY <3>1, <3>2 DEF CallInv, ResultInv, PendingInv
    <2> QED
      BY <2>1, <2>2 DEF TypeOK, VarsInv, TallyInv, TrackerInv, RecordsInv
  <1> QED
    BY <1>1, TrackingInvariant, PTL

\* What a result says of its tracking is true: the run it names is its own, is
\* saved once and under the project it names, and its executions are recorded
\* under that run (trackIfEnabled, recordExecutions).
THEOREM NamedRunIsItsOwn == Spec => []ResultNamesItsRun
  <1>1. ASSUME TrackingIInv PROVE ResultNamesItsRun
    <2>1. TrackerInv /\ RecordsInv
      BY <1>1 DEF TrackingIInv
    <2>2. \A c \in Callers : ResultInv(c)
      BY <1>1 DEF TrackingIInv
    <2> QED
      BY <2>1, <2>2 DEF ResultNamesItsRun, TrackerInv, RecordsInv, ResultInv, Recorded
  <1> QED
    BY <1>1, TrackingInvariant, PTL

\* What a submission leaves out of its result is said: by its marker, on the
\* run, and by the counts on the caller's result, however the submissions of
\* one client interleave (buildTruncationMarker, capWithWarning).
THEOREM LossIsTold == Spec => []LossIsMarked
  <1>1. ASSUME TrackingIInv PROVE LossIsMarked
    <2> SUFFICES ASSUME NEW i \in DOMAIN tracker
                 PROVE  LET c == tracker[i].by
                            told == fields[c].submissionTruncated
                        IN  /\ MarkedLoss(trackedResult(job[c]), tracker[i].input)
                            /\ told # Absent =>
                                  ToldLoss(trackedResult(job[c]), tracker[i].input, told)
      BY DEF LossIsMarked
    <2> DEFINE c == tracker[i].by
               r == trackedResult(job[c])
    <2>1. c \in Callers /\ Tracked(c) /\ tracker[i].input = made(c).input
      BY <1>1 DEF TrackingIInv, TrackerInv
    <2>2. CallInv(c) /\ ResultInv(c)
      BY <1>1, <2>1 DEF TrackingIInv
    <2>3. job[c] \in Jobs[c]
      BY <2>2 DEF CallInv
    <2>4. ResultShape(r)
      BY <2>1, <2>3, TrackedShape DEF Tracked
    <2>5. MarkedLoss(r, made(c).input) /\ ToldLoss(r, made(c).input, made(c).truncated)
      BY <2>4, LossInOne DEF made
    <2>6. fields[c].submissionTruncated # Absent => fields[c].submissionTruncated = made(c).truncated
      BY <2>2 DEF ResultInv
    <2> QED
      BY <2>1, <2>5, <2>6
  <1> QED
    BY <1>1, TrackingInvariant, PTL

\* A saved run claims no more than was measured (savedVerdict, averageScore,
\* the record of a run that threw).
THEOREM SavedClaimsAreMeasured == Spec => []SavedVerdictHasEvidence
  <1>1. ASSUME TrackingIInv PROVE SavedVerdictHasEvidence
    <2> SUFFICES ASSUME NEW i \in DOMAIN tracker
                 PROVE  LET j == job[tracker[i].by]
                            p == tracker[i].input
                        IN  /\ j.throws = "billed" => ~p.allGatesPassed /\ p.averageScore = Absent
                            /\ (j.throws = "no" /\ j.result.type \in {"workflow", "pipeline"}
                                /\ j.result.executed = 0) => p.averageScore = Absent
                            /\ (j.throws = "no" /\ j.result.type = "pipeline") =>
                                  p.allGatesPassed = (j.result.allGatesPassed = TRUE)
                            /\ (p.allGatesPassed /\ j.result.type # "pipeline") =>
                                  j.result.extractionConfidence # "low"
      BY DEF SavedVerdictHasEvidence
    <2> DEFINE c == tracker[i].by
               j == job[c]
               r == trackedResult(j)
               p == tracker[i].input
    <2>1. Tracked(c) /\ p = made(c).input
      BY <1>1 DEF TrackingIInv, TrackerInv
    <2>2. made(c).input.allGatesPassed = savedVerdict(r) /\ made(c).input.averageScore = averageScore(r)
      BY SubmissionParts DEF made
    <2>3. p.allGatesPassed = savedVerdict(r) /\ p.averageScore = averageScore(r)
      BY <2>1, <2>2
    <2>4. j.throws = "no" \/ j.throws = "billed"
      BY <2>1 DEF Tracked, trackThrownRun, hasBilledMetrics
    <2>5. CASE j.throws = "no"
      <3>1. r = j.result
        BY <2>5 DEF trackedResult
      <3> HIDE DEF c, j, r, p
      <3>2. /\ r.type = "pipeline" => p.allGatesPassed = (r.allGatesPassed = TRUE)
            /\ p.allGatesPassed /\ r.type # "pipeline" => r.extractionConfidence # "low"
        BY <2>3 DEF savedVerdict, isPositiveDecision
      <3>3. r.type \in {"workflow", "pipeline"} /\ r.executed = 0 => p.averageScore = Absent
        BY <2>3 DEF averageScore, verifiedNothingExecuted
      <3>4. j.throws # "billed"
        BY <2>5
      <3> QED
        BY <3>1, <3>2, <3>3, <3>4 DEF c, j, p
    <2>6. CASE j.throws = "billed"
      <3>1. r = crashResult(j)
        BY <2>6 DEF trackedResult
      <3>2. /\ r.type = "agent" /\ r.decisionCategory = "negative" /\ r.score = Absent
        BY <3>1 DEF crashResult
      <3> HIDE DEF c, j, r, p
      <3>3. ~p.allGatesPassed
        BY <2>3, <3>2 DEF savedVerdict, isPositiveDecision
      <3>4. p.averageScore = Absent
        BY <2>3, <3>2 DEF averageScore
      <3>5. j.throws # "no"
        BY <2>6
      <3> QED
        BY <3>3, <3>4, <3>5 DEF c, j, p
    <2> QED
      BY <2>4, <2>5, <2>6
  <1> QED
    BY <1>1, TrackingInvariant, PTL

\* A command that is a job of its own has no more agents than a run may have:
\* its rows meet no ceiling (extractAgents).
PanelsFit == \A c \in Callers : \A j \in Jobs[c] : PanelFits(j.result)

\* No save is lost to one value of it: whatever an execution produced, what is
\* saved of it is within the bounds of the tracker and of the client
\* (transformToOpsInput, apiOnlyBounds, payloadGuards), as long as a command's
\* own agents are no more than a run may have.
THEOREM PayloadFits ==
  ASSUME PanelsFit
  PROVE  Spec => []PayloadFitsTheWire
  <1>1. ASSUME TrackingIInv PROVE PayloadFitsTheWire
    <2>1. ASSUME NEW i \in DOMAIN tracker PROVE Accepted(tracker[i].input)
      <3> DEFINE c == tracker[i].by
                 r == trackedResult(job[c])
      <3>1. c \in Callers /\ Tracked(c) /\ tracker[i].input = made(c).input
        BY <1>1 DEF TrackingIInv, TrackerInv
      <3>2. job[c] \in Jobs[c]
        BY <1>1, <3>1 DEF TrackingIInv, CallInv
      <3>3. ResultShape(r)
        BY <3>1, <3>2, TrackedShape DEF Tracked
      <3>4. PanelFits(r)
        BY <3>1, <3>2 DEF PanelsFit, PanelFits, trackedResult, crashResult
      <3>5. Accepted(made(c).input)
        BY <3>3, <3>4, OneIsAccepted DEF made
      <3> QED
        BY <3>1, <3>5
    <2> QED
      BY <2>1 DEF PayloadFitsTheWire, Accepted
  <1> QED
    BY <1>1, TrackingInvariant, PTL

=============================================================================
