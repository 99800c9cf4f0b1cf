---------------------------- MODULE RegistryCache ----------------------------
(***************************************************************************)
(* Resolving a definition (registry/RegistryClient.ts): the cache, the     *)
(* local files, the registry, and the pins of the caller.                  *)
(*                                                                         *)
(* The calls of one client overlap: each awaits a file, a render, a search *)
(* or a fetch, and a developer edits files, a publisher publishes and the  *)
(* program clears the cache meanwhile.  Names do not meet in the cache, but *)
(* they do in a directory, which list() scans file by file.                *)
(***************************************************************************)
EXTENDS Integers, FiniteSets

CONSTANTS
    None,           \* no value
    Calls,          \* the calls of the client
    Wanted,         \* what they may ask for
    Directories,    \* the local definitions a developer may have
    HasLocal,       \* localDefinitions is configured
    HasKey,         \* an API key is configured
    Rows,           \* what may be published
    MaxEdits,       \* how often the directory changes
    MaxClears       \* how often the cache is cleared

\* A call that names no version gets the newest, under the same key as latest.
Latest == 0
Types == {"agent", "command", "workflow", "pipeline"}
\* A hash tells two contents apart.
computeHash(content) == <<"sha256", content>>

\* Where a definition may lie, in the order the places are tried: the base
\* directory, then the directory of each type.
Places == 1..8
placeType == <<"agent", "command", "workflow", "pipeline",
               "agent", "command", "workflow", "pipeline">>

\* The files of a place that carry its type's extension, as readdir lists them.
\* A file reads well, cannot be read, is no mapping, has no section of any type
\* (an agent's: none with an interface), has a section of its own that
\* normalization refuses, or only another type's, which normalization takes.
FileStates == {"fine", "unreadable", "unmapped", "sectionless", "misshapen", "foreign"}

\* The version and the title (interface.name) are what the file's section says,
\* else unknown and the name of the file.
Unknown == -1

ASSUME SourcesAssumption ==
    /\ \A d \in Directories : DOMAIN d = Places
    /\ \A d \in Directories : \A i \in Places : \A k \in DOMAIN d[i] :
         /\ DOMAIN d[i][k] = {"name", "state", "version", "title", "yaml"}
         /\ d[i][k].state \in FileStates
         /\ d[i][k].state \in {"sectionless", "foreign"} =>
              d[i][k].version = Unknown /\ d[i][k].title = d[i][k].name
         /\ placeType[i] = "agent" => d[i][k].state # "misshapen"
         /\ \A j \in DOMAIN d[i] : d[i][j].name = d[i][k].name => j = k
    /\ \A r \in Rows : DOMAIN r = {"type", "name", "version", "yaml", "mapping", "frozen",
                                   "promptHash", "prompt", "normalized"}
    /\ \A w \in Wanted : DOMAIN w = {"safe", "type", "name", "version", "hash", "prompt"}
    /\ \A r \in Rows : r.type \in Types
    /\ HasLocal \in BOOLEAN /\ HasKey \in BOOLEAN
    /\ MaxEdits \in Nat /\ MaxClears \in Nat

\* What a render makes is one of these; no text that is written by hand or
\* published is, and no value is not an error.
Renders == {"rendered", "structure", "rerendered"}
Errors == {"yaml", "prompt", "unavailable", "configuration", "subscription", "unreachable"}

ASSUME TextsAssumption ==
    /\ \A d \in Directories : \A i \in Places : \A k \in DOMAIN d[i] :
         d[i][k].yaml \notin Renders
    /\ \A r \in Rows : r.prompt \notin Renders
    /\ None \notin Errors

VARIABLES
    cache,      \* the resolutions held, by key: None or a resolution
    directory,  \* the local files
    published,  \* the rows of the registry
    call,       \* each call: where it waits, what it asked, what it holds
    warned,     \* the reasons a failed render was warned of
    warnings,   \* how often each was warned
    met,        \* the reasons renders failed for
    edits, clears,
    straddlers  \* the calls the last clear found in flight

registryVars == <<cache, directory, published, call, warned, warnings, met,
          edits, clears, straddlers>>

Reasons == {"rejected-credential", "forbidden", "unavailable"}
Waiting == {"reading", "rendering", "searching", "fetching", "rerendering"}
Keys == {<<w.type, w.name, w.version>> : w \in Wanted}

-----------------------------------------------------------------------------
(***************************************************************************)
(* Pins.                                                                   *)
(***************************************************************************)
cacheKey(want) == <<want.type, want.name, want.version>>

verifiablePrompt(r) ==
    IF r.type \in {"agent", "command"} /\ r.promptHash # None THEN r.prompt ELSE None

\* What verifyPins says of a resolution: the error kind, or None.
verifyPins(want, r) ==
    CASE want.hash # None /\ computeHash(r.yaml) # want.hash -> "yaml"
      [] want.hash \in {None, computeHash(r.yaml)} /\ want.prompt # None ->
           CASE verifiablePrompt(r) = None -> "unavailable"
             [] verifiablePrompt(r) # None
                /\ computeHash(verifiablePrompt(r)) # want.prompt -> "prompt"
             [] OTHER -> None
      [] OTHER -> None

-----------------------------------------------------------------------------
(***************************************************************************)
(* What becomes of a call.                                                 *)
(***************************************************************************)
Idle == [pc |-> "idle", want |-> None, at |-> 0, type |-> None, held |-> None,
         result |-> None, error |-> None, since |-> 0]

\* A failure stores nothing.
fails(c, error) ==
    /\ call' = [call EXCEPT ![c].pc = "failed", ![c].error = error, ![c].held = None]
    /\ UNCHANGED cache

\* A resolution answers the call its pins let it answer.
answers(c, want, r) ==
    LET fault == verifyPins(want, r)
    IN [call[c] EXCEPT !.pc = IF fault = None THEN "answered" ELSE "failed",
                       !.want = want, !.held = None,
                       !.result = IF fault = None THEN r ELSE None,
                       !.error = fault]

\* It is stored before its pins are verified, by whichever call comes last.
resolves(c, r) ==
    /\ cache' = [cache EXCEPT ![cacheKey(call[c].want)] = r]
    /\ call' = [call EXCEPT ![c] = answers(c, call[c].want, r)]

-----------------------------------------------------------------------------
(***************************************************************************)
(* The local files.                                                        *)
(***************************************************************************)
candidate(want, i) == want.type \in {"any", placeType[i]}

\* Where a call goes that has tried the places up to i: on to the next one,
\* else to the registry, which an untyped call must search first.
\* (mistake: the place stays set on the way to the registry)
goesOnKept(want, i) ==
    LET left == {j \in Places : j > i /\ candidate(want, j)}
    IN IF HasLocal /\ left # {}
       THEN [pc |-> "reading", at |-> CHOOSE j \in left : \A n \in left : j <= n]
       ELSE [pc |-> IF want.type = "any" THEN "searching" ELSE "fetching", at |-> i]
goesOn(want, i) ==
    LET left == {j \in Places : j > i /\ candidate(want, j)}
    IN IF HasLocal /\ left # {}
       THEN [pc |-> "reading", at |-> CHOOSE j \in left : \A n \in left : j <= n]
       ELSE [pc |-> IF want.type = "any" THEN "searching" ELSE "fetching", at |-> 0]

advances(c) ==
    LET to == goesOn(call[c].want, call[c].at)
    IN /\ call' = [call EXCEPT ![c].pc = to.pc, ![c].at = to.at, ![c].held = None]
       /\ UNCHANGED cache

\* A version the caller names is honoured; latest is none.
versionMismatch(want, file) ==
    want.version # Latest /\ want.version # file.version

localResolution(type, file, prompt, degradations, c) ==
    [type |-> type, name |-> call[c].want.name, version |-> file.version, yaml |-> file.yaml,
     promptHash |-> None, prompt |-> prompt,
     definition |-> IF file.state = "foreign" THEN "other" ELSE "section",
     degradations |-> degradations, from |-> "local", by |-> c,
     since |-> call[c].since]

\* The end of resolveLocal for one file: the pinned version is looked at after
\* the render, and whether normalization takes the text after the version.
localEnd(c, file, prompt, degradations) ==
    IF versionMismatch(call[c].want, file) THEN advances(c)
    ELSE IF file.state \in {"misshapen", "sectionless"} THEN fails(c, "configuration")
    ELSE resolves(c, localResolution(placeType[call[c].at], file, prompt, degradations, c))

broken(file) == file.state \in {"unreadable", "unmapped"}

\* One candidate is read and parsed.  An agent without its section is refused
\* at once.  A workflow or pipeline without its own gets its raw text for a
\* prompt, and runs it if the section of another type gets it normalized.
Read(c) ==
    LET files == directory[call[c].at]
        type == placeType[call[c].at]
    IN /\ call[c].pc = "reading"
       /\ \/ (\A k \in DOMAIN files : files[k].name # call[c].want.name) /\ advances(c)
          \/ \E k \in DOMAIN files :
               LET file == files[k]
                   hasSection == file.state \in {"fine", "misshapen"}
               IN /\ file.name = call[c].want.name
                  /\ \/ broken(file) /\ fails(c, "configuration")
                     \/ /\ type = "agent" /\ ~broken(file) /\ ~hasSection
                        /\ fails(c, "configuration")
                     \/ /\ \/ type = "agent" /\ hasSection
                           \/ type = "command" /\ ~broken(file)
                        /\ call' = [call EXCEPT ![c].pc = "rendering", ![c].held = file]
                        /\ UNCHANGED cache
                     \/ /\ type \in {"workflow", "pipeline"} /\ hasSection
                        /\ localEnd(c, file, "structure", {})
                     \/ /\ type \in {"workflow", "pipeline"} /\ ~broken(file) /\ ~hasSection
                        /\ localEnd(c, file, file.yaml, {"runtime:missing-section"})
       /\ UNCHANGED <<directory, published, warned, warnings, met, edits, clears, straddlers>>

\* (mistake: a rejected and an insufficient credential share their warning)
warnKeyShared(status) ==
    IF status \in {"401", "403"} THEN "forbidden" ELSE "unavailable"
warnKey(status) ==
    CASE status = "401" -> "rejected-credential"
      [] status = "403" -> "forbidden"
      [] OTHER -> "unavailable"

diagnosis(status) ==
    CASE status = "401" -> "rejected-credential"
      [] status = "403" -> "forbidden"
      [] OTHER -> "unavailable"

\* The registry renders the file, or the raw text is executed: warned of once
\* for each reason, when there is a key to be wrong.
\* (mistake: the fallback is taken without a word)
rawFallbackSilent == {"render:api-unavailable"}
rawFallback == {"render:api-unavailable", "render:raw-yaml-fallback"}

Preview(c) ==
    /\ call[c].pc = "rendering"
    /\ LET file == call[c].held
       IN \/ /\ localEnd(c, file, "rendered", {})
             /\ UNCHANGED <<warned, warnings, met>>
          \/ \E status \in {"401", "403", "down"} :
               LET key == warnKey(status)
                   warns == HasKey /\ key \notin warned
               IN /\ met' = met \union {diagnosis(status)}
                  /\ warned' = IF warns THEN warned \union {key} ELSE warned
                  /\ warnings' = IF warns THEN [warnings EXCEPT ![key] = @ + 1] ELSE warnings
                  /\ localEnd(c, file, file.yaml, rawFallback)
    /\ UNCHANGED <<directory, published, edits, clears, straddlers>>

-----------------------------------------------------------------------------
(***************************************************************************)
(* The registry.                                                           *)
(***************************************************************************)
\* The types found under the name, which the ranking of the search may leave out;
\* only one will do.
Search(c) ==
    LET types == {r.type : r \in {q \in published : q.name = call[c].want.name}}
    IN /\ call[c].pc = "searching"
       /\ \/ fails(c, "unreachable")
          \/ \E matches \in SUBSET types :
               \/ Cardinality(matches) # 1 /\ fails(c, "configuration")
               \/ /\ Cardinality(matches) = 1
                  /\ \E t \in matches :
                       call' = [call EXCEPT ![c].pc = "fetching", ![c].type = t]
                  /\ UNCHANGED cache
       /\ UNCHANGED <<directory, published, warned, warnings, met, edits, clears, straddlers>>

\* The row the registry serves: the one asked for, or the newest.
serves(want, type) ==
    LET rows == {r \in published : r.type = type /\ r.name = want.name}
    IN IF want.version = Latest
       THEN {r \in rows : \A q \in rows : q.version <= r.version}
       ELSE {r \in rows : r.version = want.version}

\* The definition a row yields, with its markers: the section the server
\* normalized, else the row's own text, else nothing.
degradedDefinition(r) ==
    (IF r.normalized = "other" THEN {"normalization-fallback"} ELSE {})
    \union (IF r.normalized # "section" /\ r.yaml = None THEN {"empty-definition"} ELSE {})
definitionOf(r) ==
    IF r.normalized # "section" /\ r.yaml = None THEN "empty" ELSE "section"

\* The row's text is parsed for the definition, and for an agent's defaults.
unparsable(r) ==
    /\ r.yaml # None /\ ~r.mapping
    /\ r.normalized # "section" \/ r.type = "agent"

inconsistent(r) == r.promptHash # None /\ computeHash(r.prompt) # r.promptHash

remoteResolution(r, frozen, c) ==
    [type |-> r.type, name |-> r.name, version |-> r.version, yaml |-> r.yaml,
     promptHash |-> IF frozen THEN r.promptHash ELSE None,
     prompt |-> IF frozen THEN r.prompt ELSE "rerendered",
     definition |-> definitionOf(r),
     degradations |-> degradedDefinition(r)
         \union (IF frozen /\ inconsistent(r) THEN {"prompt-hash-inconsistent"} ELSE {})
         \union (IF frozen THEN {} ELSE {"runtime:live-rerender-fallback"}),
     from |-> "remote", by |-> c, since |-> call[c].since]

remoteType(c) == IF call[c].want.type = "any" THEN call[c].type ELSE call[c].want.type

\* 402, 404, any other error, or the row.  A definition whose text it needs is
\* refused before anything is rendered.
Fetch(c) ==
    LET rows == serves(call[c].want, remoteType(c))
    IN /\ call[c].pc = "fetching"
       /\ \/ \E error \in {"subscription", "unreachable"} : fails(c, error)
          \/ rows = {} /\ fails(c, "configuration")
          \/ \E r \in rows :
               \/ unparsable(r) /\ r.normalized # "section" /\ fails(c, "configuration")
               \/ unparsable(r) /\ r.normalized = "section" /\ r.frozen
                  /\ fails(c, "configuration")
               \/ ~unparsable(r) /\ r.frozen /\ resolves(c, remoteResolution(r, TRUE, c))
               \/ /\ ~r.frozen /\ (unparsable(r) => r.normalized = "section")
                  /\ call' = [call EXCEPT ![c].pc = "rerendering", ![c].held = r]
                  /\ UNCHANGED cache
       /\ UNCHANGED <<directory, published, warned, warnings, met, edits, clears, straddlers>>

\* A row without a frozen prompt is rendered anew, or fails.
Rerender(c) ==
    LET r == call[c].held
    IN /\ call[c].pc = "rerendering"
       /\ \/ fails(c, "configuration")
          \/ ~unparsable(r) /\ resolves(c, remoteResolution(r, FALSE, c))
       /\ UNCHANGED <<directory, published, warned, warnings, met, edits, clears, straddlers>>

-----------------------------------------------------------------------------
(***************************************************************************)
(* Listing.  The files are listed at one moment here, with no filter on    *)
(* their domain.                                                           *)
(***************************************************************************)
\* The base directory, then the directory of the type at base place b.
\* (mistake: the directory of the type is scanned first)
dirsToScanLast(b) == <<b + 4, b>>
dirsToScan(b) == <<b, b + 4>>

\* The files a scan gets to: one whose name was seen is passed over, and one
\* that is broken ends the scan of its directory.
reached(files, seen) ==
    {k \in DOMAIN files :
        /\ files[k].name \notin seen
        /\ \A j \in DOMAIN files : j < k /\ broken(files[j]) => files[j].name \in seen}

shown(type, files, seen) ==
    {[type |-> type, name |-> files[k].title, version |-> files[k].version] :
        k \in {n \in reached(files, seen) : ~broken(files[n])}}

\* A name counts as seen before its file is read.
scanned(type, first, second) ==
    shown(type, first, {})
    \union shown(type, second, {first[k].name : k \in reached(first, {})})

listLocal(filter) ==
    UNION {LET dirs == dirsToScan(b)
           IN scanned(placeType[b], directory[dirs[1]], directory[dirs[2]]) :
               b \in {n \in 1..4 : filter \in {"any", placeType[n]}}}

listRemote(filter) ==
    {[type |-> r.type, name |-> r.name, version |-> r.version] :
        r \in UNION {serves([name |-> q.name, version |-> Latest], q.type) :
                        q \in {p \in published : filter \in {"any", p.type}}}}

\* A local definition hides the published ones of its name, whatever their type.
\* (mistake: what is published is added to it)
mergedAll(local, remote) == local \union remote
merged(local, remote) ==
    local \union {r \in remote : \A l \in local : l.name # r.name}

List(c) ==
    /\ call[c].pc = "idle"
    /\ \E filter \in {w.type : w \in Wanted} :
         call' = [call EXCEPT ![c].pc = "listing", ![c].type = filter,
                              ![c].held = IF HasLocal THEN listLocal(filter) ELSE {}]
    /\ UNCHANGED <<cache, directory, published, warned, warnings, met,
                   edits, clears, straddlers>>

\* Without the registry the local ones are all there is.
Listed(c) ==
    LET local == call[c].held
        lists(l) == call' = [call EXCEPT ![c].pc = "listed", ![c].held = None,
                                         ![c].result = l]
    IN /\ call[c].pc = "listing"
       /\ \/ lists(merged(local, listRemote(call[c].type)))
          \/ local # {} /\ lists(local)
          \/ /\ local = {}
             /\ call' = [call EXCEPT ![c].pc = "failed", ![c].error = "configuration",
                                     ![c].held = None]
       /\ UNCHANGED <<cache, directory, published, warned, warnings, met,
                      edits, clears, straddlers>>

-----------------------------------------------------------------------------
(***************************************************************************)
(* A call is made.                                                         *)
(***************************************************************************)
\* What the cache holds is verified like anything else.
\* (mistake: a hit is returned as it is)
hitTrusted(c, want) ==
    call' = [call EXCEPT ![c] = [@ EXCEPT !.pc = "answered", !.want = want,
                                          !.result = cache[cacheKey(want)]]]
hit(c, want) ==
    call' = [call EXCEPT ![c] = answers(c, want, cache[cacheKey(want)])]

Resolve(c) ==
    /\ call[c].pc = "idle"
    /\ \E want \in Wanted :
         \/ /\ ~want.safe
            /\ call' = [call EXCEPT ![c].pc = "failed", ![c].want = want,
                                    ![c].error = "configuration"]
         \/ want.safe /\ cache[cacheKey(want)] # None /\ hit(c, want)
         \/ /\ want.safe /\ cache[cacheKey(want)] = None
            /\ LET to == goesOn(want, 0)
               IN call' = [call EXCEPT ![c].pc = to.pc, ![c].at = to.at,
                                       ![c].want = want, ![c].since = clears]
    /\ UNCHANGED <<cache, directory, published, warned, warnings, met,
                   edits, clears, straddlers>>

\* (mistake: only what was asked for by type is dropped)
emptiedTyped == [k \in Keys |-> IF k[1] = "any" THEN cache[k] ELSE None]
emptied == [k \in Keys |-> None]
clearCache ==
    /\ clears < MaxClears
    /\ cache' = emptied
    /\ clears' = clears + 1
    /\ straddlers' = {c \in Calls : call[c].pc \in Waiting}
    /\ UNCHANGED <<directory, published, call, warned, warnings, met, edits>>

\* The world: the developer edits, the registry publishes.
Edit ==
    /\ edits < MaxEdits
    /\ directory' \in Directories \ {directory}
    /\ edits' = edits + 1
    /\ UNCHANGED <<cache, published, call, warned, warnings, met, clears, straddlers>>
Publish ==
    /\ \E r \in Rows \ published :
         /\ \A q \in published :
              <<q.type, q.name, q.version>> # <<r.type, r.name, r.version>>
         /\ published' = published \union {r}
    /\ UNCHANGED <<cache, directory, call, warned, warnings, met, edits, clears, straddlers>>

RegistryInit ==
    /\ cache = [k \in Keys |-> None]
    /\ directory \in Directories
    /\ published = {}
    /\ call = [c \in Calls |-> Idle]
    /\ warned = {} /\ warnings = [k \in Reasons |-> 0] /\ met = {}
    /\ edits = 0 /\ clears = 0 /\ straddlers = {}

RegistryNext ==
    \/ \E c \in Calls :
         Resolve(c) \/ List(c) \/ Listed(c)
         \/ Read(c) \/ Preview(c) \/ Search(c) \/ Fetch(c) \/ Rerender(c)
    \/ clearCache \/ Edit \/ Publish

\* An awaited answer comes: files, the registry and its timeouts settle.
RegistrySpec == RegistryInit /\ [][RegistryNext]_registryVars
        /\ \A c \in Calls :
             WF_registryVars(Listed(c) \/ Read(c) \/ Preview(c) \/ Search(c) \/ Fetch(c) \/ Rerender(c))

-----------------------------------------------------------------------------
(***************************************************************************)
(* Properties.                                                             *)
(***************************************************************************)
Outcomes == {"answered", "failed", "listed"}

\* Types: a call waits somewhere or has an outcome, a failed one has its error,
\* and a key holds nothing or the resolution of a call.
RegistryTypeOK ==
    /\ DOMAIN cache = Keys
    /\ \A k \in Keys : cache[k] # None => cache[k].by \in Calls /\ cache[k].type \in Types
    /\ directory \in Directories /\ published \subseteq Rows
    /\ \A c \in Calls :
         /\ call[c].pc \in {"idle", "listing"} \union Waiting \union Outcomes
         /\ call[c].pc \in {"reading", "rendering"} => call[c].at \in Places
         /\ call[c].pc \in {"searching", "fetching", "rerendering"} => call[c].at = 0
         /\ (call[c].pc = "failed" <=> call[c].error \in Errors)
    /\ warned \subseteq Reasons /\ met \subseteq Reasons
    /\ warnings \in [Reasons -> Nat]
    /\ edits \in 0..MaxEdits /\ clears \in 0..MaxClears
    /\ straddlers \subseteq Calls

\* Whoever filled the cache, a call gets what it pinned: the type, name and
\* version it named, text of the hash it named, and a prompt of the hash it named, which
\* is the prompt that will be executed (resolve, verifyPins).
PinnedCallersGetWhatTheyPinned ==
    \A c \in Calls : call[c].pc = "answered" =>
        LET want == call[c].want  r == call[c].result
        IN /\ want.type \in {"any", r.type} /\ want.name = r.name
           /\ want.version \in {Latest, r.version}
           /\ want.hash \in {None, computeHash(r.yaml)}
           /\ want.prompt # None =>
                /\ computeHash(r.prompt) = want.prompt
                /\ r.from = "remote" /\ r.type \in {"agent", "command"}

\* A resolution that is less than what its author published says so, also when
\* it comes from the cache: raw text or a fresh render for a prompt, no
\* definition, a prompt its own hash denies (the degradations of resolve, which
\* decide whether a run counts as complete).
ShortcutsAreMarked ==
    \A c \in Calls : call[c].pc = "answered" =>
        LET r == call[c].result  marked(d) == d \in r.degradations
        IN /\ (r.from = "local" /\ r.type \in {"agent", "command"} /\ r.prompt = r.yaml)
                => marked("render:raw-yaml-fallback")
           /\ (r.from = "local" /\ r.type \in {"workflow", "pipeline"} /\ r.prompt = r.yaml)
                => marked("runtime:missing-section")
           /\ r.definition = "empty" => marked("empty-definition")
           /\ r.prompt = "rerendered" => marked("runtime:live-rerender-fallback")
           /\ r.promptHash \notin {None, computeHash(r.prompt)}
                => marked("prompt-hash-inconsistent")

\* After clearCache() the client holds only what was asked for since, and what
\* a call that was in flight then brought home (clearCache does not cancel it).
ClearForgets ==
    \A k \in Keys : cache[k] # None =>
        cache[k].since = clears \/ cache[k].by \in straddlers

\* A user with a key hears of each reason renders failed for, and once, however
\* the reasons follow one another; a user without one hears nothing
\* (tryRenderViaAPI).
EachReasonIsToldOnce ==
    \A key \in Reasons : warnings[key] = IF HasKey /\ key \in met THEN 1 ELSE 0

\* The first file of its type and name, with no broken one before it in its
\* directory, at which a scan could end.
inTheOpen(type, name) ==
    \E i \in Places : \E k \in DOMAIN directory[i] :
        /\ placeType[i] = type /\ directory[i][k].name = name
        /\ \A j \in 1..(i - 1) : placeType[j] = type =>
             \A n \in DOMAIN directory[j] : directory[j][n].name # name
        /\ \A n \in DOMAIN directory[i] : n < k => ~broken(directory[i][n])

\* No file of the type calls itself by another name than its own.
titled(type) ==
    \A i \in Places : placeType[i] = type =>
        \A k \in DOMAIN directory[i] : directory[i][k].title = directory[i][k].name

\* What resolve() finds in the local files list() shows: the name once, of the
\* type and in the version resolve() takes, whatever lies in another directory,
\* is of another type, or is published under the name (two scans of the same
\* directories, listLocal and resolveLocal).  It need not where a file before it
\* in its directory is broken, which ends the scan, or files lie about their
\* names.
ListShowsWhatResolves ==
    \A c, d \in Calls :
        LET r == call[d].result
        IN /\ edits = 0 /\ call[c].pc = "listed"
           /\ call[d].pc = "answered" /\ call[d].want.version = Latest
           /\ r.from = "local" /\ call[c].type \in {"any", r.type}
           /\ inTheOpen(r.type, r.name) /\ titled(r.type)
           => {s \in call[c].result : s.type = r.type /\ s.name = r.name}
                = {[type |-> r.type, name |-> r.name, version |-> r.version]}

\* A caller gets what it asked for: what it pinned, and what list() showed it.
CallersGetWhatTheyAskFor == PinnedCallersGetWhatTheyPinned /\ ListShowsWhatResolves

\* A fallback shows in the result and, once per reason, in the log.
FallbacksAreTold == ShortcutsAreMarked /\ EachReasonIsToldOnce

=============================================================================
