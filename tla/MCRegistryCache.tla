--------------------------- MODULE MCRegistryCache ---------------------------
(***************************************************************************)
(* Two names for TLC, of which one is asked for: two versions, each type   *)
(* that is treated its own way, directories with files of every state,     *)
(* with neighbours that break a scan off before it, after it and elsewhere,*)
(* and rows of every shape.                                                *)
(***************************************************************************)
EXTENDS RegistryCache, TLC

File(name, state, version) ==
    [name |-> name, state |-> state, title |-> name, yaml |-> "text",
     version |-> IF state \in {"sectionless", "foreign"} THEN Unknown ELSE version]
a(state, version) == File("a", state, version)
Neighbour(state) == File("b", state, 1)
Empty == [i \in Places |-> <<>>]

MCDirectories ==
    {\* The agent of the base directory hides its type's, and a broken file after
     \* it nothing; the one before the command keeps it off the list.
     [Empty EXCEPT ![1] = <<a("fine", 1), Neighbour("unreadable")>>,
                   ![2] = <<Neighbour("unmapped"), a("fine", 1)>>,
                   ![5] = <<a("fine", 2)>>],
     \* The agent lies in the directory of its type, beside a base that breaks off.
     [Empty EXCEPT ![1] = <<Neighbour("unmapped")>>,
                   ![3] = <<a("fine", 1)>>,
                   ![5] = <<Neighbour("fine"), a("fine", 2)>>,
                   ![6] = <<a("unreadable", 1)>>],
     \* A workflow runs its raw text, and another takes its name.
     [Empty EXCEPT ![3] = <<a("foreign", 1)>>,
                   ![5] = <<a("sectionless", 1)>>,
                   ![6] = <<a("misshapen", 1), Neighbour("unreadable")>>,
                   ![7] = <<[Neighbour("fine") EXCEPT !.title = "a"]>>],
     \* There is nothing, and an untyped call must search the registry.
     Empty}

Row == [type |-> "agent", name |-> "a", version |-> 1, yaml |-> "text", mapping |-> TRUE,
        frozen |-> TRUE, promptHash |-> computeHash("prompt"),
        prompt |-> "prompt", normalized |-> "section"]
MCRows ==
    {Row,
     [Row EXCEPT !.version = 2, !.yaml = None, !.normalized = "other",
                 !.promptHash = computeHash("else")],
     [Row EXCEPT !.type = "command", !.frozen = FALSE, !.mapping = FALSE],
     [Row EXCEPT !.type = "workflow", !.name = "b", !.version = 2, !.yaml = None,
                 !.frozen = FALSE, !.normalized = "none"]}

Want == [safe |-> TRUE, type |-> "agent", name |-> "a", version |-> Latest,
         hash |-> None, prompt |-> None]
MCWanted ==
    {Want,
     [Want EXCEPT !.hash = computeHash("text"), !.version = 2],
     [Want EXCEPT !.prompt = computeHash("prompt")],
     [Want EXCEPT !.type = "any"],
     [Want EXCEPT !.type = "command"],
     [Want EXCEPT !.safe = FALSE]}

\* No property tells the calls apart.
Symmetric == Permutations(Calls)

=============================================================================
