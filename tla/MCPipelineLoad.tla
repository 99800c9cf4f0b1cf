--------------------------- MODULE MCPipelineLoad ---------------------------
(***************************************************************************)
(* Texts and pipelines for TLC.  A text has references of every kind, good *)
(* and faulty, the operators and a literal; a pipeline has three stages of *)
(* which the first has a step, and depends_on in every order.              *)
(***************************************************************************)
EXTENDS PipelineLoad, TLC

Id(v) == token("id", v)
Op(v) == token("op", v)
Str(v) == token("str", v)

ParamP == <<Id("params"), Op("."), Id("p")>>
Passed == <<Id("stages"), Op("."), Id("b"), Op("."), Id("passed")>>
StepOutput == <<Id("stages"), Op("."), Id("a"), Op("."), Id("steps"),
                Op("["), Str("s"), Op("]"), Op("."), Id("output")>>

MCFragments ==
    {ParamP, Passed, StepOutput, <<Id("true")>>, <<spaced(Op(".")), Id("p")>>,
     <<Op("!")>>, <<Op("(")>>, <<Op(")")>>, <<Op("&&")>>, <<Op("||")>>, <<Op("==")>>,
     <<Str("0")>>}

NoGate == [declared |-> FALSE, blocking |-> FALSE, threshold |-> FALSE,
           aggregate |-> FALSE, stray |-> FALSE]
Blocking == [NoGate EXCEPT !.declared = TRUE, !.blocking = TRUE]
Agent == [condition |-> FALSE, threshold |-> FALSE, stray |-> FALSE, vocabulary |-> TRUE]

Stage(id, deps) == [id |-> id, depends_on |-> deps, steps |-> {}, misplaced |-> FALSE,
                    condition |-> FALSE,
                    agents |-> <<>>, gate |-> NoGate, stray |-> FALSE]

Base(c, depsA, depsB, depsC) ==
    [stages |-> <<[Stage("a", depsA) EXCEPT !.steps = {"s"}, !.condition = (c = "a")],
                  [Stage("b", depsB) EXCEPT !.condition = (c = "b")],
                  [Stage("c", depsC) EXCEPT !.condition = (c = "c")]>>,
     defaults |-> [p |-> "0"], collides |-> FALSE, allowStageSteps |-> TRUE]

Chain == Base("c", {}, {"a"}, {"b"})

MCPipelines ==
    {Base(c, da, db, dc) : c \in {"a", "c"}, da \in {{}, {"c"}}, db \in {{}, {"a"}},
                           dc \in {{}, {"a"}, {"b"}, {"ghost"}}}
    \union
    {[Chain EXCEPT !.allowStageSteps = FALSE],
     [Chain EXCEPT !.defaults = [p |-> NoDefault]],
     [Chain EXCEPT !.defaults = <<>>],
     [Chain EXCEPT !.defaults = [p |-> Nul]],
     [Chain EXCEPT !.collides = TRUE],
     [Chain EXCEPT !.stages[1].misplaced = TRUE],
     [Chain EXCEPT !.stages[2].id = "a"],
     [Chain EXCEPT !.stages[1].steps = {}],
     [Chain EXCEPT !.stages[2].stray = TRUE],
     [Chain EXCEPT !.stages[1].gate = Blocking, !.allowStageSteps = FALSE],
     [Chain EXCEPT !.stages[2].gate = Blocking,
                   !.stages[2].agents = <<[Agent EXCEPT !.vocabulary = FALSE]>>],
     [Chain EXCEPT !.stages[2].agents = <<[Agent EXCEPT !.threshold = TRUE], Agent>>],
     [Chain EXCEPT !.stages[1].agents = <<[Agent EXCEPT !.condition = TRUE]>>]}

MCInputs == {[params |-> <<>>, target |-> "dir"], [params |-> [p |-> "false"], target |-> "dir"]}

=============================================================================
