----------------------------- MODULE Conditions -----------------------------
(***************************************************************************)
(* The condition language of stages and agents (executor/conditions.ts):   *)
(* the parser, by recursive descent over tokens, the classification of     *)
(* references, and the evaluator in the three values true, false and E.    *)
(*                                                                         *)
(* A condition is the sequence of its tokens; ws says that white space     *)
(* comes right before one.  Spelling is left out: a text that does not     *)
(* tokenize is the sequence with an odd token, which nothing accepts.      *)
(***************************************************************************)
EXTENDS Integers, Sequences, FiniteSets

CONSTANT MAX_CONDITION_LENGTH   \* counted in tokens here

E == "#E"
ABSENT == "#absent"

token(t, v) == [t |-> t, v |-> v, ws |-> FALSE]
spaced(tok) == [tok EXCEPT !.ws = TRUE]

\* A parse from one place to the next: the tree that was read and the trees in it,
\* where it ended, and the references met, in the order of the text.
parsed(node, within, at, refs) ==
    [ok |-> TRUE, node |-> node, nodes |-> within \union {node}, at |-> at, refs |-> refs]
SyntaxFault == [ok |-> FALSE, node |-> [k |-> "none"], nodes |-> {}, at |-> 0, refs |-> <<>>]

places(toks) == 1 .. Len(toks) + 1

isA(toks, i, t) == i \in DOMAIN toks /\ toks[i].t = t
isOp(toks, i, v) == isA(toks, i, "op") /\ toks[i].v = v

\* A loop that takes one of these in each round has at most as many rounds.
rounds(toks, ops) == Cardinality({i \in DOMAIN toks : \E v \in ops : isOp(toks, i, v)})

-----------------------------------------------------------------------------
(***************************************************************************)
(* References: three roots, and two kinds of fault that the load checks    *)
(* report.                                                                 *)
(***************************************************************************)
fault(code) == [kind |-> "fault", code |-> code]
paramRef(name) == [kind |-> "param", name |-> name]
passedRef(stage) == [kind |-> "passed", stage |-> stage]
stepRef(stage, name) == [kind |-> "step", stage |-> stage, step |-> name]

seg(v) == [kind |-> "seg", v |-> v]
key(v) == [kind |-> "key", v |-> v]

classify(segs) ==
    LET isSeg(n) == segs[n].kind = "seg"
        root == segs[1].v
    IN CASE root \notin {"params", "stages"} -> fault("unknown_root")
         [] root = "params" /\ Len(segs) = 2 -> paramRef(segs[2].v)
         [] /\ root = "stages" /\ Len(segs) = 3
            /\ isSeg(2) /\ segs[3] = seg("passed") -> passedRef(segs[2].v)
         [] /\ root = "stages" /\ Len(segs) = 5
            /\ isSeg(2) /\ segs[3] = seg("steps")
            /\ ~isSeg(4) /\ segs[5] = seg("output") -> stepRef(segs[2].v, segs[4].v)
         [] OTHER -> fault("unknown_path")

\* The segments from a place on, no white space before them or inside.
preceded(by, rest) == IF rest.ok THEN [rest EXCEPT !.node = <<by>> \o @] ELSE rest
furtherFrom(toks, i, further) ==
    CASE (isOp(toks, i, ".") \/ isOp(toks, i, "[")) /\ toks[i].ws -> SyntaxFault
      [] isOp(toks, i, ".") /\ ~toks[i].ws ->
           IF isA(toks, i + 1, "id") /\ ~toks[i + 1].ws
           THEN preceded(seg(toks[i + 1].v), further[i + 2]) ELSE SyntaxFault
      [] isOp(toks, i, "[") /\ ~toks[i].ws ->
           IF /\ isA(toks, i + 1, "str") /\ ~toks[i + 1].ws
              /\ isOp(toks, i + 2, "]") /\ ~toks[i + 2].ws
           THEN preceded(key(toks[i + 1].v), further[i + 3]) ELSE SyntaxFault
      [] OTHER -> parsed(<<>>, {}, i, <<>>)
furtherSegments(toks) ==
    LET further[i \in places(toks)] == furtherFrom(toks, i, further) IN further

Literals == {<<seg("true")>>, <<seg("false")>>}

referenceOf(first, further) ==
    LET segs == <<first>> \o further.node
    IN IF ~further.ok \/ segs \in Literals THEN SyntaxFault
       ELSE parsed([k |-> "ref", ref |-> classify(segs)], {}, further.at, <<classify(segs)>>)
reference(toks, i) ==
    IF ~isA(toks, i, "id") THEN SyntaxFault
    ELSE referenceOf(seg(toks[i].v), furtherSegments(toks)[i + 1])

-----------------------------------------------------------------------------
(***************************************************************************)
(* The descent.  A fault anywhere is a fault of the whole condition.  What *)
(* is read in a group is given to its reader as a function of the place.   *)
(***************************************************************************)
joinedWith(k, l, r) ==
    IF ~r.ok THEN r
    ELSE parsed([k |-> k, l |-> l.node, r |-> r.node], l.nodes \union r.nodes, r.at,
                l.refs \o r.refs)

closed(toks, e) ==
    IF e.ok /\ isOp(toks, e.at, ")") THEN parsed(e.node, e.nodes, e.at + 1, e.refs)
    ELSE SyntaxFault
group(toks, i, orExpr) == closed(toks, orExpr[i + 1])

groupOrReference(toks, i, orExpr) ==
    IF isOp(toks, i, "(") THEN group(toks, i, orExpr) ELSE reference(toks, i)

\* A negation takes a reference or a group, never a comparison.
negation(e) ==
    IF e.ok THEN parsed([k |-> "not", e |-> e.node], e.nodes, e.at, e.refs) ELSE e

comparison(toks, e) ==
    IF ~e.ok \/ ~(isOp(toks, e.at, "==") \/ isOp(toks, e.at, "!=")) THEN e
    ELSE IF isA(toks, e.at + 1, "str")
         THEN parsed([k |-> "cmp", ref |-> e.node.ref, op |-> toks[e.at].v,
                      lit |-> toks[e.at + 1].v], {}, e.at + 2, e.refs)
         ELSE SyntaxFault

atom(toks, i, orExpr) ==
    IF isOp(toks, i, "(") THEN group(toks, i, orExpr) ELSE comparison(toks, reference(toks, i))

unary(toks, i, orExpr) ==
    IF isOp(toks, i, "!") THEN negation(groupOrReference(toks, i + 1, orExpr))
    ELSE atom(toks, i, orExpr)

\* (mistake: whichever operator follows, the term is joined by this one)
joinTermLoosely(toks, op, k, terms, l) ==
    IF ~l.ok \/ ~(isOp(toks, l.at, "&&") \/ isOp(toks, l.at, "||")) THEN l
    ELSE joinedWith(k, l, terms[l.at + 1])
\* l, joined to the term behind the operator that follows it.
joinTerm(toks, op, k, terms, l) ==
    IF ~l.ok \/ ~isOp(toks, l.at, op) THEN l ELSE joinedWith(k, l, terms[l.at + 1])

\* The terms from place i on, joined from the left.
joinAll(toks, op, k, terms, i) ==
    LET after[n \in 0 .. rounds(toks, {op})] ==
          IF n = 0 THEN terms[i] ELSE joinTerm(toks, op, k, terms, after[n - 1])
    IN after[rounds(toks, {op})]

andExpr(toks, orExpr) ==
    LET terms == [i \in places(toks) |-> unary(toks, i, orExpr)]
    IN [i \in places(toks) |-> joinAll(toks, "&&", "and", terms, i)]
orExprOf(toks, orExpr) ==
    [i \in places(toks) |-> joinAll(toks, "||", "or", andExpr(toks, orExpr), i)]

\* By how deep groups nest: a text without a group needs none to be read.
descent(toks) ==
    LET orExpr[n \in 0 .. rounds(toks, {"("}) + 1] ==
          IF n = 0 THEN [i \in places(toks) |-> SyntaxFault]
          ELSE orExprOf(toks, orExpr[n - 1])
    IN orExpr[rounds(toks, {"("}) + 1]

whole(toks, tree) == IF tree.ok /\ tree.at = Len(toks) + 1 THEN tree ELSE SyntaxFault
parseTokens(toks) == whole(toks, descent(toks)[1])

conditionOf(p) ==
    [ok |-> p.ok, code |-> IF p.ok THEN "none" ELSE "condition_syntax",
     tree |-> p.node, nodes |-> p.nodes, refs |-> p.refs]
parseCondition(toks) ==
    IF Len(toks) > MAX_CONDITION_LENGTH
    THEN [ok |-> FALSE, code |-> "condition_too_long", tree |-> [k |-> "none"], nodes |-> {},
          refs |-> <<>>]
    ELSE conditionOf(parseTokens(toks))

-----------------------------------------------------------------------------
(***************************************************************************)
(* The value of a condition in a context: the parameters that have a       *)
(* value, whether each ended stage passed, and what its steps came to, a   *)
(* record [status, output].                                                *)
(***************************************************************************)
\* (mistake: the output of a step that failed is read too)
readStepAny(ref, ctx) ==
    IF ref.stage \in DOMAIN ctx.steps /\ ref.step \in DOMAIN ctx.steps[ref.stage]
    THEN ctx.steps[ref.stage][ref.step].output ELSE E
readStep(ref, ctx) ==
    IF /\ ref.stage \in DOMAIN ctx.steps
       /\ ref.step \in DOMAIN ctx.steps[ref.stage]
       /\ ctx.steps[ref.stage][ref.step].status = "passed"
    THEN ctx.steps[ref.stage][ref.step].output ELSE E

read(ref, ctx) ==
    CASE ref.kind = "param" ->
           IF ref.name \in DOMAIN ctx.params THEN ctx.params[ref.name] ELSE ABSENT
      [] ref.kind = "passed" ->
           IF ref.stage \in DOMAIN ctx.passed /\ ctx.passed[ref.stage]
           THEN "true" ELSE "false"
      [] ref.kind = "step" -> readStep(ref, ctx)
      [] ref.kind = "fault" -> E

T == "T"
F == "F"
truth(b) == IF b THEN T ELSE F

truthy(v) == IF v = E THEN E ELSE truth(v \notin {ABSENT, "", "false", "0"})

compare(v, op, lit) == IF v = E THEN E ELSE truth((op = "==") = (v = lit))

negated(v) == CASE v = E -> E [] v = T -> F [] v = F -> T

\* What is false absorbs E in a conjunction, what is true in a disjunction.
kleeneAnd(l, r) == IF F \in {l, r} THEN F ELSE IF E \in {l, r} THEN E ELSE T
\* (mistake: E counts as false)
kleeneOrFalse(l, r) == IF T \in {l, r} THEN T ELSE F
kleeneOr(l, r) == IF T \in {l, r} THEN T ELSE IF E \in {l, r} THEN E ELSE F

\* The value of a tree from those of the trees in it.
stepValue(t, ctx, value) ==
    CASE t.k = "ref" -> truthy(read(t.ref, ctx))
      [] t.k = "cmp" -> compare(read(t.ref, ctx), t.op, t.lit)
      [] t.k = "not" -> negated(value[t.e])
      [] t.k = "and" -> kleeneAnd(value[t.l], value[t.r])
      [] t.k = "or"  -> kleeneOr(value[t.l], value[t.r])

\* The value of a tree, of those in a condition.
evaluate(tree, nodes, ctx) ==
    LET value[t \in nodes] == stepValue(t, ctx, value) IN value[tree]

valueOf(p, ctx) == IF p.ok THEN evaluate(p.tree, p.nodes, ctx) ELSE E
evaluateCondition(toks, ctx) == valueOf(parseCondition(toks), ctx)

-----------------------------------------------------------------------------
(***************************************************************************)
(* The grammar of the language, as the file states it: the set of the      *)
(* trees that a nonterminal derives from the tokens i .. j - 1.            *)
(***************************************************************************)
adjoined(toks, i, j) == \A n \in i + 1 .. j - 1 : ~toks[n].ws

\* The segments of the references from place i, by where they end.
listsTo(toks, i, j, lists) ==
    UNION {IF j = i + 1 /\ isA(toks, i, "id") THEN {<<seg(toks[i].v)>>} ELSE {},
           IF j >= i + 3 /\ isOp(toks, j - 2, ".") /\ isA(toks, j - 1, "id")
           THEN {Append(s, seg(toks[j - 1].v)) : s \in lists[j - 2]}
           ELSE {},
           IF /\ j >= i + 4 /\ isOp(toks, j - 3, "[") /\ isA(toks, j - 2, "str")
              /\ isOp(toks, j - 1, "]")
           THEN {Append(s, key(toks[j - 2].v)) : s \in lists[j - 3]}
           ELSE {}}
segmentLists(toks, i) ==
    LET lists[j \in places(toks)] == listsTo(toks, i, j, lists) IN lists

referenceTrees(toks, i, j) ==
    IF ~adjoined(toks, i, j) THEN {}
    ELSE {[k |-> "ref", ref |-> classify(s)] : s \in segmentLists(toks, i)[j] \ Literals}

comparisonTrees(toks, i, j) ==
    IF /\ j >= i + 3 /\ isA(toks, j - 1, "str")
       /\ isOp(toks, j - 2, "==") \/ isOp(toks, j - 2, "!=")
    THEN {[k |-> "cmp", ref |-> t.ref, op |-> toks[j - 2].v, lit |-> toks[j - 1].v] :
            t \in referenceTrees(toks, i, j - 2)}
    ELSE {}

\* Spans of the text, each to be derived from a nonterminal.
spans(toks) == {"or", "and", "unary", "negand"} \X places(toks) \X places(toks)

joinedTrees(toks, nt, op, term, i, j, trees) ==
    UNION {{[k |-> nt, l |-> l, r |-> r] :
              l \in trees[<<nt, i, n>>], r \in trees[<<term, n + 1, j>>]} :
           n \in {m \in i .. j - 1 : isOp(toks, m, op)}}

derived(toks, nt, i, j, trees) ==
    CASE nt = "or" ->
           trees[<<"and", i, j>>] \union joinedTrees(toks, "or", "||", "and", i, j, trees)
      [] nt = "and" ->
           trees[<<"unary", i, j>>] \union joinedTrees(toks, "and", "&&", "unary", i, j, trees)
      [] nt = "unary" ->
           UNION {trees[<<"negand", i, j>>],
                  comparisonTrees(toks, i, j),
                  IF j > i + 1 /\ isOp(toks, i, "!")
                  THEN {[k |-> "not", e |-> e] : e \in trees[<<"negand", i + 1, j>>]}
                  ELSE {}}
      [] nt = "negand" ->
           referenceTrees(toks, i, j) \union
           (IF j >= i + 3 /\ isOp(toks, i, "(") /\ isOp(toks, j - 1, ")")
            THEN trees[<<"or", i + 1, j - 1>>] ELSE {})

derivations(toks) ==
    LET trees[s \in spans(toks)] == derived(toks, s[1], s[2], s[3], trees) IN trees

GrammarTrees(toks) == derivations(toks)[<<"or", 1, Len(toks) + 1>>]

=============================================================================
