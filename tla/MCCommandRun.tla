----------------------------- MODULE MCCommandRun -----------------------------
(***************************************************************************)
(* Small commands for TLC: one agent, none, and panels of two and three    *)
(* under both dispatch modes and every way of putting scores together.     *)
(***************************************************************************)
EXTENDS CommandRun

command(weights, sequential, method) ==
    [weights |-> weights, sequential |-> sequential, preflight |-> FALSE,
     pass |-> Absent, warn |-> Absent, method |-> method]

checked(c) == [c EXCEPT !.preflight = TRUE]
at(c, pass, warn) == [c EXCEPT !.pass = pass, !.warn = warn]

Panels ==
    {command(w, sequential, method) :
        w \in {<<1, 1>>, <<-1, 3>>, <<2, 1, 0>>}, sequential \in BOOLEAN,
        method \in {"average", "weighted_average", "min"}}

Others == {checked(command(<<1>>, TRUE, "average")), command(<<1>>, FALSE, "max"),
           command(<<>>, TRUE, "sum"), checked(command(<<1, 1, 1>>, FALSE, "max")),
           at(command(<<1, 1>>, FALSE, "sum"), 150, 90)}

MCCommands == Panels \union Others
FewCommands == {command(w, sequential, "average") : w \in {<<1, 1>>, <<1, 1, 1>>},
                                                   sequential \in BOOLEAN} \union Others

answer(class, score) == [class |-> class, score |-> score]

\* 75 and 50 are the thresholds. 76 and 73 round to 75 together.
MCAnswers == {answer("positive", 76), answer("positive", 73), answer("negative", 90),
              answer("conditional", 49), answer("negative", NoScore),
              answer("positive", NoScore)}
FewAnswers == {answer("positive", 76), answer("negative", NoScore)}

===============================================================================
