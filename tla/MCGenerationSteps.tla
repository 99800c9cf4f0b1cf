-------------------------- MODULE MCGenerationSteps --------------------------
(***************************************************************************)
(* Windows around the thresholds of a budget of 100 for TLC, from a        *)
(* provider that splits its input, from one that reports its cache beside  *)
(* it, and with turns that report nothing or half.                         *)
(***************************************************************************)
EXTENDS GenerationSteps, TLC

Silent == [input |-> Absent, output |-> Absent, noCache |-> Absent, read |-> Absent,
           write |-> Absent, meta |-> Absent, billed |-> Absent]
Exact(input) == [Silent EXCEPT !.input = input, !.output = 3, !.noCache = input - 30,
                               !.read = 20, !.write = 10, !.billed = 5]
Beside(input) == [Silent EXCEPT !.input = input, !.output = 3,
                                !.meta = [cached |-> 20, created |-> 10]]

MCReports ==
    "exact" :> {Exact(40), Exact(75), Exact(84), Exact(86), Silent}
    @@ "beside" :> {Beside(40), [Beside(84) EXCEPT !.meta = Absent],
                    [Silent EXCEPT !.output = 2, !.billed = 1]}

\* The same with a turn whose count is no number.
MCGarbled == "garbled" :> {Exact(40), Exact(86), [Exact(40) EXCEPT !.input = Garbled]}

MCRates == [input |-> 10, output |-> 50, read |-> 1, write |-> Absent]

=============================================================================
