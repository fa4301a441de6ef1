------------------------- MODULE MCModuleEvaluation -------------------------
(* An instance of ModuleEvaluation for TLC: modules are numbered from 1.    *)
EXTENDS ModuleEvaluation

\* Every graph of three modules whose request lists have no repetition and do
\* not name the module itself.
Lists(m) == UNION {SetToSeqs(S) : S \in SUBSET ((1..3) \ {m})}
SmallGraphs == {<<a, b, c>> : a \in Lists(1), b \in Lists(2), c \in Lists(3)}

\* Two arms of different length to one leaf, and the same with a cycle in the
\* longer arm: the smallest graphs on which the ancestors of the leaf are not
\* found in the order of the walk.
ArmGraphs == {<< <<2, 4>>, <<3>>, <<5>>, <<5>>, <<>> >>,
              << <<2, 4>>, <<3>>, <<2, 5>>, <<5>>, <<>> >>}

AllGraphs == SmallGraphs \cup ArmGraphs
=============================================================================
