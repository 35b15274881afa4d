------------------------------- MODULE MCErPi -------------------------------
(***************************************************************************)
(* The instance of ErPi for TLC.                                           *)
(***************************************************************************)
EXTENDS ErPi, TLC

\* The replicas are interchangeable, and so are the keys.
Interchangeable == Permutations(Replicas) \cup Permutations(Key)

\* Java_RDL/InitRun/events.facts.
InitEvents ==
    <<<<"add", 1, 1>>, <<"add", 2, 1>>, <<"merge", 1, 2>>, <<"remove", 1, 2>>,
      <<"add", 3, 2>>, <<"merge", 2, 1>>, <<"add", 1, 3>>, <<"add", 2, 3>>,
      <<"merge", 1, 3>>, <<"remove", 1, 3>>, <<"add", 3, 3>>, <<"merge", 2, 3>>,
      <<"add", 10, 1>>, <<"add", 20, 2>>, <<"merge", 3, 1>>, <<"remove", 10, 3>>,
      <<"add", 30, 3>>, <<"merge", 3, 2>>>>

\* What theorems about the replays take of it.
ASSUME InitEventsSettle == DistinctLines /\ InitRunSettles

\* OrbitDB_RDL/Datalog/events.facts.
OrbitFacts ==
    <<<<"OrbitDB", 1>>, <<"OrbitDB", 2>>, <<"add", "bar", "foo", 1>>, <<"get", "bar", 1>>,
      <<"iterate", 1>>, <<"add", "foo", "bar", 2>>>>

ASSUME OrbitFactsKept == RuleKeepsAnswers

\* Distinct events, and an event that is repeated, as in the InitRun of Roshi.
Lists == {<<1, 2, 3>>, <<1, 2, 1>>, <<1, 2, 1, 3>>}

\* All orders of four events, with every choice of one or two of them for the
\* program to ask about, and with an event of another recording or none at all.
All == Sorted(Permutation(4))
Asked == {<<e>> : e \in 1..4} \cup {es \in (1..4) \X (1..4) : es[1] # es[2]}
PruningInputs ==
    {[algorithm |-> a, events |-> es, successors |-> <<>>] :
        a \in {"group", "independence", "replica"}, es \in Asked}
    \cup {[algorithm |-> "failed", events |-> c[1], successors |-> c[2]] :
        c \in {d \in Asked \X Asked : Elements(d[1]) \cap Elements(d[2]) = {}}}
    \cup {[algorithm |-> "independence", events |-> <<5>>, successors |-> <<>>],
          [algorithm |-> "independence", events |-> <<5, 1>>, successors |-> <<>>],
          [algorithm |-> "failed", events |-> <<>>, successors |-> <<1>>],
          [algorithm |-> "emulated group", events |-> <<1, 2, 3, 4, 5, 6>>, successors |-> <<3, 5>>],
          [algorithm |-> "emulated replica", events |-> <<1, 2, 3, 4, 5>>, successors |-> <<3, 4>>]}

ASSUME PruningInputsDistinct == DistinctInputs
=============================================================================
