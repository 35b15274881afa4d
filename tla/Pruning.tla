------------------------------ MODULE Pruning -------------------------------
(***************************************************************************)
(* The pruning algorithms of Pruning-Algos: what each program writes for   *)
(* the interleavings it reads.  The order of the lines is left out; a      *)
(* program that indexes an empty vector reads through a null pointer and   *)
(* crashes, one that indexes past the end of another reads what is there.  *)
(* And the two emulators of Go_RDL, which prune the orders of a list of    *)
(* their own.                                                              *)
(***************************************************************************)
EXTENDS Arrangements
Sequence == INSTANCE SequencesExt

CONSTANTS Interleavings,    \* the lines of the file of interleavings
          Inputs            \* the other input files, a subset of Input

VARIABLES input,    \* a program's input files
          output    \* and its outcome, once it has ended

pruningVars == <<input, output>>

\* What a program is given: its name, the events it asks about (all, the
\* independent ones, the predecessors, those of the replica), the successors.
\* An emulator has its items and those of them it groups.
Input == [algorithm : {"group", "independence", "failed", "replica",
                       "emulated group", "emulated replica"},
          events : Seq(Int), successors : Seq(Int)]

ASSUME PruningAssumption ==
    Inputs \subseteq Input /\ Interleavings \in Seq(Seq(Int))

\* How a program ends.
Crash == [state |-> "crashed", ils |-> {}]
Written(ils) == [state |-> "written", ils |-> ils]

Elements(s) == {s[i] : i \in DOMAIN s}
-----------------------------------------------------------------------------
(***************************************************************************)
(* event_group.cpp: permute ignores the groups and makes an interleaving   *)
(* of each event.                                                          *)
(***************************************************************************)
permute(es) == {<<e>> : e \in Elements(es)}
-----------------------------------------------------------------------------
(***************************************************************************)
(* event_independence.cpp.                                                 *)
(***************************************************************************)
independent_events_indices(ies, il) == {i \in DOMAIN il : il[i] \in ies}

\* Mutant: an event need only be one of the independent events.
all_independent_any(ies, il) ==
    LET at == independent_events_indices(ies, il)
    IN  \A i \in DOMAIN il : (\E a, b \in at : a <= i /\ i <= b) => il[i] \in ies

\* From the first independent event to the last every event equals every
\* independent event.
all_independent(ies, il) ==
    LET at == independent_events_indices(ies, il)
    IN  \A i \in DOMAIN il : (\E a, b \in at : a <= i /\ i <= b) => \A e \in ies : il[i] = e

\* The program takes the first and the last index without asking whether
\* there is one.
Independence(ils, ies) ==
    IF \E il \in ils : independent_events_indices(ies, il) = {} THEN Crash
    ELSE Written({il \in ils : ~all_independent(ies, il)})
-----------------------------------------------------------------------------
(***************************************************************************)
(* failed_ops.cpp: ps are the predecessor events, ss the successors.       *)
(***************************************************************************)
\* The places of the events that are in the interleaving, in their order.
find_event_indices(es, il) ==
    LET found == Selected(es, Elements(il))
    IN  [j \in DOMAIN found |-> CHOOSE i \in DOMAIN il :
                                   il[i] = found[j] /\ \A h \in 1..(i - 1) : il[h] # found[j]]

\* The values of valid: a comparison with an index past the end of sIdx may
\* have any result.
Valid(ps, ss, il) ==
    LET p == find_event_indices(ps, il)
        s == find_event_indices(ss, il)
        past(i) == i + 1 > Len(s)
        apart(i) == p[i] < p[i + 1] /\ (past(i) \/ s[i] < s[i + 1])
        followed == \A i \in DOMAIN p : \E j \in DOMAIN s : p[i] < s[j]
        ordered == \A i \in 1..(Len(p) - 1) : apart(i)
    IN  IF ~followed \/ ~ordered THEN {FALSE}
        ELSE IF \E i \in 1..(Len(p) - 1) : past(i) THEN BOOLEAN ELSE {TRUE}

\* With no predecessor in an interleaving, size() - 1 is the largest size_t
\* and the loop leaves the vectors.
FailedOps(ils, ps, ss) ==
    IF \E il \in ils : find_event_indices(ps, il) = <<>> THEN {Crash}
    ELSE LET maybe == {il \in ils : Valid(ps, ss, il) = BOOLEAN}
             out == {il \in ils : Valid(ps, ss, il) = {FALSE}}
         IN  {Written(out \cup more) : more \in SUBSET maybe}
-----------------------------------------------------------------------------
(***************************************************************************)
(* replica_specific.cpp: interleavings with the events of the replica at   *)
(* the same places are a group.                                            *)
(***************************************************************************)
index_in_interleaving(es, il) == {i \in DOMAIN il : il[i] \in es}

events_after_indices(il, idx) == {il[j] : j \in {h \in DOMAIN il : \E i \in idx : i < h}}

containsAll(il, es) == es \subseteq Elements(il)

\* Any interleaving that contains what follows the replica's first event in
\* some group's first interleaving, wherever, is excluded.
ReplicaSpecific(lines, es) ==
    LET idx(n) == index_in_interleaving(es, lines[n])
        first == {n \in DOMAIN lines : \A h \in 1..(n - 1) : idx(h) # idx(n)}
        grouped == {events_after_indices(lines[n], idx(n)) : n \in first}
    IN  {il \in Elements(lines) : \A g \in grouped : ~containsAll(il, g)}
-----------------------------------------------------------------------------
(***************************************************************************)
(* PruningEmulator: group.py (group.cpp and group.dl do the same) and      *)
(* replica.py.                                                             *)
(***************************************************************************)
\* The orders of the items in which those of g are one item, appended last.
generate_permutations_with_grouping(items, g) ==
    LET single == Selected(items, Elements(items) \ Elements(g))
        modified_items == Append([j \in DOMAIN single |-> <<single[j]>>], g)
    IN  {Sequence!FlattenSeq(Arranged(modified_items, p)) : p \in Permutation(Len(modified_items))}

\* bs are the two items of replica B.  The orders with the items of B at the same
\* places are a group.  Of a group with the second B in the first three places,
\* every (5 - place)!-th is kept, starting with the first; of the others, all.
final_interleavings(items, bs) ==
    LET all_list == Permutation(Len(items))
        group_b_indices(p) == {i \in DOMAIN p : items[p[i]] \in bs}
        second(p) == CHOOSE i \in group_b_indices(p) : \A h \in group_b_indices(p) : h <= i
        before(p) == {q \in all_list : group_b_indices(q) = group_b_indices(p)
                                          /\ Lexicographic(q, p)}
        jump(p) == Factorial[Len(items) - second(p)]
        filtered == {p \in all_list : second(p) > 3 \/ Cardinality(before(p)) % jump(p) = 0}
    IN  {Arranged(items, p) : p \in filtered}
-----------------------------------------------------------------------------
\* What each program may write for its input.
Results ==
    LET es == Elements(input.events)
        ils == Elements(Interleavings) IN
    CASE input.algorithm = "group"        -> {Written(permute(input.events))}
      [] input.algorithm = "independence" -> {Independence(ils, es)}
      [] input.algorithm = "failed"       -> FailedOps(ils, input.events, input.successors)
      [] input.algorithm = "replica"      -> {Written(ReplicaSpecific(Interleavings, es))}
      [] input.algorithm = "emulated group" ->
           {Written(generate_permutations_with_grouping(input.events, input.successors))}
      [] input.algorithm = "emulated replica" ->
           {Written(final_interleavings(input.events, Elements(input.successors)))}

Prune == /\ output.state = "none" /\ output' \in Results
         /\ UNCHANGED input

PruningInit == input \in Inputs /\ output = [state |-> "none", ils |-> {}]
=============================================================================
