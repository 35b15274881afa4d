----------------------------- MODULE Orderings ------------------------------
(***************************************************************************)
(* The generators of interleavings beside the Datalog rules, the same in   *)
(* roshi/cluster (DFS.go, RandomIntls.go) and Java_RDL (DFS.java,          *)
(* RandomIntls.java): dfs walks the tree of all prefixes, randomInterleave *)
(* shuffles until it has seen n! orderings.  An ordering's string is the   *)
(* sequence of its events, some of which may be equal.                     *)
(***************************************************************************)
EXTENDS Arrangements, Bags

CONSTANT EventLists     \* what InitRun/events.facts may hold

ASSUME OrderingsAssumption ==
    \A l \in EventLists : l \in Seq({l[i] : i \in DOMAIN l}) /\ l # <<>>

VARIABLES events,   \* the events
          frames,   \* calls of dfs: path, remaining events, loop variable
          visited,  \* visitedPaths
          printed   \* what has been printed: a bag of orderings

orderingVars == <<events, frames, visited, printed>>

Without(s, i) == [j \in 1..(Len(s) - 1) |-> IF j < i THEN s[j] ELSE s[j + 1]]

-----------------------------------------------------------------------------
(***************************************************************************)
(* dfs.  Recursion is a stack of frames, the innermost call first.         *)
(***************************************************************************)
Frame(path, rest) == [path |-> path, rest |-> rest, i |-> 1]

\* All events are used: the path is printed.
DfsPrint ==
    /\ frames # <<>> /\ Head(frames).rest = <<>>
    /\ printed' = printed (+) SetToBag({Head(frames).path})
    /\ frames' = Tail(frames)
    /\ UNCHANGED <<events, visited>>

\* Mutant: what is visited is not remembered.
DfsStepForgets ==
    /\ frames # <<>> /\ Head(frames).i <= Len(Head(frames).rest)
    /\ LET f == Head(frames)
           path == Append(f.path, f.rest[f.i])
           here == <<[f EXCEPT !.i = @ + 1]>> \o Tail(frames)
       IN  frames' = <<Frame(path, Without(f.rest, f.i))>> \o here
    /\ UNCHANGED <<events, visited, printed>>

\* The next event that may follow; a prefix that was visited is not entered.
DfsStep ==
    /\ frames # <<>> /\ Head(frames).i <= Len(Head(frames).rest)
    /\ LET f == Head(frames)
           path == Append(f.path, f.rest[f.i])
           here == <<[f EXCEPT !.i = @ + 1]>> \o Tail(frames)
       IN  /\ frames' = IF path \in visited THEN here
                        ELSE <<Frame(path, Without(f.rest, f.i))>> \o here
           /\ visited' = visited \cup {path}
    /\ UNCHANGED <<events, printed>>

\* The loop is over: back to the caller.
DfsReturn ==
    /\ frames # <<>> /\ Head(frames).rest # <<>>
    /\ Head(frames).i > Len(Head(frames).rest)
    /\ frames' = Tail(frames)
    /\ UNCHANGED <<events, visited, printed>>
-----------------------------------------------------------------------------
(***************************************************************************)
(* randomInterleave.  Both shuffles can produce every ordering.            *)
(***************************************************************************)
RandomDone == Cardinality(visited) >= Factorial[Len(events)]

Shuffle ==
    /\ ~RandomDone
    /\ \E p \in Permutation(Len(events)) :
         LET path == Arranged(events, p) IN
         /\ printed' = IF path \in visited THEN printed ELSE printed (+) SetToBag({path})
         /\ visited' = visited \cup {path}
    /\ UNCHANGED <<events, frames>>
-----------------------------------------------------------------------------
OrderingInit(dfs) ==
    /\ events \in EventLists
    /\ frames = IF dfs THEN <<Frame(<<>>, events)>> ELSE <<>>
    /\ visited = {}
    /\ printed = EmptyBag

DfsNext == DfsPrint \/ DfsStep \/ DfsReturn
=============================================================================
