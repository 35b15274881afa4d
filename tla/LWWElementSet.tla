--------------------------- MODULE LWWElementSet ---------------------------
(***************************************************************************)
(* What a Roshi cluster promises, without the two sorted sets, the script  *)
(* and its early returns: a last-writer-wins element set (README.md,       *)
(* "CRDT").  A replica has executed some set of commands; a member is in   *)
(* the set, or known to be deleted, according to one of the highest-scored *)
(* commands for it, and according to nothing else: not the order, nor how  *)
(* often a command arrived.                                                *)
(***************************************************************************)
EXTENDS Integers

CONSTANTS Replicas, Elements, Stamps

VARIABLES log,      \* log[c]: the commands replica c has executed since it was empty
          state     \* state[c][m]: the standing of m at c, {} if unknown

Ops == {"ins", "del"} \X Stamps \X Elements

\* The standings that the commands in l allow for member m: all of them when
\* only one side has the highest score, a choice when both have.
Winners(l, m) ==
    LET mine == {k \in l : k[3] = m}
    IN  IF mine = {} THEN {{}}
        ELSE {{<<k[1], k[2]>>} : k \in {x \in mine : \A y \in mine : y[2] <= x[2]}}

LWWInit == /\ log = [c \in Replicas |-> {}]
           /\ state = [c \in Replicas |-> [m \in Elements |-> {}]]

\* Replica c executes one command: only the standing of its member may change.
LWWExecute(c, k) ==
    /\ log' = [log EXCEPT ![c] = @ \cup {k}]
    /\ \E w \in Winners(log'[c], k[3]) : state' = [state EXCEPT ![c][k[3]] = w]

\* Replica c is replaced by an empty one.
LWWReset(c) ==
    /\ log' = [log EXCEPT ![c] = {}]
    /\ state' = [state EXCEPT ![c] = [m \in Elements |-> {}]]

LWWNext == \E c \in Replicas : LWWReset(c) \/ \E k \in Ops : LWWExecute(c, k)

LWWSpec == LWWInit /\ [][LWWNext]_<<log, state>>
=============================================================================
