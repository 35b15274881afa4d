------------------------------ MODULE MCReplay ------------------------------
(***************************************************************************)
(* FirstRun/Actions.txt and the orders that DatalogGen and IlGen generate  *)
(* from it.                                                                *)
(***************************************************************************)
EXTENDS Replay

Event(op, id, time) == [op |-> op, id |-> id, times |-> <<time>>]

FirstRun == <<Event("Inc", 1, 1), Event("Inc", 1, 2), Event("Broadcast", 1, 3),
              Event("Inc", 2, 4), Event("Dec", 2, 5), Event("Broadcast", 2, 6)>>

Generated == {p \in [1..6 -> 1..6] : Pruned(p) /\ \A i, j \in 1..6 : p[i] = p[j] => i = j}
=============================================================================
