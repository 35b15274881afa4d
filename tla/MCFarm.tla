------------------------------- MODULE MCFarm -------------------------------
(***************************************************************************)
(* Instances of Farm for TLC: the clients' writes of each run, as records  *)
(* of a side and a sequence of <<score, member>> tuples.                   *)
(***************************************************************************)
EXTENDS Farm

Op(side, tuples) == [side |-> side, tuples |-> tuples]

\* An insert and a delete of one member.
InsertDelete == <<Op("ins", <<<<1, 1>>>>), Op("del", <<<<2, 1>>>>)>>

\* Two members inserted in one call, one of them deleted.
PairDelete == <<Op("ins", <<<<1, 1>>, <<2, 2>>>>), Op("del", <<<<3, 1>>>>)>>

\* Two members compete for one place.
Overflow == <<Op("ins", <<<<1, 1>>>>), Op("ins", <<<<2, 2>>>>)>>

\* An insert and a delete with the same score.
Ties == <<Op("ins", <<<<1, 1>>>>), Op("del", <<<<1, 1>>>>)>>
=============================================================================
