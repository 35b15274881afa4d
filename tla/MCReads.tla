------------------------------- MODULE MCReads -------------------------------
(***************************************************************************)
(* Instances of Reads for TLC.                                             *)
(***************************************************************************)
EXTENDS Reads

\* Keys 1 and 2 on one instance, the third on another.
TwoInstances == [k \in Key |-> IF k = 3 THEN 2 ELSE 1]

\* Cluster 1 has two members of key 1 with equal scores, one of which key 2 has
\* too, and a lower one.  Cluster 2 gets the same, but there the lower one rises
\* to the score of the others, and then the ladder is too short, or is deleted.
\* Key 3 has one element, on another instance than that of key 2, which may fail
\* while key 3 is answered.
Ties == {<<1, "ins", 1, 1>>, <<1, "ins", 2, 2>>, <<1, "ins", 2, 3>>, <<2, "ins", 2, 2>>,
         <<3, "ins", 1, 2>>}
On(c, ws) == {<<c, w[1], w[2], w[3], w[4]>> : w \in ws}
TiesStored == On(1, Ties)
Listed == On(2, Ties \cup {<<1, "ins", 2, 1>>, <<1, "del", 2, 1>>})

Listings == {{1}, {1, 2}, {2, 3}}

\* Cluster 2 holds the three keys, cluster 1 only key 1.  Key 1 goes and comes
\* back on cluster 2, key 3 reaches cluster 1.
WalkStored == On(1, {<<1, "ins", 1, 1>>}) \cup On(2, {<<k, "ins", 1, 1>> : k \in Key})
Walked == On(2, {<<1, "del", 1, 1>>, <<1, "ins", 2, 1>>}) \cup On(1, {<<3, "ins", 1, 1>>})

\* The default stop cursor of roshi-server, and one in the middle of a score.
StopCursors == {<<0, 0>>, <<2, 2>>}
=============================================================================
