-------------------------------- MODULE Store --------------------------------
(***************************************************************************)
(* What the readers of Paging and Walk read: N Roshi clusters, each with   *)
(* the two sorted sets of every key, spread over the Redis instances of    *)
(* the cluster's pool.  The clients' writes and the repairs of Farm reach  *)
(* each cluster in any order, any number of times and at any moment, so    *)
(* the environment executes any of the commands on any cluster.            *)
(***************************************************************************)
EXTENDS LWWSet

CONSTANTS N,          \* number of clusters
          Key,        \* the keys
          Instance,   \* the Redis instances of each cluster
          Home        \* Home[k]: the instance that holds key k (pool.Index)

Cluster == 1..N

ASSUME StoreAssumption ==
    /\ N \in Nat \ {0}
    /\ Home \in [Key -> Instance]

\* What may be written where: a cluster, a key, a side, a score and a member.
Command == Cluster \X Key \X Sides \X Score \X Member

VARIABLE data   \* data[c][k]: the two sorted sets of key k on cluster c

StoreTypeOK == data \in [Cluster -> [Key -> Replica]]

\* The clusters after the commands of ws, inserts of one score per member.
Stored(ws) ==
    [c \in Cluster |-> [k \in Key |->
       [EmptyReplica EXCEPT !["ins"] =
          [m \in {x \in Member : \E s \in Score : <<c, k, "ins", s, x>> \in ws} |->
             CHOOSE s \in Score : <<c, k, "ins", s, m>> \in ws]]]]

\* A cluster executes the script for one command.
Write(w) == data' = [data EXCEPT ![w[1]][w[2]] = Script(@, w[3], w[4], w[5])]

\* The elements, as <<key, score, member>>, that every cluster returns for a
\* key.
Held == {x \in Key \X Score \X Member :
           \A c \in Cluster : /\ x[3] \in DOMAIN data[c][x[1]]["ins"]
                              /\ data[c][x[1]]["ins"][x[3]] = x[2]}
=============================================================================
