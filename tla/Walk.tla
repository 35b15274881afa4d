-------------------------------- MODULE Walk --------------------------------
(***************************************************************************)
(* roshi-walker going over the keyspace: Keys, which scans one instance    *)
(* of a cluster after the other (cluster/cluster.go), the goroutine of     *)
(* scan that forwards its batches, and walkOnce, which Selects every batch *)
(* from all clusters (roshi-walker/main.go).  Batches are handed over on   *)
(* unbuffered channels; Keys sends while it holds a connection, and the    *)
(* Selects need connections to the same instances.  What a Select repairs  *)
(* is the subject of Farm.                                                 *)
(***************************************************************************)
EXTENDS Store

CONSTANTS WalkWrites,   \* the commands that may be written
          BatchSize,    \* batchSize of Keys
          MaxConns,     \* connections per instance: redis.mcpi
          MaxOutages    \* bound: number of failed SCANs

ASSUME WalkAssumption ==
    /\ WalkWrites \subseteq Command
    /\ BatchSize \in Nat \ {0} /\ MaxConns \in Nat \ {0} /\ MaxOutages \in Nat

VARIABLES keys,     \* the goroutine of Keys
          hand,     \* the batch the goroutine of scan holds
          walk,     \* walkOnce
          steady,   \* history: <<c, k>>, key k non-empty on c since the start
          outages   \* failed SCANs so far

walkVars == <<keys, hand, walk, steady, outages>>

\* The physical keys of an instance: the inserts and the deletes set of each
\* of its keys.  Redis knows those that are not empty.
Physical(i) == {k \in Key : Home[k] = i} \X Sides

Exists(c, x) == DOMAIN data[c][x[1]][x[2]] # {}

NonEmpty == {x \in Cluster \X Key : Exists(x[1], <<x[2], "ins">>)}

NoKeys == [phase |-> "idle", c |-> 1, left |-> {}, i |-> CHOOSE i \in Instance : TRUE,
           todo |-> {}, reply |-> {}, batch |-> {}]

NoWalk == [phase |-> "idle", left |-> {}, batch |-> {}, need |-> {}, walked |-> {}]
-----------------------------------------------------------------------------
(***************************************************************************)
(* main and scan: the clusters in random order.                            *)
(***************************************************************************)
WalkStart ==
    /\ walk.phase = "idle"
    /\ walk' = [NoWalk EXCEPT !.phase = "walking", !.left = Cluster]
    /\ steady' = NonEmpty
    /\ UNCHANGED <<data, keys, hand, outages>>

ScanCluster ==
    /\ walk.phase = "walking" /\ keys.phase = "idle" /\ hand = {}
    /\ \E c \in walk.left :
         /\ walk' = [walk EXCEPT !.left = @ \ {c}]
         /\ keys' = [NoKeys EXCEPT !.phase = "next", !.c = c, !.left = Instance]
    /\ UNCHANGED <<data, hand, steady, outages>>

\* walkOnce returns when scan has closed the channel.
Ended == /\ walk.phase = "walking" /\ walk.left = {} /\ keys.phase = "idle"
         /\ hand = {} /\ walk.batch = {}

WalkEnd ==
    /\ Ended
    /\ walk' = NoWalk
    /\ UNCHANGED <<data, keys, hand, steady, outages>>
-----------------------------------------------------------------------------
(***************************************************************************)
(* Keys.                                                                   *)
(***************************************************************************)
\* The next instance, in random order; after the last one the channel closes.
KeysInstance ==
    /\ keys.phase = "next"
    /\ IF keys.left = {}
       THEN keys' = NoKeys
       ELSE \E i \in keys.left :
              keys' = [keys EXCEPT !.phase = "scan", !.left = @ \ {i}, !.i = i,
                         !.todo = Physical(i), !.batch = {}]
    /\ UNCHANGED <<data, hand, walk, steady, outages>>

\* One SCAN: Redis goes on from the cursor over some more of the keyspace and
\* returns the keys that exist there.
KeysScan ==
    /\ keys.phase = "scan"
    /\ \E chunk \in SUBSET keys.todo :
         /\ keys.todo # {} => chunk # {}
         /\ keys' = [keys EXCEPT !.phase = "reply", !.todo = @ \ chunk,
                       !.reply = {x \in chunk : Exists(keys.c, x)}]
    /\ UNCHANGED <<data, hand, walk, steady, outages>>

\* The instance cannot be reached: the same SCAN again after a second.
KeysScanFail ==
    /\ keys.phase = "scan" /\ outages < MaxOutages
    /\ outages' = outages + 1
    /\ UNCHANGED <<data, keys, hand, walk, steady>>

Full == Cardinality(keys.batch) >= BatchSize

\* The keys of inserts sets are put into the batch.
KeysEmit ==
    /\ keys.phase = "reply" /\ ~Full
    /\ \E x \in keys.reply :
         keys' = [keys EXCEPT !.reply = @ \ {x},
                    !.batch = IF x[2] = "ins" THEN @ \cup {x[1]} ELSE @]
    /\ UNCHANGED <<data, hand, walk, steady, outages>>

\* A full batch is sent at once, the connection still held.
KeysSend ==
    /\ keys.phase = "reply" /\ Full /\ hand = {}
    /\ hand' = keys.batch
    /\ keys' = [keys EXCEPT !.batch = {}]
    /\ UNCHANGED <<data, walk, steady, outages>>

\* The callback of WithIndex returns: the connection goes back to the pool,
\* and the instance is done when the cursor is back at 0.
KeysReturn ==
    /\ keys.phase = "reply" /\ ~Full /\ keys.reply = {}
    /\ keys' = [keys EXCEPT !.phase = IF keys.todo = {} THEN "flush" ELSE "scan"]
    /\ UNCHANGED <<data, hand, walk, steady, outages>>

\* Mutant: the last batch of an instance is forgotten.
KeysFlushNothing ==
    /\ keys.phase = "flush"
    /\ keys' = [keys EXCEPT !.phase = "next", !.batch = {}]
    /\ UNCHANGED <<data, hand, walk, steady, outages>>

\* The rest of the batch is sent, if there is any.
KeysFlush ==
    /\ keys.phase = "flush"
    /\ keys.batch # {} => hand = {}
    /\ hand' = IF keys.batch # {} THEN keys.batch ELSE hand
    /\ keys' = [keys EXCEPT !.phase = "next", !.batch = {}]
    /\ UNCHANGED <<data, walk, steady, outages>>
-----------------------------------------------------------------------------
(***************************************************************************)
(* walkOnce.                                                               *)
(***************************************************************************)
\* It takes a batch when it has done with the one before, waits for tokens,
\* and Selects: one goroutine per cluster and instance.
WalkReceive ==
    /\ hand # {} /\ walk.batch = {}
    /\ walk' = [walk EXCEPT !.batch = hand, !.need = Cluster \X {Home[k] : k \in hand}]
    /\ hand' = {}
    /\ UNCHANGED <<data, keys, steady, outages>>

\* The connections of an instance that Keys holds.
InUse(c, i) == IF keys.phase = "reply" /\ keys.c = c /\ keys.i = i THEN 1 ELSE 0

\* Mutant: Keys' connection and one more are needed.
WalkSelectTwo(c, i) ==
    /\ <<c, i>> \in walk.need
    /\ InUse(c, i) + 1 < MaxConns
    /\ LET need == walk.need \ {<<c, i>>} IN
       walk' = [walk EXCEPT !.need = need,
                  !.walked = IF need = {} THEN @ \cup walk.batch ELSE @,
                  !.batch = IF need = {} THEN {} ELSE @]
    /\ UNCHANGED <<data, keys, hand, steady, outages>>

\* Instance i of cluster c answers, or fails, on a connection of its own; the
\* Select is over when all have.
WalkSelect(c, i) ==
    /\ <<c, i>> \in walk.need
    /\ InUse(c, i) < MaxConns
    /\ LET need == walk.need \ {<<c, i>>} IN
       walk' = [walk EXCEPT !.need = need,
                  !.walked = IF need = {} THEN @ \cup walk.batch ELSE @,
                  !.batch = IF need = {} THEN {} ELSE @]
    /\ UNCHANGED <<data, keys, hand, steady, outages>>

WalkWrite ==
    /\ \E w \in WalkWrites : Write(w)
    /\ steady' = steady \cap NonEmpty'
    /\ UNCHANGED <<keys, hand, walk, outages>>
-----------------------------------------------------------------------------
WalkInit == /\ keys = NoKeys
            /\ hand = {}
            /\ walk = NoWalk
            /\ steady = {}
            /\ outages = 0

KeysNext == KeysInstance \/ KeysScan \/ KeysEmit \/ KeysSend \/ KeysReturn \/ KeysFlush

WalkOnce == \/ WalkStart \/ ScanCluster \/ WalkEnd \/ WalkReceive
            \/ \E c \in Cluster, i \in Instance : WalkSelect(c, i)

WalkNext == KeysNext \/ KeysScanFail \/ WalkOnce \/ WalkWrite
=============================================================================
