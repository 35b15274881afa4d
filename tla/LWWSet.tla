------------------------------- MODULE LWWSet -------------------------------
(***************************************************************************)
(* The two physical sorted sets behind one Roshi key, key+ ("ins") and     *)
(* key- ("del"), and the Lua script of cluster/cluster.go that every       *)
(* Insert and Delete executes on them.  Redis runs a script atomically, so *)
(* one application of Script is one step of the server.                    *)
(*                                                                         *)
(* A sorted set is a function from the members it holds to their scores.   *)
(* Members are integers: their order stands for the byte order Redis uses  *)
(* to rank members of equal score.  Scores are integers in place of the    *)
(* float64 of the code, of which only the comparisons are used.            *)
(***************************************************************************)
EXTENDS Integers, FiniteSets

CONSTANTS Member,   \* the members that may be written
          Score,    \* the scores that may be written
          MaxSize   \* the maxSize of cluster.New: bound of each sorted set

ASSUME LWWSetAssumption == /\ Member \subseteq Int /\ IsFiniteSet(Member)
                           /\ Score \subseteq Int
                           /\ MaxSize \in Nat

Sides == {"ins", "del"}

\* ADDSUFFIX and REMSUFFIX of the generic script: a write to one set removes
\* the member from the other.
Other(side) == IF side = "ins" THEN "del" ELSE "ins"

ZSet == UNION {[D -> Score] : D \in SUBSET Member}

Replica == [Sides -> ZSet]

EmptyReplica == [side \in Sides |-> [m \in {} |-> 0]]
-----------------------------------------------------------------------------
(***************************************************************************)
(* The Redis sorted-set commands the code uses.                            *)
(***************************************************************************)
ZAdd(z, s, m) == [x \in DOMAIN z \cup {m} |-> IF x = m THEN s ELSE z[x]]

ZRem(z, m) == [x \in DOMAIN z \ {m} |-> z[x]]

\* x ranks above m in z: higher score, ties broken by member.
Above(z, x, m) == \/ z[x] > z[m]
                  \/ z[x] = z[m] /\ x > m

\* Mutant: one element too many survives the trim.
ZTopPlusOne(z, n) ==
    [m \in {y \in DOMAIN z : Cardinality({x \in DOMAIN z : Above(z, x, y)}) <= n}
        |-> z[m]]

\* The n highest-ranked elements: ZREVRANGE 0 n-1, and what is left after
\* ZREMRANGEBYRANK 0 -(n+1).
ZTop(z, n) ==
    [m \in {y \in DOMAIN z : Cardinality({x \in DOMAIN z : Above(z, x, y)}) < n}
        |-> z[m]]
-----------------------------------------------------------------------------
(***************************************************************************)
(* The script.                                                             *)
(***************************************************************************)
\* Mutant: a full set refuses every score.
TooOldAnyScore(r, side, s) == Cardinality(DOMAIN r[side]) >= MaxSize

\* First early return: the set is full and the score is below all of it.
\* (oldestTs is nil, and the test skipped, when the set is empty.)
TooOld(r, side, s) ==
    /\ Cardinality(DOMAIN r[side]) >= MaxSize
    /\ DOMAIN r[side] # {}
    /\ \A x \in DOMAIN r[side] : s < r[side][x]

\* Mutant: only the inserts set is consulted.
StaleInsertsOnly(r, s, m) == m \in DOMAIN r["ins"] /\ s < r["ins"][m]

\* Second early return: the member is known, in either set, with a higher
\* score.  An equal score is accepted.
Stale(r, s, m) == \E side \in Sides : m \in DOMAIN r[side] /\ s < r[side][m]

Accepts(r, side, s, m) == ~TooOld(r, side, s) /\ ~Stale(r, s, m)

\* Mutant: the ZREM is missing.
ScriptKeepsOther(r, side, s, m) ==
    IF Accepts(r, side, s, m)
    THEN [r EXCEPT ![side] = ZTop(ZAdd(@, s, m), MaxSize)]
    ELSE r

Script(r, side, s, m) ==
    IF Accepts(r, side, s, m)
    THEN [x \in Sides |-> IF x = side THEN ZTop(ZAdd(r[x], s, m), MaxSize)
                                      ELSE ZRem(r[x], m)]
    ELSE r

\* A member's standing in a replica: the pairs (side, score) it has.
Standing(r, m) == {<<side, r[side][m]>> : side \in {x \in Sides : m \in DOMAIN r[x]}}
=============================================================================
