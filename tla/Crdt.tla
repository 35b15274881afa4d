-------------------------------- MODULE Crdt --------------------------------
(***************************************************************************)
(* The state-based CRDTs of Java_RDL (crdt/counters and crdt/sets): each   *)
(* class's data and operations, and an application with several replicas   *)
(* of one of them that are updated, copied and merged in any order.        *)
(*                                                                         *)
(* HashMaps are functions, LinkedHashSets sets and the multimaps of ORSet  *)
(* sets of <<item, tag>>; a random UUID is the number of the update.       *)
(***************************************************************************)
EXTENDS Integers, FiniteSets, FiniteSetsExt, Functions

CONSTANTS Replicas,     \* the replicas
          Key,          \* keys of the counters and of GState
          Item,         \* items of the sets
          LastState,    \* highest ordinal of GState's enum
          MaxUpdates    \* bound: number of updates

ASSUME CrdtAssumption == LastState \in Nat /\ MaxUpdates \in Nat

VARIABLES kind,     \* the class in use
          obj,      \* obj[r]: the object of replica r
          seen,     \* history, seen[r]: the updates r has made or merged
          updates   \* number of updates so far

crdtVars == <<kind, obj, seen, updates>>

Kinds == {"GCounter", "PNCounter", "GState", "GSet", "TwoPSet", "ORSet"}
-----------------------------------------------------------------------------
(***************************************************************************)
(* GCounter and GState: a map from keys to numbers, absent ones below 0.   *)
(***************************************************************************)
NoCounts == [k \in {} |-> 0]

Put(f, k, v) == [x \in DOMAIN f \cup {k} |-> IF x = k THEN v ELSE f[x]]

GIncrement(counts, k) == Put(counts, k, (IF k \in DOMAIN counts THEN counts[k] ELSE 0) + 1)

GGet(counts) == FoldFunction(+, 0, counts)

\* Mutant: the other's count replaces one's own.
GMergeOverwrites(a, b) ==
    [k \in DOMAIN a \cup DOMAIN b |-> IF k \in DOMAIN b THEN b[k] ELSE a[k]]

GMerge(a, b) ==
    [k \in DOMAIN a \cup DOMAIN b |->
       Max({f[k] : f \in {g \in {a, b} : k \in DOMAIN g}})]

\* The next ordinal; IllegalStateException beyond the last one.
Ordinal(state, k) == IF k \in DOMAIN state THEN state[k] + 1 ELSE 0

PNMerge(a, b) == [inc |-> GMerge(a.inc, b.inc), dec |-> GMerge(a.dec, b.dec)]
-----------------------------------------------------------------------------
(***************************************************************************)
(* TwoPSet and ORSet.                                                      *)
(***************************************************************************)
NoTwoP == [adds |-> {}, removes |-> {}]

\* Mutant: a removed item is added again.
TwoPAddAgain(s, x) == [adds |-> s.adds \cup {x}, removes |-> s.removes \ {x}]

\* An item that was removed is not added again.
TwoPAdd(s, x) == IF x \in s.removes THEN s ELSE [s EXCEPT !.adds = @ \cup {x}]

\* Mutant: an item that is not there is removed.
TwoPRemoveAny(s, x) == [s EXCEPT !.removes = @ \cup {x}]

TwoPRemove(s, x) == IF x \in s.adds THEN [s EXCEPT !.removes = @ \cup {x}] ELSE s

\* Mutant: removes are not merged.
TwoPMergeAdds(a, b) == [adds |-> a.adds \cup b.adds, removes |-> a.removes]

TwoPMerge(a, b) == [adds |-> a.adds \cup b.adds, removes |-> a.removes \cup b.removes]

TwoPGet(s) == s.adds \ s.removes

NoOR == [observed |-> {}, removed |-> {}]

ORAdd(s, x, tag) == [s EXCEPT !.observed = @ \cup {<<x, tag>>}]

\* The tags of x move from observed to removed.
ORRemove(s, x) == LET tags == {t \in s.observed : t[1] = x}
                  IN  [observed |-> s.observed \ tags, removed |-> s.removed \cup tags]

\* Mutant: an item with a removed tag is removed.
ORMergeItems(a, b) ==
    LET gone == {t[1] : t \in a.removed \cup b.removed}
    IN  [observed |-> {t \in a.observed \cup b.observed : t[1] \notin gone},
         removed |-> a.removed \cup b.removed]

\* observed.removeAll(removed) takes the multimap for a key, which observed
\* does not have, and removes nothing.
ORMerge(a, b) == [observed |-> a.observed \cup b.observed,
                  removed |-> a.removed \cup b.removed]

ORGet(s) == {t[1] : t \in s.observed}
-----------------------------------------------------------------------------
(***************************************************************************)
(* An object of each class: new, merge, get.                               *)
(***************************************************************************)
NewObject(k) == CASE k \in {"GCounter", "GState"} -> NoCounts
                  [] k = "PNCounter" -> [inc |-> NoCounts, dec |-> NoCounts]
                  [] k = "GSet"      -> {}
                  [] k = "TwoPSet"   -> NoTwoP
                  [] k = "ORSet"     -> NoOR

Merged(k, a, b) == CASE k \in {"GCounter", "GState"} -> GMerge(a, b)
                     [] k = "PNCounter" -> PNMerge(a, b)
                     [] k = "GSet"      -> a \cup b
                     [] k = "TwoPSet"   -> TwoPMerge(a, b)
                     [] k = "ORSet"     -> ORMerge(a, b)

Value(k, a) == CASE k = "GCounter"  -> GGet(a)
                 [] k = "PNCounter" -> GGet(a.inc) - GGet(a.dec)
                 [] k \in {"GState", "GSet"} -> a
                 [] k = "TwoPSet"   -> TwoPGet(a)
                 [] k = "ORSet"     -> ORGet(a)
-----------------------------------------------------------------------------
(***************************************************************************)
(* The application.  An update is recorded with its number, its item or    *)
(* key, who made it, and, for the removal of an item, the updates it       *)
(* undoes.                                                                 *)
(***************************************************************************)
Update(r, op, x, undoes, new) ==
    /\ updates < MaxUpdates /\ updates' = updates + 1
    /\ obj' = [obj EXCEPT ![r] = new]
    /\ seen' = [seen EXCEPT ![r] =
                  @ \cup {[id |-> updates', op |-> op, x |-> x, by |-> r, undoes |-> undoes]}]
    /\ UNCHANGED kind

\* Any key may be counted by any replica.
Increment(r, k) ==
    \/ kind = "GCounter" /\ Update(r, "add", k, {}, GIncrement(obj[r], k))
    \/ kind = "PNCounter" /\ Update(r, "add", k, {}, [obj[r] EXCEPT !.inc = GIncrement(@, k)])
    \/ /\ kind = "GState" /\ Ordinal(obj[r], k) <= LastState
       /\ Update(r, "add", k, {}, Put(obj[r], k, Ordinal(obj[r], k)))

Decrement(r, k) ==
    kind = "PNCounter" /\ Update(r, "remove", k, {}, [obj[r] EXCEPT !.dec = GIncrement(@, k)])

Add(r, x) ==
    \/ kind = "GSet" /\ Update(r, "add", x, {}, obj[r] \cup {x})
    \/ kind = "TwoPSet" /\ Update(r, "add", x, {}, TwoPAdd(obj[r], x))
    \/ kind = "ORSet" /\ Update(r, "add", x, {}, ORAdd(obj[r], x, updates + 1))

Adds(r, x) == {u.id : u \in {v \in seen[r] : v.op = "add" /\ v.x = x}}

Remove(r, x) ==
    \/ kind = "TwoPSet" /\ Update(r, "remove", x, Adds(r, x), TwoPRemove(obj[r], x))
    \/ kind = "ORSet" /\ Update(r, "remove", x, Adds(r, x), ORRemove(obj[r], x))

Merge(r, s) ==
    /\ r # s
    /\ obj' = [obj EXCEPT ![r] = Merged(kind, obj[r], obj[s])]
    /\ seen' = [seen EXCEPT ![r] = @ \cup seen[s]]
    /\ UNCHANGED <<kind, updates>>

\* A new replica s starts as a copy of r.
Copy(r, s) ==
    /\ obj[s] = NewObject(kind) /\ seen[s] = {}
    /\ obj' = [obj EXCEPT ![s] = obj[r]]
    /\ seen' = [seen EXCEPT ![s] = seen[r]]
    /\ UNCHANGED <<kind, updates>>
-----------------------------------------------------------------------------
CrdtInit == /\ kind \in Kinds
            /\ obj = [r \in Replicas |-> NewObject(kind)]
            /\ seen = [r \in Replicas |-> {}]
            /\ updates = 0

CrdtNext == \E r \in Replicas :
              \/ \E k \in Key : Increment(r, k) \/ Decrement(r, k)
              \/ \E x \in Item : Add(r, x) \/ Remove(r, x)
              \/ \E s \in Replicas : Merge(r, s) \/ Copy(r, s)
=============================================================================
