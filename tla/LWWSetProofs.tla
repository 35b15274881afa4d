---------------------------- MODULE LWWSetProofs ----------------------------
(***************************************************************************)
(* Lemmas about the script of LWWSet, for every finite set of members, all *)
(* scores and every MaxSize.                                               *)
(***************************************************************************)
EXTENDS LWWSet, FiniteSetTheorems, FunctionTheorems, WellFoundedInduction, TLAPS

\* The members above y in z.
Better(z, y) == {x \in DOMAIN z : Above(z, x, y)}

\* A sorted set is a function from some of the members to scores.
LEMMA ZSetFacts ==
    ASSUME NEW z
    PROVE  z \in ZSet <=> /\ z = [m \in DOMAIN z |-> z[m]]
                          /\ DOMAIN z \subseteq Member
                          /\ \A m \in DOMAIN z : z[m] \in Score
<1>1. ASSUME z \in ZSet PROVE /\ z = [m \in DOMAIN z |-> z[m]]
                              /\ DOMAIN z \subseteq Member
                              /\ \A m \in DOMAIN z : z[m] \in Score
  BY <1>1 DEF ZSet
<1>2. ASSUME z = [m \in DOMAIN z |-> z[m]], DOMAIN z \subseteq Member,
             \A m \in DOMAIN z : z[m] \in Score
      PROVE  z \in ZSet
  <2>1. z \in [DOMAIN z -> Score]
    BY <1>2
  <2>2. QED
    BY <1>2, <2>1 DEF ZSet
<1>3. QED
  BY <1>1, <1>2

LEMMA ZFinite ==
    ASSUME NEW z \in ZSet, NEW S \in SUBSET DOMAIN z
    PROVE  IsFiniteSet(S) /\ Cardinality(S) \in Nat
<1>1. S \subseteq Member
  BY ZSetFacts
<1>2. QED
  BY <1>1, LWWSetAssumption, FS_Subset, FS_CardinalityType

\* The commands keep the type of a sorted set.
LEMMA ZType ==
    ASSUME NEW z \in ZSet
    PROVE  /\ \A s \in Score, m \in Member : ZAdd(z, s, m) \in ZSet
           /\ \A m : ZRem(z, m) \in ZSet
           /\ \A n : ZTop(z, n) \in ZSet
<1>0. DOMAIN z \subseteq Member /\ \A m \in DOMAIN z : z[m] \in Score
  BY ZSetFacts
<1>1. ASSUME NEW s \in Score, NEW m \in Member PROVE ZAdd(z, s, m) \in ZSet
  <2>1. ZAdd(z, s, m) \in [DOMAIN z \cup {m} -> Score]
    BY <1>0 DEF ZAdd
  <2>2. QED
    BY <1>0, <2>1 DEF ZSet
<1>2. ASSUME NEW m PROVE ZRem(z, m) \in ZSet
  <2>1. ZRem(z, m) \in [DOMAIN z \ {m} -> Score]
    BY <1>0 DEF ZRem
  <2>2. QED
    BY <1>0, <2>1 DEF ZSet
<1>3. ASSUME NEW n PROVE ZTop(z, n) \in ZSet
  <2> DEFINE D == {y \in DOMAIN z : Cardinality({x \in DOMAIN z : Above(z, x, y)}) < n}
  <2>1. ZTop(z, n) \in [D -> Score]
    BY <1>0 DEF ZTop
  <2>2. QED
    BY <1>0, <2>1 DEF ZSet
<1>4. QED
  BY <1>1, <1>2, <1>3

\* The script keeps the type of a replica.
LEMMA ScriptType ==
    ASSUME NEW r \in Replica, NEW side \in Sides, NEW s \in Score, NEW m \in Member
    PROVE  Script(r, side, s, m) \in Replica
<1>1. \A x \in Sides : r[x] \in ZSet
  BY DEF Replica
<1>2. \A x \in Sides : ZTop(ZAdd(r[x], s, m), MaxSize) \in ZSet /\ ZRem(r[x], m) \in ZSet
  BY <1>1, ZType
<1>3. QED
  BY <1>2 DEF Script, Replica

\* The script keeps the two sets disjoint.
LEMMA ScriptExclusive ==
    ASSUME NEW r, NEW side \in Sides, NEW s, NEW m,
           DOMAIN r["ins"] \cap DOMAIN r["del"] = {}
    PROVE  DOMAIN Script(r, side, s, m)["ins"] \cap DOMAIN Script(r, side, s, m)["del"] = {}
<1>1. CASE ~Accepts(r, side, s, m)
  BY <1>1 DEF Script
<1>2. CASE Accepts(r, side, s, m)
  <2>1. \A z, n : DOMAIN ZTop(z, n) \subseteq DOMAIN z
    BY DEF ZTop
  <2>2. /\ \A z : DOMAIN ZAdd(z, s, m) = DOMAIN z \cup {m}
        /\ \A z : DOMAIN ZRem(z, m) = DOMAIN z \ {m}
    BY DEF ZAdd, ZRem
  <2>3. /\ DOMAIN Script(r, side, s, m)[side] \subseteq DOMAIN r[side] \cup {m}
        /\ \A x \in Sides \ {side} : DOMAIN Script(r, side, s, m)[x] = DOMAIN r[x] \ {m}
    BY <1>2, <2>1, <2>2, ZenonT(40) DEF Script
  <2>4. QED
    BY <2>3 DEF Sides
<1>3. QED
  BY <1>1, <1>2
-----------------------------------------------------------------------------
(***************************************************************************)
(* At most n elements are among the n highest.  Two members of the kept    *)
(* set have different numbers of members above them, all below n.          *)
(***************************************************************************)
LEMMA AboveOrder ==
    ASSUME NEW z \in ZSet, NEW a \in DOMAIN z, NEW b \in DOMAIN z, a # b
    PROVE  Cardinality(Better(z, a)) # Cardinality(Better(z, b))
<1>1. DOMAIN z \subseteq Int /\ \A x \in DOMAIN z : z[x] \in Int
  BY ZSetFacts, LWWSetAssumption
<1>2. ASSUME NEW u \in DOMAIN z, NEW v \in DOMAIN z, Above(z, u, v)
      PROVE  Cardinality(Better(z, u)) # Cardinality(Better(z, v))
  <2>1. Better(z, u) \subseteq Better(z, v)
    BY <1>1, <1>2 DEF Better, Above
  <2>2. u \in Better(z, v) /\ u \notin Better(z, u)
    BY <1>1, <1>2 DEF Better, Above
  <2>3. IsFiniteSet(Better(z, v))
    BY ZFinite DEF Better
  <2>4. QED
    BY <2>1, <2>2, <2>3, FS_Subset
<1>3. Above(z, a, b) \/ Above(z, b, a)
  BY <1>1 DEF Above
<1>4. QED
  BY <1>2, <1>3

LEMMA TopBounded ==
    ASSUME NEW z \in ZSet, NEW n \in Nat
    PROVE  Cardinality(DOMAIN ZTop(z, n)) <= n
<1> DEFINE D == DOMAIN ZTop(z, n)
           f == [y \in D |-> Cardinality(Better(z, y))]
<1>1. D = {y \in DOMAIN z : Cardinality(Better(z, y)) < n}
  BY DEF ZTop, Better
<1>2. \A y \in D : Cardinality(Better(z, y)) \in 0..(n-1)
  <2>1. \A y \in D : Cardinality(Better(z, y)) \in Nat
    BY ZFinite DEF Better
  <2>2. QED
    BY <1>1, <2>1
<1>3. f \in [D -> 0..(n-1)]
  BY <1>2
<1>4. \A a, b \in D : f[a] = f[b] => a = b
  BY <1>1, AboveOrder
<1>5. f \in Injection(D, 0..(n-1))
  BY <1>3, <1>4 DEF Injection, IsInjective
<1>6. IsFiniteSet(0..(n-1)) /\ Cardinality(0..(n-1)) = n
  BY FS_Interval
<1>7. QED
  BY <1>5, <1>6, FS_Injection

\* No set grows beyond MaxSize.
LEMMA ScriptBounded ==
    ASSUME NEW r \in Replica, NEW side \in Sides, NEW s \in Score, NEW m \in Member,
           \A x \in Sides : Cardinality(DOMAIN r[x]) <= MaxSize
    PROVE  \A x \in Sides : Cardinality(DOMAIN Script(r, side, s, m)[x]) <= MaxSize
<1>1. \A x \in Sides : r[x] \in ZSet /\ ZAdd(r[x], s, m) \in ZSet
  BY ZType DEF Replica
<1>2. Cardinality(DOMAIN ZTop(ZAdd(r[side], s, m), MaxSize)) <= MaxSize
  BY <1>1, TopBounded, LWWSetAssumption
<1>3. ASSUME NEW x \in Sides PROVE Cardinality(DOMAIN ZRem(r[x], m)) <= MaxSize
  <2>1. DOMAIN ZRem(r[x], m) \subseteq DOMAIN r[x]
    BY DEF ZRem
  <2>2. /\ IsFiniteSet(DOMAIN r[x])
        /\ Cardinality(DOMAIN r[x]) \in Nat /\ Cardinality(DOMAIN ZRem(r[x], m)) \in Nat
    BY <1>1, <2>1, ZFinite
  <2>3. Cardinality(DOMAIN ZRem(r[x], m)) <= Cardinality(DOMAIN r[x])
    BY <2>1, <2>2, FS_Subset
  <2>4. QED
    BY <2>2, <2>3, LWWSetAssumption
<1>4. QED
  BY <1>2, <1>3 DEF Script
-----------------------------------------------------------------------------
(***************************************************************************)
(* The script when no set can overflow: the trim removes nothing, the      *)
(* capacity test refuses nothing that is not stale, and what remains is a  *)
(* register per member that keeps the highest score.                       *)
(***************************************************************************)
Fits == Cardinality(Member) <= MaxSize

\* The n highest are all when there are no more than n members.
LEMMA TopAll ==
    ASSUME NEW n \in Nat, Cardinality(Member) <= n, NEW z \in ZSet
    PROVE  ZTop(z, n) = z
<1>1. DOMAIN z \subseteq Member /\ z = [m \in DOMAIN z |-> z[m]] /\ \A x \in DOMAIN z : z[x] \in Int
  BY ZSetFacts, LWWSetAssumption
<1>2. ASSUME NEW y \in DOMAIN z PROVE Cardinality(Better(z, y)) < n
  <2>1. Better(z, y) \subseteq Member /\ y \in Member /\ y \notin Better(z, y)
    BY <1>1, LWWSetAssumption DEF Better, Above
  <2>2. /\ IsFiniteSet(Member) /\ Cardinality(Member) \in Nat
        /\ Cardinality(Better(z, y)) \in Nat
        /\ Cardinality(Better(z, y)) <= Cardinality(Member)
        /\ Cardinality(Better(z, y)) # Cardinality(Member)
    BY <2>1, LWWSetAssumption, FS_Subset, FS_CardinalityType
  <2>3. QED
    BY <2>2
<1>3. {y \in DOMAIN z : Cardinality({x \in DOMAIN z : Above(z, x, y)}) < n} = DOMAIN z
  BY <1>2 DEF Better
<1>4. QED
  BY <1>1, <1>3 DEF ZTop

LEMMA TopWhole ==
    ASSUME Fits, NEW z \in ZSet
    PROVE  ZTop(z, MaxSize) = z
  BY TopAll, LWWSetAssumption DEF Fits

LEMMA TooOldIsStale ==
    ASSUME Fits, NEW r \in Replica, NEW side \in Sides, NEW s \in Score, NEW m \in Member,
           TooOld(r, side, s)
    PROVE  Stale(r, s, m)
<1>1. r[side] \in ZSet
  BY DEF Replica
<1>2. DOMAIN r[side] \subseteq Member
  BY <1>1, ZSetFacts
<1>3. Cardinality(DOMAIN r[side]) \in Nat /\ Cardinality(Member) \in Nat
      /\ Cardinality(DOMAIN r[side]) <= Cardinality(Member)
  BY <1>2, LWWSetAssumption, FS_Subset, FS_CardinalityType
<1>4. Cardinality(DOMAIN r[side]) = Cardinality(Member)
  BY <1>3, LWWSetAssumption DEF Fits, TooOld
<1>5. DOMAIN r[side] = Member
  BY <1>2, <1>4, LWWSetAssumption, FS_Subset
<1>6. QED
  BY <1>5 DEF TooOld, Stale

\* A command newer than or as new as all that is known of its member replaces the
\* member's standing, any other command changes nothing, and no command touches
\* another member.
LEMMA ScriptStanding ==
    ASSUME Fits, NEW r \in Replica, NEW side \in Sides, NEW s \in Score, NEW m \in Member
    PROVE  /\ Stale(r, s, m) => Script(r, side, s, m) = r
           /\ ~Stale(r, s, m) => Standing(Script(r, side, s, m), m) = {<<side, s>>}
           /\ \A x : x # m => Standing(Script(r, side, s, m), x) = Standing(r, x)
<1>1. ASSUME Stale(r, s, m) PROVE Script(r, side, s, m) = r
  BY <1>1 DEF Script, Accepts
<1>2. ASSUME ~Stale(r, s, m)
      PROVE  /\ Standing(Script(r, side, s, m), m) = {<<side, s>>}
             /\ \A x : x # m => Standing(Script(r, side, s, m), x) = Standing(r, x)
  <2> DEFINE q == Script(r, side, s, m)
  <2>1. Accepts(r, side, s, m)
    BY <1>2, TooOldIsStale DEF Accepts
  <2>2. r[side] \in ZSet /\ ZAdd(r[side], s, m) \in ZSet
    BY ZType DEF Replica
  <2>3. ZTop(ZAdd(r[side], s, m), MaxSize) = ZAdd(r[side], s, m)
    BY <2>2, TopWhole
  <2>4. q = [x \in Sides |-> IF x = side THEN ZAdd(r[x], s, m) ELSE ZRem(r[x], m)]
    BY <2>1, <2>3 DEF Script
  <2>5. /\ q[side] = ZAdd(r[side], s, m)
        /\ \A o \in Sides : o # side => q[o] = ZRem(r[o], m)
    BY <2>4
  <2>6. /\ DOMAIN q[side] = DOMAIN r[side] \cup {m}
        /\ q[side][m] = s
        /\ \A x \in DOMAIN r[side] : x # m => q[side][x] = r[side][x]
        /\ \A o \in Sides : o # side => /\ DOMAIN q[o] = DOMAIN r[o] \ {m}
                                        /\ \A x \in DOMAIN q[o] : q[o][x] = r[o][x]
    BY <2>5, ZenonT(40) DEF ZAdd, ZRem
  <2> HIDE DEF q
  <2>7. Standing(q, m) = {<<side, s>>}
    BY <2>6 DEF Standing
  <2>8. ASSUME NEW x, x # m PROVE Standing(q, x) = Standing(r, x)
    BY <2>6, <2>8 DEF Standing
  <2>9. QED
    BY <2>7, <2>8 DEF q
<1>3. QED
  BY <1>1, <1>2
-----------------------------------------------------------------------------
(***************************************************************************)
(* Least and greatest elements.                                            *)
(***************************************************************************)
\* A set of naturals has a least element.
LEMMA LeastNatural ==
    ASSUME NEW T, T \subseteq Nat, T # {}
    PROVE  \E n \in T : \A k \in T : n <= k
<1> DEFINE R == {ss \in Nat \X Nat : ss[1] < ss[2]}
<1>1. IsWellFoundedOn(R, Nat)
  BY NatLessThanWellFounded DEF OpToRel
<1>2. PICK n \in T : \A k \in T : <<k, n>> \notin R
  <2> HIDE DEF R
  <2> QED
    BY <1>1, WFMin
<1>3. \A k \in T : ~(k < n)
  BY <1>2
<1> QED
  BY <1>3

\* A finite set of integers has a greatest one: the one with the fewest above it.
LEMMA GreatestInteger ==
    ASSUME NEW S, S \subseteq Int, IsFiniteSet(S), S # {}
    PROVE  \E x \in S : \A y \in S : y <= x
<1> DEFINE over(x) == {y \in S : x < y}
           T == {Cardinality(over(x)) : x \in S}
<1>1. \A x \in S : IsFiniteSet(over(x)) /\ Cardinality(over(x)) \in Nat
  BY FS_Subset, FS_CardinalityType
<1>2. PICK n \in T : \A k \in T : n <= k
  <2>1. T \subseteq Nat /\ T # {}
    BY <1>1
  <2> HIDE DEF T
  <2> QED
    BY <2>1, LeastNatural
<1>3. PICK x \in S : n = Cardinality(over(x))
  OBVIOUS
<1>4. ASSUME NEW y \in S, x < y PROVE FALSE
  <2>1. /\ \A v \in S : y < v => x < v
        /\ ~(y < y)
    <3>1. x \in Int /\ y \in Int /\ \A v \in S : v \in Int
      OBVIOUS
    <3> QED
      BY <1>4, <3>1
  <2>2. over(y) \subseteq over(x) /\ y \in over(x) /\ y \notin over(y)
    BY <1>4, <2>1
  <2>3. Cardinality(over(x)) <= Cardinality(over(y))
    BY <1>2, <1>3
  <2>4. /\ IsFiniteSet(over(x)) /\ Cardinality(over(x)) \in Nat
        /\ Cardinality(over(y)) \in Nat
    BY <1>1
  <2> HIDE DEF over, T
  <2>5. Cardinality(over(y)) < Cardinality(over(x))
    BY <2>2, <2>4, FS_Subset
  <2> QED
    BY <2>3, <2>4, <2>5
<1>5. \A y \in S : y \in Int /\ x \in Int
  OBVIOUS
<1>6. \A y \in S : ~(x < y)
  BY <1>4
<1> QED
  BY <1>5, <1>6
-----------------------------------------------------------------------------
(***************************************************************************)
(* The n highest when there are more: no element is lost that would be     *)
(* among them later, so what the script keeps are the highest of all it    *)
(* was given.                                                              *)
(***************************************************************************)
\* Of two members one is above the other; what is above has less above it.
LEMMA AboveTotal ==
    ASSUME NEW z \in ZSet, NEW a \in DOMAIN z, NEW b \in DOMAIN z
    PROVE  /\ a # b => Above(z, a, b) \/ Above(z, b, a)
           /\ Above(z, a, b) => ~Above(z, b, a) /\ a # b
           /\ Above(z, a, b) => Cardinality(Better(z, a)) < Cardinality(Better(z, b))
           /\ IsFiniteSet(Better(z, a)) /\ Cardinality(Better(z, a)) \in Nat
<1>1. DOMAIN z \subseteq Int /\ \A x \in DOMAIN z : z[x] \in Int
  BY ZSetFacts, LWWSetAssumption
<1>2. \A x \in DOMAIN z : IsFiniteSet(Better(z, x)) /\ Cardinality(Better(z, x)) \in Nat
  BY ZFinite DEF Better
<1>3. ASSUME Above(z, a, b) PROVE Cardinality(Better(z, a)) < Cardinality(Better(z, b))
  <2>1. Better(z, a) \subseteq Better(z, b)
    BY <1>1, <1>3 DEF Better, Above
  <2>2. a \in Better(z, b) /\ a \notin Better(z, a)
    BY <1>1, <1>3 DEF Better, Above
  <2> QED
    BY <1>2, <2>1, <2>2, FS_Subset
<1>4. a # b => Above(z, a, b) \/ Above(z, b, a)
  BY <1>1 DEF Above
<1>5. Above(z, a, b) => ~Above(z, b, a) /\ a # b
  BY <1>1 DEF Above
<1> QED
  BY <1>2, <1>3, <1>4, <1>5

\* An element is left out only if n others are kept, all above it.
LEMMA TopFull ==
    ASSUME NEW z \in ZSet, NEW n \in Nat, NEW x \in DOMAIN z, x \notin DOMAIN ZTop(z, n)
    PROVE  /\ Cardinality(DOMAIN ZTop(z, n)) >= n
           /\ \A y \in DOMAIN ZTop(z, n) : Above(z, y, x)
<1> DEFINE top == DOMAIN ZTop(z, n)
           out == DOMAIN z \ top
           T == {Cardinality(Better(z, y)) : y \in out}
<1>1. top = {y \in DOMAIN z : Cardinality(Better(z, y)) < n}
  BY DEF ZTop, Better
<1>2. \A y \in DOMAIN z : Cardinality(Better(z, y)) \in Nat
  BY AboveTotal
<1> HIDE DEF top
<1>3. ASSUME NEW y \in top PROVE Above(z, y, x)
  <2>1. y \in DOMAIN z /\ Cardinality(Better(z, y)) < n /\ ~(Cardinality(Better(z, x)) < n)
    BY <1>1 DEF top
  <2>2. ~Above(z, x, y)
    <3>1. Above(z, x, y) => Cardinality(Better(z, x)) < Cardinality(Better(z, y))
      BY <2>1, AboveTotal
    <3> QED
      BY <1>2, <2>1, <3>1
  <2>3. x # y
    BY <2>1
  <2> QED
    BY <2>1, <2>2, <2>3, AboveTotal
<1>4. PICK k \in T : \A j \in T : k <= j
  <2>1. x \in out
    BY DEF top
  <2>2. T \subseteq Nat /\ T # {}
    BY <1>2, <2>1
  <2> HIDE DEF T
  <2> QED
    BY <2>2, LeastNatural
<1>5. PICK y \in out : k = Cardinality(Better(z, y))
  OBVIOUS
<1>6. Better(z, y) \subseteq top
  <2> SUFFICES ASSUME NEW v \in Better(z, y), v \notin top PROVE FALSE
    OBVIOUS
  <2>1. v \in DOMAIN z /\ Above(z, v, y)
    BY DEF Better
  <2>2. Cardinality(Better(z, v)) < Cardinality(Better(z, y))
    BY <2>1, AboveTotal
  <2>3. Cardinality(Better(z, y)) <= Cardinality(Better(z, v))
    BY <1>4, <1>5, <2>1
  <2> QED
    BY <1>2, <2>1, <2>2, <2>3
<1>7. Cardinality(top) >= n
  <2>1. IsFiniteSet(top) /\ Cardinality(top) \in Nat
    BY <1>1, ZFinite
  <2>2. Cardinality(Better(z, y)) <= Cardinality(top)
    BY <1>6, <2>1, FS_Subset
  <2>3. ~(Cardinality(Better(z, y)) < n)
    BY <1>1
  <2> QED
    BY <1>2, <2>1, <2>2, <2>3
<1> QED
  BY <1>3, <1>7 DEF top

\* Trimming before a member is added or raised loses nothing.
LEMMA TopAdd ==
    ASSUME NEW z \in ZSet, NEW n \in Nat, NEW s \in Score, NEW m \in Member,
           m \in DOMAIN z => z[m] <= s
    PROVE  ZTop(ZAdd(ZTop(z, n), s, m), n) = ZTop(ZAdd(z, s, m), n)
<1> DEFINE top == ZTop(z, n)
           a == ZAdd(top, s, m)
           b == ZAdd(z, s, m)
<1>1. top \in ZSet /\ a \in ZSet /\ b \in ZSet
  BY ZType
<1>2. /\ DOMAIN top \subseteq DOMAIN z /\ \A y \in DOMAIN top : top[y] = z[y]
      /\ \A y \in DOMAIN z : y \in DOMAIN top <=> Cardinality(Better(z, y)) < n
  BY DEF ZTop, Better
<1>3. /\ DOMAIN b = DOMAIN z \cup {m} /\ DOMAIN a = DOMAIN top \cup {m}
      /\ \A y \in DOMAIN b : b[y] = IF y = m THEN s ELSE z[y]
      /\ \A y \in DOMAIN a : a[y] = IF y = m THEN s ELSE top[y]
  BY DEF ZAdd
<1> HIDE DEF top, a, b
<1>4. \A y \in DOMAIN a : y \in DOMAIN b /\ a[y] = b[y]
  BY <1>2, <1>3
<1>5. /\ s \in Int /\ \A y \in DOMAIN z : y \in Int /\ z[y] \in Int
      /\ m \in Int
  BY ZSetFacts, LWWSetAssumption
<1>6. \A y \in DOMAIN a : Better(a, y) \subseteq Better(b, y)
  BY <1>4 DEF Better, Above
<1>7. ASSUME NEW y \in DOMAIN b, Cardinality(Better(b, y)) < n
      PROVE  y \in DOMAIN a /\ Cardinality(Better(a, y)) < n
  <2>1. y \in DOMAIN a
    <3>1. CASE y = m
      BY <1>3, <3>1
    <3>2. CASE y # m
      <4>1. Better(z, y) \subseteq Better(b, y)
        BY <1>3, <1>5, <3>2 DEF Better, Above
      <4>2. Cardinality(Better(z, y)) <= Cardinality(Better(b, y))
        BY <1>1, <4>1, AboveTotal, FS_Subset
      <4>3. y \in DOMAIN z /\ Cardinality(Better(z, y)) \in Nat
            /\ Cardinality(Better(b, y)) \in Nat
        BY <1>1, <1>3, <3>2, AboveTotal
      <4>4. Cardinality(Better(z, y)) < n
        BY <1>7, <4>2, <4>3
      <4> QED
        BY <1>2, <1>3, <4>3, <4>4
    <3> QED
      BY <3>1, <3>2
  <2>2. Cardinality(Better(a, y)) <= Cardinality(Better(b, y))
    BY <1>1, <1>6, <2>1, AboveTotal, FS_Subset
  <2>3. Cardinality(Better(a, y)) \in Nat /\ Cardinality(Better(b, y)) \in Nat
    BY <1>1, <2>1, AboveTotal
  <2> QED
    BY <1>7, <2>1, <2>2, <2>3
<1>8. ASSUME NEW y \in DOMAIN a, Cardinality(Better(a, y)) < n
      PROVE  Cardinality(Better(b, y)) < n
  <2>1. Better(b, y) \subseteq Better(a, y)
    <3> SUFFICES ASSUME NEW x \in Better(b, y), x \notin DOMAIN a PROVE FALSE
      BY <1>4 DEF Better, Above
    <3>1. x \in DOMAIN z /\ x # m /\ x \notin DOMAIN top /\ Above(b, x, y)
      BY <1>3 DEF Better
    <3>2. Cardinality(DOMAIN top) >= n /\ \A v \in DOMAIN top : Above(z, v, x)
      BY <3>1, TopFull DEF top
    <3>3. y = m
      <4> SUFFICES ASSUME y # m PROVE FALSE
        OBVIOUS
      <4>1. y \in DOMAIN top /\ Above(z, y, x)
        BY <1>3, <3>2
      <4>2. Above(z, x, y)
        BY <1>3, <1>4, <3>1 DEF Above
      <4> QED
        BY <1>2, <3>1, <4>1, <4>2, AboveTotal
    <3>4. m \notin DOMAIN top
      <4> SUFFICES ASSUME m \in DOMAIN top PROVE FALSE
        OBVIOUS
      <4>1. Above(z, m, x) /\ m \in DOMAIN z /\ z[m] <= s
        BY <1>2, <3>2
      <4>2. b[x] = z[x] /\ b[m] = s
        BY <1>3, <3>1
      <4> QED
        BY <1>5, <3>1, <3>3, <4>1, <4>2 DEF Above
    <3>5. DOMAIN top \subseteq Better(a, m)
      <4> SUFFICES ASSUME NEW v \in DOMAIN top PROVE v \in Better(a, m)
        OBVIOUS
      <4>1. Above(z, v, x) /\ v # m
        BY <3>2, <3>4
      <4>2. a[v] = z[v] /\ a[m] = s /\ b[x] = z[x] /\ b[m] = s
        BY <1>2, <1>3, <3>1, <4>1
      <4>3. v \in DOMAIN z /\ v \in DOMAIN a
        BY <1>2, <1>3
      <4> QED
        BY <1>5, <3>1, <3>3, <4>1, <4>2, <4>3 DEF Better, Above
    <3>6. /\ IsFiniteSet(Better(a, m)) /\ Cardinality(Better(a, m)) \in Nat
          /\ Cardinality(DOMAIN top) \in Nat
      BY <1>1, <3>3, AboveTotal, ZFinite
    <3>7. Cardinality(DOMAIN top) <= Cardinality(Better(a, m))
      BY <3>5, <3>6, FS_Subset
    <3> QED
      BY <1>8, <3>2, <3>3, <3>6, <3>7
  <2>2. Better(b, y) = Better(a, y)
    BY <1>6, <2>1
  <2> QED
    BY <1>8, <2>2
<1>9. DOMAIN ZTop(a, n) = DOMAIN ZTop(b, n)
  <2>1. DOMAIN ZTop(a, n) = {y \in DOMAIN a : Cardinality(Better(a, y)) < n}
    BY DEF ZTop, Better
  <2>2. DOMAIN ZTop(b, n) = {y \in DOMAIN b : Cardinality(Better(b, y)) < n}
    BY DEF ZTop, Better
  <2> QED
    BY <1>4, <1>7, <1>8, <2>1, <2>2
<1>10. ZTop(a, n) = ZTop(b, n)
  <2>1. /\ ZTop(a, n) = [y \in DOMAIN ZTop(a, n) |-> a[y]]
        /\ ZTop(b, n) = [y \in DOMAIN ZTop(b, n) |-> b[y]]
        /\ DOMAIN ZTop(a, n) \subseteq DOMAIN a
    BY DEF ZTop
  <2> QED
    BY <1>4, <1>9, <2>1
<1> QED
  BY <1>10 DEF a, b, top

\* A command in a sorted set that remembers everything: the score goes up or stays.
Raise(z, s, m) == IF m \in DOMAIN z /\ s < z[m] THEN z ELSE ZAdd(z, s, m)

\* While the deletes set is empty, what an Insert leaves of the highest is the highest
\* of what it would leave of all: whether it is refused as too old, refused as
\* stale, or accepted and another member evicted.
LEMMA ScriptTop ==
    ASSUME NEW r \in Replica, NEW z \in ZSet, NEW s \in Score, NEW m \in Member,
           r["ins"] = ZTop(z, MaxSize), DOMAIN r["del"] = {}
    PROVE  /\ Script(r, "ins", s, m)["ins"] = ZTop(Raise(z, s, m), MaxSize)
           /\ DOMAIN Script(r, "ins", s, m)["del"] = {}
<1> DEFINE top == ZTop(z, MaxSize)
<1>1. /\ DOMAIN top \subseteq DOMAIN z /\ \A y \in DOMAIN top : top[y] = z[y]
      /\ top \in ZSet /\ MaxSize \in Nat
  BY ZType, LWWSetAssumption DEF ZTop
<1>2. s \in Int /\ \A y \in DOMAIN z : z[y] \in Int
  BY ZSetFacts, LWWSetAssumption
<1>3. Cardinality(DOMAIN top) \in Nat
  BY <1>1, ZFinite
<1>4. /\ Stale(r, s, m) <=> m \in DOMAIN top /\ s < z[m]
      /\ TooOld(r, "ins", s) <=> /\ Cardinality(DOMAIN top) >= MaxSize /\ DOMAIN top # {}
                                 /\ \A x \in DOMAIN top : s < z[x]
  BY <1>1 DEF Stale, TooOld, Sides
<1> HIDE DEF top
<1>5. CASE Stale(r, s, m)
  BY <1>1, <1>4, <1>5 DEF Script, Accepts, Raise, top
<1>6. CASE ~Stale(r, s, m) /\ TooOld(r, "ins", s)
  <2>1. Script(r, "ins", s, m) = r
    BY <1>6 DEF Script, Accepts
  <2>2. CASE m \in DOMAIN z /\ s < z[m]
    BY <2>1, <2>2 DEF Raise
  <2>3. CASE ~(m \in DOMAIN z /\ s < z[m])
    <3> DEFINE a == ZAdd(top, s, m)
    <3>1. ZTop(Raise(z, s, m), MaxSize) = ZTop(a, MaxSize)
      <4>1. m \in DOMAIN z => z[m] <= s
        BY <1>2, <2>3
      <4> QED
        BY <1>1, <2>3, <4>1, TopAdd DEF Raise, top
    <3>2. m \notin DOMAIN top
      BY <1>1, <1>4, <1>6, <2>3
    <3>3. /\ DOMAIN a = DOMAIN top \cup {m} /\ a[m] = s
          /\ \A y \in DOMAIN top : a[y] = top[y] /\ a[y] = z[y]
          /\ a \in ZSet
      BY <1>1, <3>2, ZType DEF ZAdd
    <3> HIDE DEF a
    <3>4. \A y \in DOMAIN top : Above(a, y, m) /\ y # m
      BY <1>1, <1>2, <1>4, <1>6, <3>2, <3>3 DEF Above
    <3>5. ~(Cardinality(Better(a, m)) < MaxSize)
      <4>1. DOMAIN top \subseteq Better(a, m)
        BY <3>3, <3>4 DEF Better
      <4>2. IsFiniteSet(Better(a, m)) /\ Cardinality(Better(a, m)) \in Nat
        BY <3>3, AboveTotal
      <4>3. Cardinality(DOMAIN top) <= Cardinality(Better(a, m))
        BY <4>1, <4>2, FS_Subset
      <4> QED
        BY <1>1, <1>3, <1>4, <1>6, <4>2, <4>3
    <3>6. ASSUME NEW y \in DOMAIN top PROVE Cardinality(Better(a, y)) < MaxSize
      <4>1. Better(a, y) \subseteq Better(z, y)
        <5>1. ~Above(a, m, y)
          BY <3>3, <3>4, AboveTotal
        <5> QED
          BY <1>1, <3>3, <5>1 DEF Better, Above
      <4>2. Cardinality(Better(z, y)) < MaxSize
        BY DEF top, ZTop, Better
      <4>3. /\ IsFiniteSet(Better(z, y)) /\ Cardinality(Better(z, y)) \in Nat
            /\ Cardinality(Better(a, y)) \in Nat
        BY <1>1, <3>3, AboveTotal
      <4>4. Cardinality(Better(a, y)) <= Cardinality(Better(z, y))
        BY <4>1, <4>3, FS_Subset
      <4> QED
        BY <1>1, <4>2, <4>3, <4>4
    <3>7. ZTop(a, MaxSize) = top
      <4>1. DOMAIN ZTop(a, MaxSize) = DOMAIN top
        BY <3>3, <3>5, <3>6, ZenonT(40) DEF ZTop, Better
      <4>2. ZTop(a, MaxSize) = [y \in DOMAIN ZTop(a, MaxSize) |-> a[y]]
            /\ top = [y \in DOMAIN top |-> top[y]]
        BY DEF ZTop, top
      <4> QED
        BY <3>3, <4>1, <4>2
    <3> QED
      BY <2>1, <3>1, <3>7 DEF top
  <2> QED
    BY <2>2, <2>3
<1>7. CASE Accepts(r, "ins", s, m)
  <2>1. /\ Script(r, "ins", s, m)["ins"] = ZTop(ZAdd(top, s, m), MaxSize)
        /\ DOMAIN Script(r, "ins", s, m)["del"] = {}
    BY <1>7 DEF Script, Sides, ZRem, top
  <2>2. CASE ~(m \in DOMAIN z /\ s < z[m])
    <3>1. m \in DOMAIN z => z[m] <= s
      BY <1>2, <2>2
    <3> QED
      BY <1>1, <2>1, <2>2, <3>1, TopAdd DEF Raise, top
  <2>3. CASE m \in DOMAIN z /\ s < z[m]
    <3>1. m \notin DOMAIN top
      BY <1>4, <1>7, <2>3 DEF Accepts
    <3>2. Cardinality(DOMAIN top) >= MaxSize /\ \A y \in DOMAIN top : Above(z, y, m)
      BY <1>1, <2>3, <3>1, TopFull DEF top
    <3>3. \A y \in DOMAIN top : s < z[y]
      BY <1>1, <1>2, <2>3, <3>2 DEF Above
    <3>4. DOMAIN top = {}
      BY <1>4, <1>7, <3>2, <3>3 DEF Accepts
    <3>5. MaxSize = 0
      BY <1>1, <3>2, <3>4, FS_EmptySet
    <3>6. \A x \in ZSet : DOMAIN ZTop(x, 0) = {}
      <4>1. \A x \in ZSet : \A y \in DOMAIN x : ~(Cardinality(Better(x, y)) < 0)
        BY AboveTotal
      <4> QED
        BY <4>1 DEF ZTop, Better
    <3>7. \A x \in ZSet : ZTop(x, 0) = [y \in {} |-> x[y]]
      BY <3>6 DEF ZTop
    <3>8. \A x, y \in ZSet : ZTop(x, 0) = ZTop(y, 0)
      BY <3>7
    <3> QED
      BY <1>1, <2>1, <2>3, <3>5, <3>8, ZType DEF Raise
  <2> QED
    BY <2>2, <2>3
<1> QED
  BY <1>5, <1>6, <1>7 DEF Accepts
=============================================================================
