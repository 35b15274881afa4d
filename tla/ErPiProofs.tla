----------------------------- MODULE ErPiProofs -----------------------------
(***************************************************************************)
(* The CRDTs of an application keep the merge laws and agree with the      *)
(* history of their updates, for any number of replicas, items and         *)
(* updates; the two generators print every ordering of any list of events  *)
(* exactly once; and every variable of ErPi keeps its type.                *)
(***************************************************************************)
EXTENDS ErPi, FiniteSetTheorems, FunctionTheorems, SequenceTheorems,
        WellFoundedInduction, TLAPS
-----------------------------------------------------------------------------
(***************************************************************************)
(* The value of a counter: GGet sums a map with a fold of Functions, which *)
(* is a recursive function on the subsets of the map's domain.             *)
(***************************************************************************)
LEMMA LeastNatural ==
    ASSUME NEW T, T \subseteq Nat, T # {}
    PROVE  \E n \in T : \A k \in T : n <= k
<1> DEFINE R == {ss \in Nat \X Nat : ss[1] < ss[2]}
<1>1. IsWellFoundedOn(R, Nat)
  BY NatLessThanWellFounded DEF OpToRel
<1>2. PICK n \in T : \A k \in T : <<k, n>> \notin R
  <2> HIDE DEF R
  <2> QED
    BY <1>1, WFMin
<1>3. \A k \in T : ~(k < n)
  BY <1>2
<1> QED
  BY <1>3

\* The fold's next element of a set, and its equation on a family of sets.
Chosen(s) == CHOOSE y \in s : TRUE

SumsOn(f, Q, h) ==
    h = [s \in Q |-> IF s = {} THEN 0 ELSE f[Chosen(s)] + h[s \ {Chosen(s)}]]

LEMMA SmallerSet ==
    ASSUME NEW s, IsFiniteSet(s), s # {}
    PROVE  /\ Chosen(s) \in s /\ IsFiniteSet(s \ {Chosen(s)})
           /\ Cardinality(s) \in Nat /\ Cardinality(s \ {Chosen(s)}) \in Nat
           /\ Cardinality(s \ {Chosen(s)}) = Cardinality(s) - 1
<1>1. Chosen(s) \in s
  BY DEF Chosen
<1> HIDE DEF Chosen
<1> QED
  BY <1>1, FS_RemoveElement, FS_CardinalityType

Small(D, n) == {s \in SUBSET D : Cardinality(s) <= n}

\* The fold's equation has a solution on the sets of at most n elements.
LEMMA SumUpTo ==
    ASSUME NEW f, NEW D, IsFiniteSet(D), NEW n \in Nat
    PROVE  \E h : SumsOn(f, Small(D, n), h)
<1> DEFINE Bad == {m \in Nat : ~\E h : SumsOn(f, Small(D, m), h)}
<1>0. \A s \in SUBSET D : IsFiniteSet(s) /\ Cardinality(s) \in Nat
  BY FS_Subset, FS_CardinalityType
<1>1. SUFFICES ASSUME Bad # {} PROVE FALSE
  OBVIOUS
<1>2. PICK m \in Bad : \A k \in Bad : m <= k
  <2>1. Bad \subseteq Nat
    OBVIOUS
  <2> HIDE DEF Bad
  <2> QED
    BY <1>1, <2>1, LeastNatural
<1>3. CASE m = 0
  <2> DEFINE g == [s \in Small(D, 0) |-> 0]
  <2>1. \A s \in Small(D, 0) : s = {}
    BY <1>0, FS_EmptySet DEF Small
  <2>2. SumsOn(f, Small(D, 0), g)
    <3>1. \A s \in Small(D, 0) : g[s] = (IF s = {} THEN 0 ELSE f[Chosen(s)] + g[s \ {Chosen(s)}])
      BY <2>1
    <3> QED
      BY <3>1 DEF SumsOn
  <2> QED
    BY <1>3, <2>2
<1>4. CASE m # 0
  <2>1. m - 1 \in Nat /\ m - 1 \notin Bad
    BY <1>2, <1>4
  <2>2. PICK h : SumsOn(f, Small(D, m - 1), h)
    BY <2>1
  <2> DEFINE g == [s \in Small(D, m) |->
                     IF s = {} THEN 0 ELSE f[Chosen(s)] + h[s \ {Chosen(s)}]]
  <2>3. \A s \in Small(D, m) : s # {} =>
          s \ {Chosen(s)} \in Small(D, m - 1) /\ s \ {Chosen(s)} \in Small(D, m)
    <3> SUFFICES ASSUME NEW s \in Small(D, m), s # {}
                 PROVE s \ {Chosen(s)} \in Small(D, m - 1) /\ s \ {Chosen(s)} \in Small(D, m)
      OBVIOUS
    <3>1. s \in SUBSET D /\ Cardinality(s) <= m /\ IsFiniteSet(s) /\ m \in Nat
      BY <1>0 DEF Small
    <3>2. Cardinality(s \ {Chosen(s)}) = Cardinality(s) - 1 /\ Cardinality(s) \in Nat
      BY <3>1, SmallerSet
    <3> QED
      BY <3>1, <3>2 DEF Small
  <2>4. \A s \in Small(D, m - 1) : s \in Small(D, m) /\ g[s] = h[s]
    <3>1. \A s \in Small(D, m - 1) : s \in Small(D, m)
      BY <1>0, <2>1 DEF Small
    <3>2. \A s \in Small(D, m - 1) :
             h[s] = IF s = {} THEN 0 ELSE f[Chosen(s)] + h[s \ {Chosen(s)}]
      BY <2>2 DEF SumsOn
    <3> QED
      BY <3>1, <3>2
  <2>5. SumsOn(f, Small(D, m), g)
    <3>1. \A s \in Small(D, m) : g[s] = (IF s = {} THEN 0 ELSE f[Chosen(s)] + g[s \ {Chosen(s)}])
      BY <2>3, <2>4
    <3> QED
      BY <3>1 DEF SumsOn
  <2> QED
    BY <2>5
<1> QED
  BY <1>3, <1>4

\* GGet is a solution's value for the whole domain.
LEMMA GGetSums ==
    ASSUME NEW f, IsFiniteSet(DOMAIN f)
    PROVE  \E h : SumsOn(f, SUBSET (DOMAIN f), h) /\ GGet(f) = h[DOMAIN f]
<1> DEFINE D == DOMAIN f
<1>1. Small(D, Cardinality(D)) = SUBSET D
  BY FS_Subset, FS_CardinalityType DEF Small
<1>2. Cardinality(D) \in Nat
  BY FS_CardinalityType
<1>3. PICK g : SumsOn(f, SUBSET D, g)
  <2> HIDE DEF D
  <2>1. \E h : SumsOn(f, Small(D, Cardinality(D)), h)
    BY <1>2, SumUpTo DEF D
  <2> QED
    BY <1>1, <2>1
<1> QED
  BY <1>3, Zenon DEF SumsOn, Chosen, GGet, FoldFunction, FoldFunctionOnSet, MapThenFoldSet

\* If a map counts the updates of a set by what they are about, it sums to
\* their number; if it counts some of them only, to at most that.
LEMMA GGetCounts ==
    ASSUME NEW f, NEW A, IsFiniteSet(A), IsFiniteSet(DOMAIN f),
           \A u \in A : u.x \in DOMAIN f,
           \A k \in DOMAIN f : f[k] \in Nat /\ f[k] <= Cardinality({u \in A : u.x = k})
    PROVE  LET exact == \A k \in DOMAIN f : f[k] = Cardinality({u \in A : u.x = k})
           IN  /\ GGet(f) \in Nat /\ GGet(f) <= Cardinality(A)
               /\ exact => GGet(f) = Cardinality(A)
<1> DEFINE D == DOMAIN f
           In(s) == {u \in A : u.x \in s}
           exact == \A k \in D : f[k] = Cardinality({u \in A : u.x = k})
           Bounds(v, c) == v \in Nat /\ v <= c /\ (exact => v = c)
<1> HIDE DEF exact
<1>0. \A s \in SUBSET D : IsFiniteSet(s) /\ Cardinality(s) \in Nat
  BY FS_Subset, FS_CardinalityType
<1>1. PICK h : SumsOn(f, SUBSET D, h) /\ GGet(f) = h[D]
  BY GGetSums
<1> DEFINE Bad == {m \in Nat : \E s \in SUBSET D : Cardinality(s) = m
                                  /\ ~Bounds(h[s], Cardinality(In(s)))}
<1>2. ASSUME Bad # {} PROVE FALSE
  <2>1. PICK m \in Bad : \A k \in Bad : m <= k
    <3>1. Bad \subseteq Nat
      OBVIOUS
    <3> HIDE DEF Bad
    <3> QED
      BY <1>2, <3>1, LeastNatural
  <2>2. PICK s \in SUBSET D : Cardinality(s) = m /\ ~Bounds(h[s], Cardinality(In(s)))
    OBVIOUS
  <2>3. s # {}
    <3>1. h[{}] = 0
      BY <1>1 DEF SumsOn
    <3>2. Cardinality(In({})) = 0
      BY FS_EmptySet
    <3> QED
      BY <2>2, <3>1, <3>2
  <2> DEFINE c == Chosen(s)
             t == s \ {c}
             at == {u \in A : u.x = c}
  <2>4. /\ c \in s /\ Cardinality(t) \in Nat /\ m \in Nat /\ Cardinality(t) = m - 1
    BY <1>0, <2>2, <2>3, SmallerSet
  <2>5. h[s] = f[c] + h[t]
    BY <1>1, <2>3 DEF SumsOn
  <2>6. Bounds(h[t], Cardinality(In(t)))
    <3>1. t \in SUBSET D
      BY <2>4
    <3>2. Cardinality(t) \notin Bad
      <4> HIDE DEF Bad, t
      <4> QED
        BY <2>1, <2>4
    <3> HIDE DEF Bounds, In
    <3> QED
      BY <3>1, <3>2, <2>4
  <2>7. f[c] \in Nat /\ f[c] <= Cardinality(at) /\ (exact => f[c] = Cardinality(at))
    <3>1. c \in D
      BY <2>4
    <3> HIDE DEF c
    <3> QED
      BY <3>1 DEF exact, at
  <2>8. /\ In(s) = In(t) \cup at /\ In(t) \cap at = {}
        /\ IsFiniteSet(In(t)) /\ IsFiniteSet(at)
    <3>1. IsFiniteSet(In(t)) /\ IsFiniteSet(at)
      BY FS_Subset
    <3> HIDE DEF c
    <3> QED
      BY <2>4, <3>1 DEF t, at
  <2>9. Cardinality(In(s)) = Cardinality(In(t)) + Cardinality(at)
    <3> HIDE DEF In, at, t
    <3>1. Cardinality(In(t) \cap at) = 0 /\ Cardinality(In(t)) \in Nat /\ Cardinality(at) \in Nat
      BY <2>8, FS_EmptySet, FS_CardinalityType
    <3>2. Cardinality(In(t) \cup at) = Cardinality(In(t)) + Cardinality(at) - Cardinality(In(t) \cap at)
      BY <2>8, FS_Union
    <3> QED
      BY <2>8, <3>1, <3>2
  <2>10. Cardinality(In(t)) \in Nat /\ Cardinality(at) \in Nat
    BY <2>8, FS_CardinalityType
  <2>11. Bounds(h[s], Cardinality(In(s)))
    <3> HIDE DEF In, at, t, c
    <3> QED
      BY <2>5, <2>6, <2>7, <2>9, <2>10
  <2> QED
    BY <2>2, <2>11
<1>3. Bounds(h[D], Cardinality(In(D)))
  <2>1. Cardinality(D) \in Nat /\ Cardinality(D) \notin Bad
    BY <1>0, <1>2
  <2> HIDE DEF Bounds, In
  <2> QED
    BY <2>1
<1>4. In(D) = A
  OBVIOUS
<1> QED
  BY <1>1, <1>3, <1>4 DEF exact
-----------------------------------------------------------------------------
(***************************************************************************)
(* The maps of the counters and of GState count a history: all updates of  *)
(* a key if one replica has made them, and never more than there are.      *)
(***************************************************************************)
At(S, op, x) == {u \in S : u.op = op /\ u.x = x}

Xs(S, op) == {u.x : u \in {v \in S : v.op = op}}

Sole(S, op, x) == \A u, v \in At(S, op, x) : u.by = v.by

\* base is 1 for GState, whose ordinals begin with 0, and 0 for the counters; n bounds
\* the counts.
CountsKey(m, S, op, x, base, n) ==
    LET all == Cardinality(At(S, op, x)) - base
    IN  /\ m[x] \in 0..n /\ m[x] <= all
        /\ Sole(S, op, x) => m[x] = all

Counted(m, S, op, base, n) ==
    /\ m = [x \in Xs(S, op) |-> m[x]]
    /\ \A x \in Xs(S, op) : CountsKey(m, S, op, x, base, n)

LEMMA MaxIs ==
    ASSUME NEW S, NEW m \in S, \A y \in S : y \in Int /\ y <= m
    PROVE  Max(S) = m
<1>1. \A x \in S : (\A y \in S : x >= y) => x = m
  <2> SUFFICES ASSUME NEW x \in S, \A y \in S : x >= y PROVE x = m
    OBVIOUS
  <2>1. x \in Int /\ m \in Int /\ x <= m /\ x >= m
    OBVIOUS
  <2> QED
    BY <2>1
<1>2. \A y \in S : m >= y
  <2> SUFFICES ASSUME NEW y \in S PROVE m >= y
    OBVIOUS
  <2>1. y \in Int /\ m \in Int /\ y <= m
    OBVIOUS
  <2> QED
    BY <2>1
<1> QED
  BY <1>1, <1>2 DEF Max

LEMMA AtFacts ==
    ASSUME NEW S, IsFiniteSet(S), NEW op, NEW x
    PROVE  /\ IsFiniteSet(At(S, op, x)) /\ Cardinality(At(S, op, x)) \in Nat
           /\ x \in Xs(S, op) <=> At(S, op, x) # {}
           /\ x \in Xs(S, op) <=> Cardinality(At(S, op, x)) >= 1
<1>1. IsFiniteSet(At(S, op, x)) /\ Cardinality(At(S, op, x)) \in Nat
  BY FS_Subset, FS_CardinalityType DEF At
<1>2. x \in Xs(S, op) <=> At(S, op, x) # {}
  BY DEF At, Xs
<1>3. Cardinality(At(S, op, x)) = 0 <=> At(S, op, x) = {}
  BY <1>1, FS_EmptySet
<1> QED
  BY <1>1, <1>2, <1>3

\* A map with integer values, and what merge makes of two at each key.
Counter(f) == f = [x \in DOMAIN f |-> f[x]] /\ \A x \in DOMAIN f : f[x] \in Int

Greater(a, b, x) ==
    IF x \notin DOMAIN a THEN b[x]
    ELSE IF x \notin DOMAIN b THEN a[x]
    ELSE IF a[x] <= b[x] THEN b[x] ELSE a[x]

LEMMA GMergeAt ==
    ASSUME NEW a, NEW b, Counter(a), Counter(b)
    PROVE  /\ GMerge(a, b) = [x \in DOMAIN a \cup DOMAIN b |-> Greater(a, b, x)]
           /\ Counter(GMerge(a, b))
<1> DEFINE at(x) == {f[x] : f \in {g \in {a, b} : x \in DOMAIN g}}
<1>1. ASSUME NEW x \in DOMAIN a \cup DOMAIN b
      PROVE  Max(at(x)) = Greater(a, b, x) /\ Greater(a, b, x) \in Int
  <2>1. /\ x \in DOMAIN a => a[x] \in Int /\ a[x] \in at(x)
        /\ x \in DOMAIN b => b[x] \in Int /\ b[x] \in at(x)
    BY DEF Counter
  <2>2. \A v \in at(x) : (x \in DOMAIN a /\ v = a[x]) \/ (x \in DOMAIN b /\ v = b[x])
    OBVIOUS
  <2> HIDE DEF at
  <2>3. /\ Greater(a, b, x) \in at(x) /\ Greater(a, b, x) \in Int
        /\ \A v \in at(x) : v \in Int /\ v <= Greater(a, b, x)
    BY <2>1, <2>2 DEF Greater
  <2> QED
    BY <2>3, MaxIs
<1>2. GMerge(a, b) = [x \in DOMAIN a \cup DOMAIN b |-> Max(at(x))]
  BY DEF GMerge
<1> HIDE DEF at
<1>3. GMerge(a, b) = [x \in DOMAIN a \cup DOMAIN b |-> Greater(a, b, x)]
  BY <1>1, <1>2
<1> QED
  BY <1>1, <1>3 DEF Counter

\* Whatever they count.
LEMMA GMergeLaws ==
    ASSUME NEW a, NEW b, NEW c, Counter(a), Counter(b), Counter(c)
    PROVE  /\ GMerge(a, a) = a /\ GMerge(a, b) = GMerge(b, a)
           /\ GMerge(GMerge(a, b), c) = GMerge(a, GMerge(b, c))
<1> DEFINE ab == GMerge(a, b)
           bc == GMerge(b, c)
<1>1. /\ ab = [x \in DOMAIN a \cup DOMAIN b |-> Greater(a, b, x)] /\ Counter(ab)
      /\ bc = [x \in DOMAIN b \cup DOMAIN c |-> Greater(b, c, x)] /\ Counter(bc)
      /\ GMerge(b, a) = [x \in DOMAIN b \cup DOMAIN a |-> Greater(b, a, x)]
      /\ GMerge(a, a) = [x \in DOMAIN a \cup DOMAIN a |-> Greater(a, a, x)]
  BY GMergeAt
<1> HIDE DEF ab, bc
<1>2. /\ GMerge(ab, c) = [x \in DOMAIN ab \cup DOMAIN c |-> Greater(ab, c, x)]
      /\ GMerge(a, bc) = [x \in DOMAIN a \cup DOMAIN bc |-> Greater(a, bc, x)]
  <2>1. Counter(ab) /\ Counter(bc)
    BY <1>1
  <2>2. GMerge(ab, c) = [x \in DOMAIN ab \cup DOMAIN c |-> Greater(ab, c, x)]
    BY <2>1, GMergeAt
  <2>3. GMerge(a, bc) = [x \in DOMAIN a \cup DOMAIN bc |-> Greater(a, bc, x)]
    BY <2>1, GMergeAt
  <2> QED
    BY <2>2, <2>3
<1>3. DOMAIN ab = DOMAIN a \cup DOMAIN b /\ DOMAIN bc = DOMAIN b \cup DOMAIN c
  BY <1>1
<1>4. /\ \A x \in DOMAIN a : Greater(a, a, x) = a[x]
      /\ \A x \in DOMAIN a \cup DOMAIN b : Greater(a, b, x) = Greater(b, a, x)
  BY DEF Greater, Counter
<1>5. ASSUME NEW x \in DOMAIN a \cup DOMAIN b \cup DOMAIN c
      PROVE  Greater(ab, c, x) = Greater(a, bc, x)
  <2>1. /\ x \in DOMAIN ab => ab[x] = Greater(a, b, x)
        /\ x \in DOMAIN bc => bc[x] = Greater(b, c, x)
    BY <1>1, <1>3
  <2>2. /\ x \in DOMAIN a => a[x] \in Int
        /\ x \in DOMAIN b => b[x] \in Int
        /\ x \in DOMAIN c => c[x] \in Int
    BY DEF Counter
  <2> QED
    BY <1>3, <2>1, <2>2 DEF Greater
<1>6. GMerge(a, a) = a
  <2>1. a = [x \in DOMAIN a |-> a[x]]
    BY DEF Counter
  <2> QED
    BY <1>1, <1>4, <2>1
<1>7. GMerge(a, b) = GMerge(b, a)
  BY <1>1, <1>4 DEF ab
<1>8. GMerge(ab, c) = GMerge(a, bc)
  BY <1>2, <1>3, <1>5
<1> QED
  BY <1>6, <1>7, <1>8 DEF ab, bc

LEMMA CountedIsCounter ==
    ASSUME NEW m, NEW S, NEW op, NEW base, NEW n, Counted(m, S, op, base, n)
    PROVE  Counter(m) /\ DOMAIN m = Xs(S, op)
<1>1. DOMAIN m = Xs(S, op)
  BY DEF Counted
<1>2. \A x \in DOMAIN m : m[x] \in Int
  BY <1>1 DEF Counted, CountsKey
<1> QED
  BY <1>1, <1>2 DEF Counter, Counted

\* Two histories are comparable at a key all of whose updates are made by one replica.
Comparable(A, B, op) ==
    \A x : Sole(A \cup B, op, x) =>
             At(A, op, x) \subseteq At(B, op, x) \/ At(B, op, x) \subseteq At(A, op, x)

LEMMA MergeCounts ==
    ASSUME NEW A, NEW B, IsFiniteSet(A), IsFiniteSet(B), NEW op, NEW base \in Int, NEW n \in Nat,
           Comparable(A, B, op), NEW a, NEW b,
           Counted(a, A, op, base, n), Counted(b, B, op, base, n)
    PROVE  Counted(GMerge(a, b), A \cup B, op, base, n)
<1> DEFINE m == GMerge(a, b)
           S == A \cup B
<1>1. Xs(S, op) = Xs(A, op) \cup Xs(B, op)
  BY DEF Xs
<1>2. /\ Counter(a) /\ Counter(b) /\ DOMAIN a = Xs(A, op) /\ DOMAIN b = Xs(B, op)
  <2>1. Counter(a) /\ DOMAIN a = Xs(A, op)
    BY CountedIsCounter
  <2>2. Counter(b) /\ DOMAIN b = Xs(B, op)
    BY CountedIsCounter
  <2> QED
    BY <2>1, <2>2
<1>3. m = [x \in Xs(S, op) |-> Greater(a, b, x)]
  <2>1. m = [x \in DOMAIN a \cup DOMAIN b |-> Greater(a, b, x)]
    BY <1>2, GMergeAt
  <2> HIDE DEF m, S
  <2> QED
    BY <1>1, <1>2, <2>1
<1> HIDE DEF m
<1>4. ASSUME NEW x \in Xs(S, op)
      PROVE  CountsKey(m, S, op, x, base, n)
  <2> DEFINE ca == Cardinality(At(A, op, x))
             cb == Cardinality(At(B, op, x))
             cs == Cardinality(At(S, op, x))
  <2>1. /\ x \in DOMAIN a => a[x] \in 0..n /\ a[x] <= ca - base
                              /\ (Sole(A, op, x) => a[x] = ca - base)
        /\ x \in DOMAIN b => b[x] \in 0..n /\ b[x] <= cb - base
                              /\ (Sole(B, op, x) => b[x] = cb - base)
    BY <1>2 DEF Counted, CountsKey
  <2>2. At(S, op, x) = At(A, op, x) \cup At(B, op, x)
    BY DEF At
  <2>3. /\ IsFiniteSet(S) /\ IsFiniteSet(At(S, op, x))
        /\ ca \in Nat /\ cb \in Nat /\ cs \in Nat
    BY AtFacts, FS_Union
  <2>4. ca <= cs /\ cb <= cs
    BY <2>2, <2>3, FS_Subset
  <2>5. m[x] = Greater(a, b, x)
    BY <1>3
  <2>6. x \in DOMAIN a \/ x \in DOMAIN b
    BY <1>1, <1>2
  <2>7. /\ x \notin DOMAIN a => At(A, op, x) = {}
        /\ x \notin DOMAIN b => At(B, op, x) = {}
    BY <1>2, AtFacts
  <2>8. m[x] \in 0..n /\ m[x] <= cs - base
    <3> HIDE DEF ca, cb, cs, S
    <3> QED
      BY <2>1, <2>3, <2>4, <2>5, <2>6 DEF Greater
  <2>9. ASSUME Sole(S, op, x) PROVE m[x] = cs - base
    <3>1. Sole(A, op, x) /\ Sole(B, op, x)
      BY <2>2, <2>9 DEF Sole
    <3>2. CASE At(A, op, x) \subseteq At(B, op, x)
      <4>1. ca <= cb /\ cs = cb
        <5>1. At(S, op, x) = At(B, op, x) /\ IsFiniteSet(At(B, op, x))
          BY <2>2, <3>2, AtFacts
        <5> QED
          BY <3>2, <5>1, FS_Subset
      <4>2. x \in DOMAIN b
        BY <2>6, <2>7, <3>2, <1>2, AtFacts
      <4> HIDE DEF ca, cb, cs, S
      <4> QED
        BY <2>1, <2>3, <2>5, <3>1, <4>1, <4>2 DEF Greater
    <3>3. CASE At(B, op, x) \subseteq At(A, op, x)
      <4>1. cb <= ca /\ cs = ca
        <5>1. At(S, op, x) = At(A, op, x) /\ IsFiniteSet(At(A, op, x))
          BY <2>2, <3>3, AtFacts
        <5> QED
          BY <3>3, <5>1, FS_Subset
      <4>2. x \in DOMAIN a
        BY <2>6, <2>7, <3>3, <1>2, AtFacts
      <4> HIDE DEF ca, cb, cs, S
      <4> QED
        BY <2>1, <2>3, <2>5, <3>1, <4>1, <4>2 DEF Greater
    <3> QED
      BY <2>9, <3>2, <3>3 DEF Comparable
  <2> QED
    BY <2>8, <2>9 DEF CountsKey
<1>5. m = [x \in Xs(S, op) |-> m[x]]
  BY <1>3
<1> QED
  BY <1>4, <1>5 DEF Counted, m

LEMMA AddCount ==
    ASSUME NEW A, IsFiniteSet(A), NEW u, u \notin A, NEW base \in {0, 1}, NEW n \in Nat,
           NEW f, Counted(f, A, u.op, base, n)
    PROVE  Counted(Put(f, u.x, (IF u.x \in DOMAIN f THEN f[u.x] ELSE 0 - base) + 1),
                   A \cup {u}, u.op, base, n + 1)
<1> DEFINE v == (IF u.x \in DOMAIN f THEN f[u.x] ELSE 0 - base) + 1
           B == A \cup {u}
           m == Put(f, u.x, v)
<1>1. /\ DOMAIN f = Xs(A, u.op) /\ Xs(B, u.op) = Xs(A, u.op) \cup {u.x}
  <2>1. DOMAIN f = Xs(A, u.op)
    BY CountedIsCounter
  <2>2. Xs(B, u.op) = Xs(A, u.op) \cup {u.x}
    BY DEF Xs
  <2> QED
    BY <2>1, <2>2
<1>2. \A k : k # u.x => At(B, u.op, k) = At(A, u.op, k)
  BY DEF At
<1>3. CountsKey(m, B, u.op, u.x, base, n + 1)
  <2> DEFINE c == Cardinality(At(A, u.op, u.x))
             d == Cardinality(At(B, u.op, u.x))
  <2>1. At(B, u.op, u.x) = At(A, u.op, u.x) \cup {u} /\ u \notin At(A, u.op, u.x)
    BY DEF At
  <2>2. d = c + 1 /\ c \in Nat
    BY <2>1, AtFacts, FS_AddElement
  <2>3. m[u.x] = v
    BY DEF Put
  <2>4. u.x \notin DOMAIN f => c = 0
    BY <1>1, <2>2, AtFacts
  <2>5. u.x \in DOMAIN f => /\ f[u.x] \in 0..n /\ f[u.x] <= c - base
                            /\ Sole(A, u.op, u.x) => f[u.x] = c - base
    BY <1>1 DEF Counted, CountsKey
  <2>6. Sole(B, u.op, u.x) => Sole(A, u.op, u.x)
    BY <2>1 DEF Sole
  <2>7. v \in 0..(n + 1) /\ v <= d - base /\ (Sole(A, u.op, u.x) => v = d - base)
    <3> HIDE DEF c, d
    <3>1. CASE u.x \in DOMAIN f
      BY <2>2, <2>5, <3>1
    <3>2. CASE u.x \notin DOMAIN f
      BY <2>2, <2>4, <3>2
    <3> QED
      BY <3>1, <3>2
  <2> HIDE DEF v, m, B
  <2> QED
    BY <2>3, <2>6, <2>7 DEF CountsKey, d
<1>4. ASSUME NEW k \in Xs(A, u.op), k # u.x PROVE CountsKey(m, B, u.op, k, base, n + 1)
  <2>1. m[k] = f[k]
    BY <1>1, <1>4 DEF Put
  <2>2. At(B, u.op, k) = At(A, u.op, k)
    BY <1>2, <1>4
  <2>3. CountsKey(f, A, u.op, k, base, n)
    BY DEF Counted
  <2>4. \A i \in 0..n : i \in 0..(n + 1)
    OBVIOUS
  <2> HIDE DEF m, B
  <2> QED
    BY <2>1, <2>2, <2>3, <2>4 DEF CountsKey, Sole
<1>5. m = [k \in Xs(B, u.op) |-> m[k]]
  BY <1>1 DEF Put
<1> HIDE DEF m, B
<1>6. Counted(m, B, u.op, base, n + 1)
  BY <1>1, <1>3, <1>4, <1>5 DEF Counted
<1> QED
  BY <1>6 DEF m, B

\* An update of the other sort changes no count, and the bound may grow.
LEMMA OtherCount ==
    ASSUME NEW A, NEW u, NEW op, u.op # op, NEW base, NEW n \in Nat, NEW f,
           Counted(f, A, op, base, n)
    PROVE  Counted(f, A \cup {u}, op, base, n + 1)
<1>1. Xs(A \cup {u}, op) = Xs(A, op) /\ \A k : At(A \cup {u}, op, k) = At(A, op, k)
  BY DEF Xs, At
<1>2. \A k : Sole(A \cup {u}, op, k) <=> Sole(A, op, k)
  BY <1>1 DEF Sole
<1>3. \A i \in 0..n : i \in 0..(n + 1)
  OBVIOUS
<1> QED
  BY <1>1, <1>2, <1>3 DEF Counted, CountsKey
-----------------------------------------------------------------------------
(***************************************************************************)
(* What an object says of the updates S that its replica has made or       *)
(* merged.  n bounds the counts.                                           *)
(***************************************************************************)
Gone(S) == {u.x : u \in {v \in S : v.op = "remove" /\ v.undoes # {}}}

Undone(S) == UNION {u.undoes : u \in S}

Tags(S) == {<<u.x, u.id>> : u \in {v \in S : v.op = "add"}}

Live(S) == {<<u.x, u.id>> : u \in {v \in S : v.op = "add" /\ v.id \notin Undone(S)}}

Agree(k, o, S, n) ==
    CASE k = "GCounter"  -> Counted(o, S, "add", 0, n)
      [] k = "GState"    -> Counted(o, S, "add", 1, n)
      [] k = "PNCounter" -> /\ o = [inc |-> o.inc, dec |-> o.dec]
                            /\ Counted(o.inc, S, "add", 0, n) /\ Counted(o.dec, S, "remove", 0, n)
      [] k = "GSet"      -> o = Xs(S, "add")
      [] k = "TwoPSet"   -> /\ o = [adds |-> Xs(S, "add"), removes |-> Gone(S)]
                            /\ Gone(S) \subseteq Xs(S, "add")
      [] k = "ORSet"     -> /\ o = [observed |-> o.observed, removed |-> o.removed]
                            /\ Live(S) \subseteq o.observed
                            /\ o.observed \cup o.removed \subseteq Tags(S)

Counting == {"GCounter", "PNCounter", "GState"}

LEMMA NewAgrees ==
    ASSUME NEW k \in Kinds, NEW n
    PROVE  Agree(k, NewObject(k), {}, n)
<1>1. \A op, base : Counted(NoCounts, {}, op, base, n)
  BY DEF Counted, NoCounts, Xs
<1>2. Xs({}, "add") = {} /\ Gone({}) = {} /\ Live({}) = {} /\ Tags({}) = {}
  BY DEF Xs, Gone, Live, Tags
<1> QED
  BY <1>1, <1>2 DEF Agree, NewObject, NoTwoP, NoOR, Kinds

LEMMA MergeAgrees ==
    ASSUME NEW k \in Kinds, NEW a, NEW b, NEW A, NEW B, IsFiniteSet(A), IsFiniteSet(B),
           NEW n \in Nat, Agree(k, a, A, n), Agree(k, b, B, n),
           \A op \in {"add", "remove"} : Comparable(A, B, op)
    PROVE  Agree(k, Merged(k, a, b), A \cup B, n)
<1>1. /\ Xs(A \cup B, "add") = Xs(A, "add") \cup Xs(B, "add")
      /\ Gone(A \cup B) = Gone(A) \cup Gone(B)
      /\ Tags(A \cup B) = Tags(A) \cup Tags(B)
  BY DEF Xs, Gone, Tags
<1>2. CASE k = "GCounter"
  BY <1>2, MergeCounts DEF Agree, Merged
<1>3. CASE k = "GState"
  BY <1>3, MergeCounts DEF Agree, Merged
<1>4. CASE k = "PNCounter"
  <2>1. /\ Counted(a.inc, A, "add", 0, n) /\ Counted(a.dec, A, "remove", 0, n)
        /\ Counted(b.inc, B, "add", 0, n) /\ Counted(b.dec, B, "remove", 0, n)
    BY <1>4 DEF Agree
  <2> DEFINE o == PNMerge(a, b)
  <2>2. /\ o = [inc |-> o.inc, dec |-> o.dec]
        /\ o.inc = GMerge(a.inc, b.inc) /\ o.dec = GMerge(a.dec, b.dec)
    BY DEF PNMerge
  <2> HIDE DEF o
  <2>3. Counted(o.inc, A \cup B, "add", 0, n) /\ Counted(o.dec, A \cup B, "remove", 0, n)
    BY <2>1, <2>2, MergeCounts
  <2>4. Agree(k, o, A \cup B, n)
    BY <1>4, <2>2, <2>3 DEF Agree
  <2> QED
    BY <1>4, <2>4 DEF Merged, o
<1>5. CASE k = "GSet"
  BY <1>1, <1>5 DEF Agree, Merged
<1>6. CASE k = "TwoPSet"
  <2>1. /\ a.adds = Xs(A, "add") /\ a.removes = Gone(A) /\ Gone(A) \subseteq Xs(A, "add")
        /\ b.adds = Xs(B, "add") /\ b.removes = Gone(B) /\ Gone(B) \subseteq Xs(B, "add")
    BY <1>6 DEF Agree
  <2>2. TwoPMerge(a, b) = [adds |-> Xs(A \cup B, "add"), removes |-> Gone(A \cup B)]
    BY <1>1, <2>1 DEF TwoPMerge
  <2>3. Gone(A \cup B) \subseteq Xs(A \cup B, "add")
    BY <1>1, <2>1
  <2>4. Merged(k, a, b) = TwoPMerge(a, b)
    BY <1>6 DEF Merged
  <2> QED
    BY <1>6, <2>2, <2>3, <2>4 DEF Agree
<1>7. CASE k = "ORSet"
  <2>1. /\ Live(A) \subseteq a.observed /\ a.observed \cup a.removed \subseteq Tags(A)
        /\ Live(B) \subseteq b.observed /\ b.observed \cup b.removed \subseteq Tags(B)
    BY <1>7 DEF Agree
  <2>2. Live(A \cup B) \subseteq Live(A) \cup Live(B)
    <3>1. Undone(A) \subseteq Undone(A \cup B) /\ Undone(B) \subseteq Undone(A \cup B)
      BY DEF Undone
    <3> QED
      BY <3>1 DEF Live
  <2> DEFINE o == ORMerge(a, b)
  <2>3. /\ o.observed = a.observed \cup b.observed /\ o.removed = a.removed \cup b.removed
        /\ o = [observed |-> o.observed, removed |-> o.removed]
    BY DEF ORMerge
  <2>4. Live(A \cup B) \subseteq o.observed /\ o.observed \cup o.removed \subseteq Tags(A \cup B)
    BY <1>1, <2>1, <2>2, <2>3
  <2> HIDE DEF o
  <2>5. Agree(k, o, A \cup B, n)
    BY <1>7, <2>3, <2>4 DEF Agree
  <2> QED
    BY <1>7, <2>5 DEF Merged, o
<1> QED
  BY <1>2, <1>3, <1>4, <1>5, <1>6, <1>7 DEF Kinds

LEMMA MoreAgrees ==
    ASSUME NEW k \in Kinds, NEW o, NEW S, NEW n \in Nat, Agree(k, o, S, n)
    PROVE  Agree(k, o, S, n + 1)
<1>1. \A i \in 0..n : i \in 0..(n + 1)
  OBVIOUS
<1>2. ASSUME NEW m, NEW op, NEW base, Counted(m, S, op, base, n)
      PROVE  Counted(m, S, op, base, n + 1)
  BY <1>1, <1>2 DEF Counted, CountsKey
<1>3. CASE k \in {"GCounter", "GState"}
  BY <1>2, <1>3 DEF Agree
<1>4. CASE k = "PNCounter"
  BY <1>2, <1>4 DEF Agree
<1>5. CASE k \in {"GSet", "TwoPSet", "ORSet"}
  BY <1>5 DEF Agree
<1> QED
  BY <1>3, <1>4, <1>5 DEF Kinds

\* The update that an application records.
New(r, op, x, undoes) ==
    [id |-> updates + 1, op |-> op, x |-> x, by |-> r, undoes |-> undoes]

LEMMA CountAgrees ==
    ASSUME NEW S, IsFiniteSet(S), NEW r, NEW x, NEW o, NEW op \in {"add", "remove"}, NEW n \in Nat,
           New(r, op, x, {}) \notin S
    PROVE  /\ Counted(o, S, op, 0, n)
                => Counted(GIncrement(o, x), S \cup {New(r, op, x, {})}, op, 0, n + 1)
           /\ Counted(o, S, op, 1, n)
                => Counted(Put(o, x, Ordinal(o, x)), S \cup {New(r, op, x, {})}, op, 1, n + 1)
<1> DEFINE u == New(r, op, x, {})
<1>1. u.op = op /\ u.x = x /\ u \notin S
  BY DEF New
<1>2. ASSUME NEW base \in {0, 1}, Counted(o, S, op, base, n)
      PROVE  Counted(Put(o, x, (IF x \in DOMAIN o THEN o[x] ELSE 0 - base) + 1), S \cup {u}, op,
                     base, n + 1)
  <2> HIDE DEF u
  <2> QED
    BY <1>1, <1>2, AddCount
<1>3. ASSUME Counted(o, S, op, 0, n)
      PROVE  Counted(GIncrement(o, x), S \cup {u}, op, 0, n + 1)
  <2>1. 0 - 0 = 0
    OBVIOUS
  <2> HIDE DEF u
  <2> QED
    BY <1>2, <1>3, <2>1 DEF GIncrement
<1>4. ASSUME Counted(o, S, op, 1, n)
      PROVE  Counted(Put(o, x, Ordinal(o, x)), S \cup {u}, op, 1, n + 1)
  <2>1. (IF x \in DOMAIN o THEN o[x] ELSE 0 - 1) + 1 = Ordinal(o, x)
    BY DEF Ordinal
  <2> HIDE DEF u
  <2> QED
    BY <1>2, <1>4, <2>1
<1> QED
  BY <1>3, <1>4
-----------------------------------------------------------------------------
(***************************************************************************)
(* The inductive invariant of an application: what is in a history, that   *)
(* all updates that one replica has made are known to others in their      *)
(* order, and that each object agrees with its replica's history.          *)
(***************************************************************************)
HistoryOK ==
    /\ seen = [r \in Replicas |-> seen[r]]
    /\ \A r \in Replicas : IsFiniteSet(seen[r])
    /\ \A r \in Replicas : \A u \in seen[r] :
         /\ u.id \in 1..updates /\ u.op \in {"add", "remove"}
         /\ u.by \in Replicas
         /\ u.x \in IF kind \in Counting THEN Key ELSE Item
         /\ kind \in {"GCounter", "GState", "GSet"} => u.op = "add"

By(S, w) == {u \in S : u.by = w}

InOrderOfWriting ==
    \A w, r, s \in Replicas :
      /\ By(seen[r], w) \subseteq By(seen[w], w)
      /\ By(seen[r], w) \subseteq By(seen[s], w) \/ By(seen[s], w) \subseteq By(seen[r], w)

AppInv ==
    /\ kind \in Kinds /\ updates \in 0..MaxUpdates
    /\ obj = [r \in Replicas |-> obj[r]]
    /\ HistoryOK
    /\ InOrderOfWriting
    /\ \A r \in Replicas : Agree(kind, obj[r], seen[r], updates)

LEMMA AppStarts == CrdtInit => AppInv
<1> SUFFICES ASSUME CrdtInit PROVE AppInv
  OBVIOUS
<1>1. /\ kind \in Kinds /\ updates = 0 /\ updates \in 0..MaxUpdates
      /\ \A r \in Replicas : obj[r] = NewObject(kind) /\ seen[r] = {}
      /\ obj = [r \in Replicas |-> obj[r]] /\ seen = [r \in Replicas |-> seen[r]]
  BY CrdtAssumption DEF CrdtInit
<1>2. HistoryOK
  BY <1>1, FS_EmptySet DEF HistoryOK
<1>3. InOrderOfWriting
  BY <1>1 DEF InOrderOfWriting, By
<1>4. \A r \in Replicas : Agree(kind, obj[r], seen[r], updates)
  BY <1>1, NewAgrees
<1> QED
  BY <1>1, <1>2, <1>3, <1>4 DEF AppInv

LEMMA FreshUpdate ==
    ASSUME AppInv, NEW r \in Replicas, NEW op, NEW x, NEW undoes
    PROVE  New(r, op, x, undoes) \notin seen[r]
<1>1. updates \in Int /\ updates + 1 \notin 1..updates
  BY DEF AppInv
<1> QED
  BY <1>1 DEF AppInv, HistoryOK, New

LEMMA UpdateKeeps ==
    ASSUME AppInv, NEW r \in Replicas, NEW op \in {"add", "remove"}, NEW x, NEW undoes, NEW new,
           Update(r, op, x, undoes, new),
           x \in IF kind \in Counting THEN Key ELSE Item,
           kind \in {"GCounter", "GState", "GSet"} => op = "add",
           Agree(kind, new, seen[r] \cup {New(r, op, x, undoes)}, updates + 1)
    PROVE  AppInv'
<1> DEFINE u == New(r, op, x, undoes)
<1>1. /\ updates \in 0..MaxUpdates /\ updates < MaxUpdates /\ updates' = updates + 1
      /\ kind' = kind /\ kind \in Kinds
      /\ obj' = [obj EXCEPT ![r] = new]
      /\ seen' = [seen EXCEPT ![r] = seen[r] \cup {u}]
  BY DEF AppInv, Update, New
<1>2. /\ u.id = updates + 1 /\ u.op = op /\ u.x = x /\ u.by = r
  BY DEF New
<1> HIDE DEF u
<1>3. /\ updates' \in 0..MaxUpdates /\ u.id \in 1..updates'
      /\ \A i \in 1..updates : i \in 1..updates'
      /\ updates \in Nat /\ updates' \in Nat
  BY <1>1, <1>2, CrdtAssumption
<1>4. /\ obj' = [t \in Replicas |-> obj'[t]] /\ seen' = [t \in Replicas |-> seen'[t]]
      /\ \A t \in Replicas : /\ obj'[t] = IF t = r THEN new ELSE obj[t]
                             /\ seen'[t] = IF t = r THEN seen[r] \cup {u} ELSE seen[t]
  <2>1. obj = [t \in Replicas |-> obj[t]] /\ seen = [t \in Replicas |-> seen[t]]
    BY DEF AppInv, HistoryOK
  <2> QED
    BY <1>1, <2>1
<1>5. HistoryOK'
  <2>1. ASSUME NEW t \in Replicas PROVE IsFiniteSet(seen'[t])
    <3>1. IsFiniteSet(seen[t]) /\ IsFiniteSet(seen[r])
      BY DEF AppInv, HistoryOK
    <3>2. IsFiniteSet(seen[r] \cup {u})
      BY <3>1, FS_AddElement
    <3> QED
      BY <1>4, <3>1, <3>2
  <2>2. ASSUME NEW t \in Replicas, NEW v \in seen'[t]
        PROVE  /\ v.id \in 1..updates' /\ v.op \in {"add", "remove"}
               /\ v.by \in Replicas
               /\ v.x \in IF kind \in Counting THEN Key ELSE Item
               /\ kind \in {"GCounter", "GState", "GSet"} => v.op = "add"
    <3>1. CASE v = u
      BY <1>2, <1>3, <3>1
    <3>2. CASE v \in seen[t]
      BY <1>3, <3>2 DEF AppInv, HistoryOK
    <3> QED
      BY <1>4, <3>1, <3>2
  <2> QED
    BY <1>1, <1>4, <2>1, <2>2 DEF HistoryOK
<1>6. InOrderOfWriting'
  <2>1. \A t, w \in Replicas : By(seen'[t], w)
           = IF t = r /\ w = r THEN By(seen[r], r) \cup {u} ELSE By(seen[t], w)
    BY <1>2, <1>4 DEF By
  <2>2. ASSUME NEW w \in Replicas, NEW t \in Replicas, NEW s \in Replicas
        PROVE  /\ By(seen'[t], w) \subseteq By(seen'[w], w)
               /\ \/ By(seen'[t], w) \subseteq By(seen'[s], w)
                  \/ By(seen'[s], w) \subseteq By(seen'[t], w)
    <3>1. /\ By(seen[t], w) \subseteq By(seen[w], w) /\ By(seen[s], w) \subseteq By(seen[w], w)
          /\ By(seen[t], w) \subseteq By(seen[s], w) \/ By(seen[s], w) \subseteq By(seen[t], w)
      BY DEF AppInv, InOrderOfWriting
    <3>2. /\ By(seen'[t], w) = IF t = r /\ w = r THEN By(seen[r], r) \cup {u} ELSE By(seen[t], w)
          /\ By(seen'[s], w) = IF s = r /\ w = r THEN By(seen[r], r) \cup {u} ELSE By(seen[s], w)
          /\ By(seen'[w], w) = IF w = r THEN By(seen[r], r) \cup {u} ELSE By(seen[w], w)
      BY <2>1
    <3> QED
      BY <3>1, <3>2
  <2> QED
    BY <2>2 DEF InOrderOfWriting
<1>7. ASSUME NEW t \in Replicas PROVE Agree(kind, obj'[t], seen'[t], updates')
  <2>1. CASE t = r
    BY <1>1, <1>4, <2>1 DEF u
  <2>2. CASE t # r
    <3>1. Agree(kind, obj[t], seen[t], updates)
      BY DEF AppInv
    <3>2. Agree(kind, obj[t], seen[t], updates + 1)
      BY <1>1, <1>3, <3>1, MoreAgrees
    <3> QED
      BY <1>1, <1>4, <2>2, <3>2
  <2> QED
    BY <2>1, <2>2
<1> QED
  BY <1>1, <1>3, <1>4, <1>5, <1>6, <1>7 DEF AppInv
-----------------------------------------------------------------------------
(***************************************************************************)
(* Each operation of an application keeps the invariant.                   *)
(***************************************************************************)
LEMMA IncrementKeeps ==
    ASSUME AppInv, NEW r \in Replicas, NEW k \in Key, Increment(r, k)
    PROVE  AppInv'
<1> DEFINE S == seen[r] \cup {New(r, "add", k, {})}
<1>1. /\ IsFiniteSet(seen[r]) /\ New(r, "add", k, {}) \notin seen[r] /\ updates \in Nat
      /\ Agree(kind, obj[r], seen[r], updates)
  BY FreshUpdate DEF AppInv, HistoryOK
<1>2. CASE kind = "GCounter"
  <2>1. Update(r, "add", k, {}, GIncrement(obj[r], k))
    BY <1>2 DEF Increment
  <2>2. Agree(kind, GIncrement(obj[r], k), S, updates + 1)
    BY <1>1, <1>2, CountAgrees DEF Agree
  <2> QED
    BY <1>2, <2>1, <2>2, UpdateKeeps DEF Counting
<1>3. CASE kind = "PNCounter"
  <2> DEFINE new == [obj[r] EXCEPT !.inc = GIncrement(@, k)]
  <2>1. Update(r, "add", k, {}, new)
    BY <1>3 DEF Increment
  <2>2. /\ obj[r] = [inc |-> obj[r].inc, dec |-> obj[r].dec]
        /\ Counted(obj[r].inc, seen[r], "add", 0, updates)
        /\ Counted(obj[r].dec, seen[r], "remove", 0, updates)
    BY <1>1, <1>3 DEF Agree
  <2>3. Counted(GIncrement(obj[r].inc, k), S, "add", 0, updates + 1)
    BY <1>1, <2>2, CountAgrees
  <2>4. Counted(obj[r].dec, S, "remove", 0, updates + 1)
    <3>1. New(r, "add", k, {}).op # "remove"
      BY DEF New
    <3> QED
      BY <1>1, <2>2, <3>1, OtherCount
  <2>5. /\ new = [inc |-> new.inc, dec |-> new.dec]
        /\ new.inc = GIncrement(obj[r].inc, k) /\ new.dec = obj[r].dec
    BY <2>2
  <2> HIDE DEF new, S
  <2>6. Agree(kind, new, S, updates + 1)
    BY <1>3, <2>3, <2>4, <2>5 DEF Agree
  <2> QED
    BY <1>3, <2>1, <2>6, UpdateKeeps DEF Counting, S
<1>4. CASE kind = "GState"
  <2> DEFINE new == Put(obj[r], k, Ordinal(obj[r], k))
  <2>1. Update(r, "add", k, {}, new)
    BY <1>4 DEF Increment
  <2>2. Counted(obj[r], seen[r], "add", 1, updates)
    BY <1>1, <1>4 DEF Agree
  <2>3. Counted(new, S, "add", 1, updates + 1)
    BY <1>1, <2>2, CountAgrees
  <2> HIDE DEF new, S
  <2>4. Agree(kind, new, S, updates + 1)
    BY <1>4, <2>3 DEF Agree
  <2> QED
    BY <1>4, <2>1, <2>4, UpdateKeeps DEF Counting, S
<1> QED
  BY <1>2, <1>3, <1>4 DEF Increment

LEMMA DecrementKeeps ==
    ASSUME AppInv, NEW r \in Replicas, NEW k \in Key, Decrement(r, k)
    PROVE  AppInv'
<1> DEFINE S == seen[r] \cup {New(r, "remove", k, {})}
           new == [obj[r] EXCEPT !.dec = GIncrement(@, k)]
<1>1. /\ IsFiniteSet(seen[r]) /\ New(r, "remove", k, {}) \notin seen[r] /\ updates \in Nat
      /\ Agree(kind, obj[r], seen[r], updates)
  BY FreshUpdate DEF AppInv, HistoryOK
<1>2. kind = "PNCounter" /\ Update(r, "remove", k, {}, new)
  BY DEF Decrement
<1>3. /\ obj[r] = [inc |-> obj[r].inc, dec |-> obj[r].dec]
      /\ Counted(obj[r].inc, seen[r], "add", 0, updates)
      /\ Counted(obj[r].dec, seen[r], "remove", 0, updates)
  BY <1>1, <1>2 DEF Agree
<1>4. Counted(GIncrement(obj[r].dec, k), S, "remove", 0, updates + 1)
  BY <1>1, <1>3, CountAgrees
<1>5. Counted(obj[r].inc, S, "add", 0, updates + 1)
  <2>1. New(r, "remove", k, {}).op # "add"
    BY DEF New
  <2> QED
    BY <1>1, <1>3, <2>1, OtherCount
<1>6. /\ new = [inc |-> new.inc, dec |-> new.dec]
      /\ new.inc = obj[r].inc /\ new.dec = GIncrement(obj[r].dec, k)
  BY <1>3
<1> HIDE DEF new, S
<1>7. Agree(kind, new, S, updates + 1)
  BY <1>2, <1>4, <1>5, <1>6 DEF Agree
<1> QED
  BY <1>2, <1>7, UpdateKeeps DEF Counting, S

LEMMA AddKeeps ==
    ASSUME AppInv, NEW r \in Replicas, NEW x \in Item, Add(r, x)
    PROVE  AppInv'
<1> DEFINE u == New(r, "add", x, {})
           S == seen[r] \cup {u}
<1>1. Agree(kind, obj[r], seen[r], updates)
  BY DEF AppInv
<1>2. u.op = "add" /\ u.x = x /\ u.id = updates + 1 /\ u.undoes = {}
  BY DEF New
<1>3. /\ Xs(S, "add") = Xs(seen[r], "add") \cup {x} /\ Gone(S) = Gone(seen[r])
      /\ Tags(S) = Tags(seen[r]) \cup {<<x, updates + 1>>}
      /\ Live(S) \subseteq Live(seen[r]) \cup {<<x, updates + 1>>}
  <2>1. Undone(S) = Undone(seen[r])
    BY <1>2 DEF Undone
  <2> HIDE DEF u
  <2>2. Xs(S, "add") = Xs(seen[r], "add") \cup {x}
    BY <1>2 DEF Xs
  <2>3. Gone(S) = Gone(seen[r])
    BY <1>2 DEF Gone
  <2>4. Tags(S) = Tags(seen[r]) \cup {<<x, updates + 1>>}
    BY <1>2 DEF Tags
  <2>5. Live(S) \subseteq Live(seen[r]) \cup {<<x, updates + 1>>}
    BY <1>2, <2>1 DEF Live
  <2> QED
    BY <2>2, <2>3, <2>4, <2>5
<1>4. CASE kind = "GSet"
  <2>1. Update(r, "add", x, {}, obj[r] \cup {x})
    BY <1>4 DEF Add
  <2>2. Agree(kind, obj[r] \cup {x}, S, updates + 1)
    BY <1>1, <1>3, <1>4 DEF Agree
  <2> QED
    BY <1>4, <2>1, <2>2, UpdateKeeps DEF Counting
<1>5. CASE kind = "TwoPSet"
  <2>1. Update(r, "add", x, {}, TwoPAdd(obj[r], x))
    BY <1>5 DEF Add
  <2>2. /\ obj[r] = [adds |-> Xs(seen[r], "add"), removes |-> Gone(seen[r])]
        /\ Gone(seen[r]) \subseteq Xs(seen[r], "add")
    BY <1>1, <1>5 DEF Agree
  <2>3. TwoPAdd(obj[r], x) = [adds |-> Xs(S, "add"), removes |-> Gone(S)]
    <3> HIDE DEF S
    <3>1. CASE x \in Gone(seen[r])
      <4>1. Xs(S, "add") = Xs(seen[r], "add")
        BY <1>3, <2>2, <3>1
      <4> QED
        BY <1>3, <2>2, <3>1, <4>1 DEF TwoPAdd
    <3>2. CASE x \notin Gone(seen[r])
      BY <1>3, <2>2, <3>2 DEF TwoPAdd
    <3> QED
      BY <3>1, <3>2
  <2>4. Agree(kind, TwoPAdd(obj[r], x), S, updates + 1)
    BY <1>3, <1>5, <2>2, <2>3 DEF Agree
  <2> QED
    BY <1>5, <2>1, <2>4, UpdateKeeps DEF Counting
<1>6. CASE kind = "ORSet"
  <2> DEFINE new == ORAdd(obj[r], x, updates + 1)
  <2>1. Update(r, "add", x, {}, new)
    BY <1>6 DEF Add
  <2>2. /\ obj[r] = [observed |-> obj[r].observed, removed |-> obj[r].removed]
        /\ Live(seen[r]) \subseteq obj[r].observed
        /\ obj[r].observed \cup obj[r].removed \subseteq Tags(seen[r])
    BY <1>1, <1>6 DEF Agree
  <2>3. new = [observed |-> obj[r].observed \cup {<<x, updates + 1>>}, removed |-> obj[r].removed]
    BY <2>2, SMTT(40) DEF ORAdd
  <2>4. Agree(kind, new, S, updates + 1)
    <3>1. /\ new.observed = obj[r].observed \cup {<<x, updates + 1>>}
          /\ new.removed = obj[r].removed
          /\ new = [observed |-> new.observed, removed |-> new.removed]
      BY <2>3
    <3>2. Live(S) \subseteq new.observed /\ new.observed \cup new.removed \subseteq Tags(S)
      BY <1>3, <2>2, <3>1
    <3> HIDE DEF new, S
    <3> QED
      BY <1>6, <3>1, <3>2 DEF Agree
  <2> QED
    BY <1>6, <2>1, <2>4, UpdateKeeps DEF Counting
<1> QED
  BY <1>4, <1>5, <1>6 DEF Add

LEMMA RemoveKeeps ==
    ASSUME AppInv, NEW r \in Replicas, NEW x \in Item, Remove(r, x)
    PROVE  AppInv'
<1> DEFINE u == New(r, "remove", x, Adds(r, x))
           S == seen[r] \cup {u}
<1>1. Agree(kind, obj[r], seen[r], updates)
  BY DEF AppInv
<1>2. u.op = "remove" /\ u.x = x /\ u.undoes = Adds(r, x)
  BY DEF New
<1>3. Adds(r, x) # {} <=> x \in Xs(seen[r], "add")
  BY DEF Adds, Xs
<1> HIDE DEF u
<1>4. Xs(S, "add") = Xs(seen[r], "add") /\ Tags(S) = Tags(seen[r])
  BY <1>2 DEF Xs, Tags
<1>5. CASE kind = "TwoPSet"
  <2>1. Update(r, "remove", x, Adds(r, x), TwoPRemove(obj[r], x))
    BY <1>5 DEF Remove
  <2>2. /\ obj[r] = [adds |-> Xs(seen[r], "add"), removes |-> Gone(seen[r])]
        /\ Gone(seen[r]) \subseteq Xs(seen[r], "add")
    BY <1>1, <1>5 DEF Agree
  <2>3. Gone(S) = IF x \in Xs(seen[r], "add") THEN Gone(seen[r]) \cup {x} ELSE Gone(seen[r])
    BY <1>2, <1>3 DEF Gone
  <2>4. TwoPRemove(obj[r], x) = [adds |-> Xs(S, "add"), removes |-> Gone(S)]
    BY <1>4, <2>2, <2>3 DEF TwoPRemove
  <2>5. Gone(S) \subseteq Xs(S, "add")
    BY <1>4, <2>2, <2>3
  <2>6. Agree(kind, TwoPRemove(obj[r], x), S, updates + 1)
    BY <1>5, <2>4, <2>5 DEF Agree
  <2> QED
    BY <1>5, <2>1, <2>6, UpdateKeeps DEF Counting, u
<1>6. CASE kind = "ORSet"
  <2> DEFINE new == ORRemove(obj[r], x)
             gone == {t \in obj[r].observed : t[1] = x}
  <2>1. Update(r, "remove", x, Adds(r, x), new)
    BY <1>6 DEF Remove
  <2>2. /\ Live(seen[r]) \subseteq obj[r].observed
        /\ obj[r].observed \cup obj[r].removed \subseteq Tags(seen[r])
    BY <1>1, <1>6 DEF Agree
  <2>3. /\ new.observed = obj[r].observed \ gone /\ new.removed = obj[r].removed \cup gone
        /\ new = [observed |-> new.observed, removed |-> new.removed]
    BY DEF ORRemove
  <2>4. Live(S) \subseteq {t \in Live(seen[r]) : t[1] # x}
    <3>1. Undone(S) = Undone(seen[r]) \cup Adds(r, x)
      BY <1>2 DEF Undone
    <3>2. \A v \in seen[r] : v.op = "add" /\ v.x = x => v.id \in Adds(r, x)
      BY DEF Adds
    <3> QED
      BY <1>2, <3>1, <3>2 DEF Live
  <2>5. Live(S) \subseteq new.observed /\ new.observed \cup new.removed \subseteq Tags(S)
    <3>1. Live(S) \subseteq new.observed
      BY <2>2, <2>3, <2>4
    <3>2. new.observed \cup new.removed \subseteq Tags(S)
      BY <1>4, <2>2, <2>3
    <3> QED
      BY <3>1, <3>2
  <2>6. Agree(kind, new, S, updates + 1)
    <3> HIDE DEF new, S
    <3> QED
      BY <1>6, <2>3, <2>5 DEF Agree
  <2> QED
    BY <1>6, <2>1, <2>6, UpdateKeeps DEF Counting, u
<1> QED
  BY <1>5, <1>6 DEF Remove

\* Histories of one application are comparable.
LEMMA HistoriesComparable ==
    ASSUME AppInv, NEW r \in Replicas, NEW s \in Replicas, NEW op
    PROVE  Comparable(seen[r], seen[s], op)
<1> SUFFICES ASSUME NEW x, Sole(seen[r] \cup seen[s], op, x)
             PROVE  \/ At(seen[r], op, x) \subseteq At(seen[s], op, x)
                    \/ At(seen[s], op, x) \subseteq At(seen[r], op, x)
  BY DEF Comparable
<1>1. CASE At(seen[r], op, x) = {}
  BY <1>1
<1>2. CASE At(seen[r], op, x) # {}
  <2>1. PICK u \in At(seen[r], op, x) : TRUE
    BY <1>2
  <2>2. u.by \in Replicas
    BY <2>1 DEF At, AppInv, HistoryOK
  <2>3. /\ \A v \in At(seen[r], op, x) : v \in By(seen[r], u.by)
        /\ \A v \in At(seen[s], op, x) : v \in By(seen[s], u.by)
    BY <2>1 DEF Sole, At, By
  <2>4. By(seen[r], u.by) \subseteq By(seen[s], u.by) \/ By(seen[s], u.by) \subseteq By(seen[r], u.by)
    BY <2>2 DEF AppInv, InOrderOfWriting
  <2> QED
    BY <2>3, <2>4 DEF At, By
<1> QED
  BY <1>1, <1>2

LEMMA MergeKeeps ==
    ASSUME AppInv, NEW r \in Replicas, NEW s \in Replicas, Merge(r, s)
    PROVE  AppInv'
<1> DEFINE new == Merged(kind, obj[r], obj[s])
<1>1. /\ kind' = kind /\ updates' = updates
      /\ obj' = [obj EXCEPT ![r] = new] /\ seen' = [seen EXCEPT ![r] = seen[r] \cup seen[s]]
      /\ obj = [t \in Replicas |-> obj[t]] /\ seen = [t \in Replicas |-> seen[t]]
  BY DEF Merge, AppInv, HistoryOK
<1> HIDE DEF new
<1>2. /\ obj' = [t \in Replicas |-> obj'[t]] /\ seen' = [t \in Replicas |-> seen'[t]]
      /\ \A t \in Replicas : /\ obj'[t] = IF t = r THEN new ELSE obj[t]
                             /\ seen'[t] = IF t = r THEN seen[r] \cup seen[s] ELSE seen[t]
  BY <1>1
<1>3. IsFiniteSet(seen[r]) /\ IsFiniteSet(seen[s])
  BY DEF AppInv, HistoryOK
<1>4. HistoryOK'
  <2>1. IsFiniteSet(seen[r] \cup seen[s])
    BY <1>3, FS_Union
  <2>2. \A t \in Replicas : IsFiniteSet(seen'[t])
    BY <1>2, <2>1 DEF AppInv, HistoryOK
  <2>3. ASSUME NEW t \in Replicas, NEW v \in seen'[t]
        PROVE  \E w \in Replicas : v \in seen[w]
    BY <1>2
  <2> QED
    BY <1>1, <1>2, <2>2, <2>3 DEF AppInv, HistoryOK
<1>5. InOrderOfWriting'
  <2>1. ASSUME NEW w \in Replicas, NEW t \in Replicas
        PROVE  \E a \in Replicas : By(seen'[t], w) = By(seen[a], w)
    <3>1. CASE t = r
      <4>1. By(seen'[t], w) = By(seen[r], w) \cup By(seen[s], w)
        BY <1>2, <3>1 DEF By
      <4>2. By(seen[r], w) \subseteq By(seen[s], w) \/ By(seen[s], w) \subseteq By(seen[r], w)
        BY DEF AppInv, InOrderOfWriting
      <4> QED
        BY <4>1, <4>2
    <3>2. CASE t # r
      BY <1>2, <3>2
    <3> QED
      BY <3>1, <3>2
  <2>2. ASSUME NEW w \in Replicas, NEW t \in Replicas, NEW q \in Replicas
        PROVE  /\ By(seen'[t], w) \subseteq By(seen'[w], w)
               /\ \/ By(seen'[t], w) \subseteq By(seen'[q], w)
                  \/ By(seen'[q], w) \subseteq By(seen'[t], w)
    <3>0. \A c \in Replicas : \E a \in Replicas : By(seen'[c], w) = By(seen[a], w)
      BY <2>1, Zenon
    <3>1. PICK a \in Replicas : By(seen'[t], w) = By(seen[a], w)
      BY <3>0
    <3>2. PICK b \in Replicas : By(seen'[q], w) = By(seen[b], w)
      BY <3>0, Zenon
    <3>3. By(seen[w], w) \subseteq By(seen'[w], w)
      BY <1>2 DEF By
    <3>4. /\ By(seen[a], w) \subseteq By(seen[w], w)
          /\ By(seen[a], w) \subseteq By(seen[b], w) \/ By(seen[b], w) \subseteq By(seen[a], w)
      BY DEF AppInv, InOrderOfWriting
    <3> QED
      BY <3>1, <3>2, <3>3, <3>4
  <2> QED
    BY <2>2 DEF InOrderOfWriting
<1>6. Agree(kind, new, seen[r] \cup seen[s], updates)
  <2>1. \A op : Comparable(seen[r], seen[s], op)
    BY HistoriesComparable
  <2>2. /\ kind \in Kinds /\ updates \in Nat
        /\ Agree(kind, obj[r], seen[r], updates) /\ Agree(kind, obj[s], seen[s], updates)
    BY DEF AppInv
  <2> QED
    BY <1>3, <2>1, <2>2, MergeAgrees DEF new
<1>7. ASSUME NEW t \in Replicas PROVE Agree(kind, obj'[t], seen'[t], updates)
  <2>1. CASE t = r
    BY <1>2, <1>6, <2>1
  <2>2. CASE t # r
    BY <1>2, <2>2 DEF AppInv
  <2> QED
    BY <2>1, <2>2
<1> QED
  BY <1>1, <1>2, <1>4, <1>5, <1>7 DEF AppInv

LEMMA CopyKeeps ==
    ASSUME AppInv, NEW r \in Replicas, NEW s \in Replicas, Copy(r, s)
    PROVE  AppInv'
<1>1. /\ kind' = kind /\ updates' = updates /\ seen[s] = {}
      /\ obj' = [obj EXCEPT ![s] = obj[r]] /\ seen' = [seen EXCEPT ![s] = seen[r]]
      /\ obj = [t \in Replicas |-> obj[t]] /\ seen = [t \in Replicas |-> seen[t]]
  BY DEF Copy, AppInv, HistoryOK
<1>2. /\ obj' = [t \in Replicas |-> obj'[t]] /\ seen' = [t \in Replicas |-> seen'[t]]
      /\ \A t \in Replicas : /\ obj'[t] = IF t = s THEN obj[r] ELSE obj[t]
                             /\ seen'[t] = IF t = s THEN seen[r] ELSE seen[t]
  BY <1>1
<1>3. \A t \in Replicas : \E w \in Replicas : obj'[t] = obj[w] /\ seen'[t] = seen[w]
  BY <1>2
<1>4. HistoryOK'
  BY <1>1, <1>2, <1>3 DEF AppInv, HistoryOK
<1>5. InOrderOfWriting'
  <2>1. ASSUME NEW w \in Replicas, NEW t \in Replicas, NEW q \in Replicas
        PROVE  /\ By(seen'[t], w) \subseteq By(seen'[w], w)
               /\ \/ By(seen'[t], w) \subseteq By(seen'[q], w)
                  \/ By(seen'[q], w) \subseteq By(seen'[t], w)
    <3>1. PICK a \in Replicas : seen'[t] = seen[a]
      BY <1>3
    <3>2. PICK b \in Replicas : seen'[q] = seen[b]
      BY <1>3
    <3>3. By(seen[w], w) \subseteq By(seen'[w], w)
      BY <1>1, <1>2 DEF By
    <3>4. /\ By(seen[a], w) \subseteq By(seen[w], w)
          /\ By(seen[a], w) \subseteq By(seen[b], w) \/ By(seen[b], w) \subseteq By(seen[a], w)
      BY DEF AppInv, InOrderOfWriting
    <3> QED
      BY <3>1, <3>2, <3>3, <3>4
  <2> QED
    BY <2>1 DEF InOrderOfWriting
<1>6. \A t \in Replicas : Agree(kind, obj'[t], seen'[t], updates)
  BY <1>3 DEF AppInv
<1> QED
  BY <1>1, <1>2, <1>4, <1>5, <1>6 DEF AppInv

LEMMA AppStep == AppInv /\ [CrdtNext]_crdtVars => AppInv'
<1> SUFFICES ASSUME AppInv, [CrdtNext]_crdtVars PROVE AppInv'
  OBVIOUS
<1>1. CASE UNCHANGED crdtVars
  <2>1. kind' = kind /\ obj' = obj /\ seen' = seen /\ updates' = updates
    BY <1>1 DEF crdtVars
  <2> QED
    BY <2>1 DEF AppInv, HistoryOK, InOrderOfWriting, By
<1>2. CASE CrdtNext
  BY <1>2, IncrementKeeps, DecrementKeeps, AddKeeps, RemoveKeeps, MergeKeeps, CopyKeeps
     DEF CrdtNext
<1> QED
  BY <1>1, <1>2
-----------------------------------------------------------------------------
(***************************************************************************)
(* What follows for the properties of ErPi.                                *)
(***************************************************************************)
LEMMA AppMergeLaws == AppInv => MergeLaws
<1> SUFFICES ASSUME AppInv, NEW r \in Replicas, NEW s \in Replicas, NEW t \in Replicas
             PROVE  /\ Merged(kind, obj[r], obj[r]) = obj[r]
                    /\ Merged(kind, obj[r], obj[s]) = Merged(kind, obj[s], obj[r])
                    /\ Merged(kind, Merged(kind, obj[r], obj[s]), obj[t])
                         = Merged(kind, obj[r], Merged(kind, obj[s], obj[t]))
  BY DEF MergeLaws
<1>1. /\ kind \in Kinds
      /\ \A w \in Replicas : Agree(kind, obj[w], seen[w], updates)
  BY DEF AppInv, HistoryOK
<1>2. CASE kind = "ORSet"
  <2>1. obj[r] = [observed |-> obj[r].observed, removed |-> obj[r].removed]
    BY <1>1, <1>2 DEF Agree
  <2> QED
    BY <1>2, <2>1 DEF Merged, ORMerge
<1>3. CASE kind = "GSet"
  BY <1>3 DEF Merged
<1>4. CASE kind = "TwoPSet"
  <2>1. obj[r] = [adds |-> Xs(seen[r], "add"), removes |-> Gone(seen[r])]
    BY <1>1, <1>4 DEF Agree
  <2>2. obj[r] = [adds |-> obj[r].adds, removes |-> obj[r].removes]
    BY <2>1
  <2> QED
    BY <1>4, <2>2 DEF Merged, TwoPMerge
<1>5. CASE kind \in {"GCounter", "GState"}
  <2>1. \A w \in Replicas : Counter(obj[w])
    BY <1>1, <1>5, CountedIsCounter DEF Agree
  <2>2. \A a, b : Merged(kind, a, b) = GMerge(a, b)
    BY <1>5 DEF Merged
  <2> QED
    BY <2>1, <2>2, GMergeLaws
<1>6. CASE kind = "PNCounter"
  <2>1. \A w \in Replicas : /\ obj[w] = [inc |-> obj[w].inc, dec |-> obj[w].dec]
                            /\ Counter(obj[w].inc) /\ Counter(obj[w].dec)
    BY <1>1, <1>6, CountedIsCounter DEF Agree
  <2>2. \A a, b : /\ Merged(kind, a, b) = [inc |-> GMerge(a.inc, b.inc), dec |-> GMerge(a.dec, b.dec)]
                  /\ Merged(kind, a, b).inc = GMerge(a.inc, b.inc)
                  /\ Merged(kind, a, b).dec = GMerge(a.dec, b.dec)
    BY <1>6 DEF Merged, PNMerge
  <2>3. /\ GMerge(obj[r].inc, obj[r].inc) = obj[r].inc
        /\ GMerge(obj[r].inc, obj[s].inc) = GMerge(obj[s].inc, obj[r].inc)
        /\ GMerge(GMerge(obj[r].inc, obj[s].inc), obj[t].inc)
             = GMerge(obj[r].inc, GMerge(obj[s].inc, obj[t].inc))
    <3>1. Counter(obj[r].inc) /\ Counter(obj[s].inc) /\ Counter(obj[t].inc)
      BY <2>1
    <3> QED
      BY <3>1, GMergeLaws
  <2>4. /\ GMerge(obj[r].dec, obj[r].dec) = obj[r].dec
        /\ GMerge(obj[r].dec, obj[s].dec) = GMerge(obj[s].dec, obj[r].dec)
        /\ GMerge(GMerge(obj[r].dec, obj[s].dec), obj[t].dec)
             = GMerge(obj[r].dec, GMerge(obj[s].dec, obj[t].dec))
    <3>1. Counter(obj[r].dec) /\ Counter(obj[s].dec) /\ Counter(obj[t].dec)
      BY <2>1
    <3> QED
      BY <3>1, GMergeLaws
  <2> QED
    BY <2>1, <2>2, <2>3, <2>4
<1> QED
  BY <1>1, <1>2, <1>3, <1>4, <1>5, <1>6 DEF Kinds

LEMMA FiniteKeys ==
    ASSUME NEW S, IsFiniteSet(S), NEW op
    PROVE  IsFiniteSet(Xs(S, op))
<1> DEFINE A == {v \in S : v.op = op}
           f == [u \in A |-> u.x]
<1>1. IsFiniteSet(A)
  BY FS_Subset
<1>2. f \in Surjection(A, Xs(S, op))
  BY DEF Surjection, Xs
<1> QED
  BY <1>1, <1>2, FS_Surjection

LEMMA ValueCounts ==
    ASSUME NEW S, IsFiniteSet(S), NEW op, NEW f, NEW m, Counted(f, S, op, 0, m)
    PROVE  LET c == Cardinality({u \in S : u.op = op})
           IN  /\ c \in Nat /\ GGet(f) \in Nat /\ GGet(f) <= c
               /\ (\A x \in Xs(S, op) : Sole(S, op, x)) => GGet(f) = c
<1> DEFINE A == {u \in S : u.op = op}
<1>1. IsFiniteSet(A) /\ Cardinality(A) \in Nat
  BY FS_Subset, FS_CardinalityType
<1>2. DOMAIN f = Xs(S, op) /\ IsFiniteSet(DOMAIN f)
  BY CountedIsCounter, FiniteKeys
<1>3. \A u \in A : u.x \in DOMAIN f
  BY <1>2 DEF Xs
<1>4. ASSUME NEW k \in DOMAIN f
      PROVE  /\ f[k] \in Nat /\ f[k] <= Cardinality({u \in A : u.x = k})
             /\ Sole(S, op, k) => f[k] = Cardinality({u \in A : u.x = k})
  <2>1. {u \in A : u.x = k} = At(S, op, k)
    BY DEF At
  <2>2. CountsKey(f, S, op, k, 0, m)
    BY <1>2 DEF Counted
  <2>3. Cardinality(At(S, op, k)) \in Nat
    BY AtFacts
  <2>4. Cardinality(At(S, op, k)) - 0 = Cardinality(At(S, op, k))
    BY <2>3
  <2>5. \A i \in 0..m : i \in Nat
    OBVIOUS
  <2> HIDE DEF A
  <2> QED
    BY <2>1, <2>2, <2>4, <2>5 DEF CountsKey
<1> HIDE DEF A
<1>5. /\ GGet(f) \in Nat /\ GGet(f) <= Cardinality(A)
      /\ (\A k \in DOMAIN f : f[k] = Cardinality({u \in A : u.x = k})) => GGet(f) = Cardinality(A)
  BY <1>1, <1>2, <1>3, <1>4, GGetCounts
<1> QED
  BY <1>1, <1>2, <1>4, <1>5 DEF A

LEMMA AppAgrees == AppInv => AgreesWithHistory
<1> SUFFICES ASSUME AppInv, NEW r \in Replicas
             PROVE  LET n(op) == Cardinality({u \in seen[r] : u.op = op})
                        added == {u.x : u \in {v \in seen[r] : v.op = "add"}}
                        gone == {u.x : u \in {v \in seen[r] : v.op = "remove" /\ v.undoes # {}}}
                        value == Value(kind, obj[r])
                        own == \A x \in Key : OneWriter(r, x)
                    IN  CASE kind = "GCounter" -> value <= n("add") /\ (own => value = n("add"))
                          [] kind = "PNCounter" -> own => value = n("add") - n("remove")
                          [] kind = "GState" ->
                               /\ DOMAIN value = added
                               /\ \A x \in added :
                                    LET all == Cardinality(Of(r, "add", x)) - 1
                                    IN  value[x] <= all /\ (OneWriter(r, x) => value[x] = all)
                          [] kind \in {"GSet", "TwoPSet"} -> value = added \ gone
                          [] OTHER -> TRUE
  BY DEF AgreesWithHistory
<1> DEFINE n(op) == Cardinality({u \in seen[r] : u.op = op})
           added == {u.x : u \in {v \in seen[r] : v.op = "add"}}
           gone == {u.x : u \in {v \in seen[r] : v.op = "remove" /\ v.undoes # {}}}
           value == Value(kind, obj[r])
           own == \A x \in Key : OneWriter(r, x)
<1>1. /\ kind \in Kinds /\ IsFiniteSet(seen[r]) /\ Agree(kind, obj[r], seen[r], updates)
      /\ kind \in {"GCounter", "GState", "GSet"} => \A u \in seen[r] : u.op = "add"
  BY DEF AppInv, HistoryOK
<1>2. added = Xs(seen[r], "add") /\ gone = Gone(seen[r])
  BY DEF Xs, Gone
<1>3. /\ \A x : OneWriter(r, x) => \A op : Sole(seen[r], op, x)
      /\ kind \in Counting => \A op : Xs(seen[r], op) \subseteq Key
  <2>1. \A x : OneWriter(r, x) => \A op : Sole(seen[r], op, x)
    BY DEF OneWriter, Sole, At
  <2>2. kind \in Counting => \A op : Xs(seen[r], op) \subseteq Key
    BY DEF AppInv, HistoryOK, Xs
  <2> QED
    BY <2>1, <2>2
<1>4. ASSUME kind = "GCounter" PROVE value <= n("add") /\ (own => value = n("add"))
  <2>1. Counted(obj[r], seen[r], "add", 0, updates)
    BY <1>1, <1>4 DEF Agree
  <2>2. value = GGet(obj[r])
    BY <1>4 DEF Value
  <2>3. /\ GGet(obj[r]) <= n("add")
        /\ (\A x \in Xs(seen[r], "add") : Sole(seen[r], "add", x)) => GGet(obj[r]) = n("add")
    BY <1>1, <2>1, ValueCounts
  <2> HIDE DEF value, n
  <2> QED
    BY <1>3, <1>4, <2>2, <2>3 DEF Counting
<1>5. ASSUME kind = "PNCounter", own PROVE value = n("add") - n("remove")
  <2>1. /\ Counted(obj[r].inc, seen[r], "add", 0, updates)
        /\ Counted(obj[r].dec, seen[r], "remove", 0, updates)
    BY <1>1, <1>5 DEF Agree
  <2>2. value = GGet(obj[r].inc) - GGet(obj[r].dec)
    BY <1>5 DEF Value
  <2>3. \A op : \A x \in Xs(seen[r], op) : Sole(seen[r], op, x)
    BY <1>3, <1>5 DEF Counting
  <2>4. GGet(obj[r].inc) = n("add")
    BY <1>1, <2>1, <2>3, ValueCounts
  <2>5. GGet(obj[r].dec) = n("remove")
    BY <1>1, <2>1, <2>3, ValueCounts
  <2> HIDE DEF value, n
  <2> QED
    BY <2>2, <2>4, <2>5
<1>6. ASSUME kind = "GState"
      PROVE  /\ DOMAIN value = added
             /\ \A x \in added :
                  LET all == Cardinality(Of(r, "add", x)) - 1
                  IN  value[x] <= all /\ (OneWriter(r, x) => value[x] = all)
  <2>1. value = obj[r] /\ Counted(value, seen[r], "add", 1, updates)
    BY <1>1, <1>6 DEF Value, Agree
  <2>2. \A x : Of(r, "add", x) = At(seen[r], "add", x)
    BY DEF Of, At
  <2> HIDE DEF value, added
  <2>3. DOMAIN value = Xs(seen[r], "add")
    BY <2>1, CountedIsCounter
  <2>4. \A x \in Xs(seen[r], "add") : CountsKey(value, seen[r], "add", x, 1, updates)
    BY <2>1 DEF Counted
  <2> QED
    BY <1>2, <1>3, <2>2, <2>3, <2>4 DEF CountsKey
<1>7. ASSUME kind = "GSet" PROVE value = added \ gone
  <2>1. gone = {}
    BY <1>1, <1>7
  <2>2. value = Xs(seen[r], "add")
    BY <1>1, <1>7 DEF Value, Agree
  <2> QED
    BY <1>2, <2>1, <2>2
<1>8. ASSUME kind = "TwoPSet" PROVE value = added \ gone
  BY <1>1, <1>2, <1>8 DEF Value, Agree, TwoPGet
<1> HIDE DEF n, added, gone, value, own
<1>9. CASE kind = "GCounter"
  BY <1>4, <1>9 DEF n, added, gone, value, own
<1>10. CASE kind = "PNCounter"
  BY <1>5, <1>10 DEF n, added, gone, value, own
<1>11. CASE kind = "GState"
  BY <1>6, <1>11 DEF n, added, gone, value, own
<1>12. CASE kind \in {"GSet", "TwoPSet"}
  BY <1>7, <1>8, <1>12 DEF n, added, gone, value, own
<1>13. CASE kind = "ORSet"
  BY <1>13
<1> QED
  BY <1>1, <1>9, <1>10, <1>11, <1>12, <1>13 DEF Kinds

LEMMA AppAddWins == AppInv => ORSetAddWins
<1> SUFFICES ASSUME AppInv, kind = "ORSet", NEW r \in Replicas
             PROVE  LET adds == {u \in seen[r] : u.op = "add"}
                        undone == UNION {u.undoes : u \in seen[r]}
                    IN  /\ {u.x : u \in {v \in adds : v.id \notin undone}} \subseteq Value(kind, obj[r])
                        /\ Value(kind, obj[r]) \subseteq {u.x : u \in adds}
  BY DEF ORSetAddWins
<1>1. /\ Live(seen[r]) \subseteq obj[r].observed
      /\ obj[r].observed \subseteq Tags(seen[r])
  BY DEF AppInv, Agree
<1>2. Value(kind, obj[r]) = {t[1] : t \in obj[r].observed}
  BY DEF Value, ORGet
<1>3. ASSUME NEW u \in seen[r], u.op = "add", u.id \notin UNION {v.undoes : v \in seen[r]}
      PROVE  u.x \in Value(kind, obj[r])
  <2>1. <<u.x, u.id>> \in obj[r].observed
    BY <1>1, <1>3 DEF Live, Undone
  <2> QED
    BY <1>2, <2>1
<1>4. ASSUME NEW y \in Value(kind, obj[r]) PROVE \E u \in seen[r] : u.op = "add" /\ u.x = y
  <2>1. PICK t \in obj[r].observed : y = t[1]
    BY <1>2
  <2>2. t \in Tags(seen[r])
    BY <1>1, <2>1
  <2> QED
    BY <2>1, <2>2 DEF Tags
<1> QED
  BY <1>3, <1>4
-----------------------------------------------------------------------------
(***************************************************************************)
(* There are at most Factorial[n] permutations of n.  Factorial is a       *)
(* recursive function on the natural numbers: that it has a value is shown *)
(* with the solutions of its equation on 0..m.                             *)
(***************************************************************************)
Factors(g, m) == g = [n \in 0..m |-> IF n = 0 THEN 1 ELSE n * g[n - 1]]

LEMMA FactorsExist ==
    ASSUME NEW m \in Nat
    PROVE  \E g : Factors(g, m)
<1> DEFINE Bad == {k \in Nat : ~\E g : Factors(g, k)}
<1>1. SUFFICES ASSUME Bad # {} PROVE FALSE
  OBVIOUS
<1>2. PICK k \in Bad : \A j \in Bad : k <= j
  <2>1. Bad \subseteq Nat
    OBVIOUS
  <2> HIDE DEF Bad
  <2> QED
    BY <1>1, <2>1, LeastNatural
<1>3. CASE k = 0
  <2> DEFINE g == [n \in 0..0 |-> 1]
  <2>1. \A n \in 0..0 : n = 0
    OBVIOUS
  <2>2. g = [n \in 0..0 |-> IF n = 0 THEN 1 ELSE n * g[n - 1]]
    BY <2>1
  <2> QED
    BY <1>3, <2>2 DEF Factors
<1>4. CASE k # 0
  <2>1. k \in Nat /\ k - 1 \in Nat /\ k - 1 \notin Bad
    BY <1>2, <1>4
  <2>2. PICK h : Factors(h, k - 1)
    BY <2>1
  <2> DEFINE g == [n \in 0..k |-> IF n = 0 THEN 1 ELSE n * h[n - 1]]
  <2>3. \A n \in 0..(k - 1) : n \in 0..k /\ g[n] = h[n]
    <3>1. \A n \in 0..(k - 1) : h[n] = IF n = 0 THEN 1 ELSE n * h[n - 1]
      BY <2>2 DEF Factors
    <3>2. \A n \in 0..(k - 1) : n \in 0..k
      BY <2>1
    <3> QED
      BY <3>1, <3>2
  <2>4. \A n \in 0..k : n # 0 => n - 1 \in 0..(k - 1)
    BY <2>1
  <2>5. \A n \in 0..k : g[n] = IF n = 0 THEN 1 ELSE n * g[n - 1]
    BY <2>3, <2>4
  <2>6. Factors(g, k)
    BY <2>5 DEF Factors
  <2> QED
    BY <2>6
<1> QED
  BY <1>3, <1>4

LEMMA FactorsAgree ==
    ASSUME NEW m \in Nat, NEW k \in Nat, NEW g, NEW h, Factors(g, m), Factors(h, k),
           NEW n \in Nat, n <= m, n <= k
    PROVE  g[n] = h[n]
<1> DEFINE Bad == {j \in Nat : j <= m /\ j <= k /\ g[j] # h[j]}
<1>1. SUFFICES ASSUME Bad # {} PROVE FALSE
  OBVIOUS
<1>2. PICK j \in Bad : \A i \in Bad : j <= i
  <2>1. Bad \subseteq Nat
    OBVIOUS
  <2> HIDE DEF Bad
  <2> QED
    BY <1>1, <2>1, LeastNatural
<1>3. /\ j \in 0..m /\ j \in 0..k /\ j \in Nat
      /\ g[j] = (IF j = 0 THEN 1 ELSE j * g[j - 1])
      /\ h[j] = (IF j = 0 THEN 1 ELSE j * h[j - 1])
  <2>1. j \in 0..m /\ j \in 0..k
    OBVIOUS
  <2> HIDE DEF Bad
  <2> QED
    BY <2>1 DEF Factors
<1>4. CASE j = 0
  BY <1>3, <1>4
<1>5. CASE j # 0
  <2>1. j - 1 \in Nat /\ j - 1 <= m /\ j - 1 <= k /\ j - 1 \notin Bad
    BY <1>2, <1>3, <1>5
  <2> QED
    BY <1>3, <1>5, <2>1
<1> QED
  BY <1>4, <1>5

LEMMA FactorialEquation ==
    /\ Factorial[0] = 1
    /\ \A n \in Nat : Factorial[n + 1] = (n + 1) * Factorial[n]
<1> DEFINE sol(m) == CHOOSE g : Factors(g, m)
           F == [n \in Nat |-> sol(n)[n]]
<1>1. \A m \in Nat : Factors(sol(m), m)
  BY FactorsExist
<1> HIDE DEF sol
<1>2. ASSUME NEW n \in Nat PROVE F[n] = IF n = 0 THEN 1 ELSE n * F[n - 1]
  <2>1. n \in 0..n
    OBVIOUS
  <2>2. sol(n)[n] = IF n = 0 THEN 1 ELSE n * sol(n)[n - 1]
    BY <1>1, <2>1 DEF Factors
  <2>3. ASSUME n # 0 PROVE sol(n)[n - 1] = sol(n - 1)[n - 1]
    <3>1. n - 1 \in Nat /\ n - 1 <= n /\ n - 1 <= n - 1
      BY <2>3
    <3> QED
      BY <1>1, <3>1, FactorsAgree
  <2>4. n # 0 => n - 1 \in Nat
    OBVIOUS
  <2> QED
    BY <2>2, <2>3, <2>4
<1>3. F = [n \in Nat |-> IF n = 0 THEN 1 ELSE n * F[n - 1]]
  BY <1>2
<1> HIDE DEF F
<1>4. Factorial = [n \in Nat |-> IF n = 0 THEN 1 ELSE n * Factorial[n - 1]]
  BY <1>3, Zenon DEF Factorial
<1>5. Factorial[0] = 1
  BY <1>4
<1>6. ASSUME NEW n \in Nat PROVE Factorial[n + 1] = (n + 1) * Factorial[n]
  <2>1. n + 1 \in Nat /\ n + 1 # 0 /\ (n + 1) - 1 = n
    OBVIOUS
  <2>2. Factorial[n + 1] = (n + 1) * Factorial[(n + 1) - 1]
    BY <1>4, <2>1
  <2> QED
    BY <2>1, <2>2
<1> QED
  BY <1>5, <1>6

LEMMA FactorialNat == \A n \in Nat : Factorial[n] \in Nat
<1> DEFINE Bad == {k \in Nat : Factorial[k] \notin Nat}
<1>1. SUFFICES ASSUME Bad # {} PROVE FALSE
  OBVIOUS
<1>2. PICK k \in Bad : \A j \in Bad : k <= j
  <2>1. Bad \subseteq Nat
    OBVIOUS
  <2> HIDE DEF Bad
  <2> QED
    BY <1>1, <2>1, LeastNatural
<1>3. k # 0
  BY FactorialEquation
<1>4. k \in Nat /\ k - 1 \in Nat /\ (k - 1) + 1 = k
  BY <1>3
<1>5. Factorial[k - 1] \in Nat
  BY <1>2, <1>4
<1>6. Factorial[k] = k * Factorial[k - 1]
  BY <1>4, FactorialEquation
<1>7. \A a, b \in Nat : a * b \in Nat
  OBVIOUS
<1> QED
  BY <1>4, <1>5, <1>6, <1>7

\* A permutation of n + 1 is its last place and the permutation of n that the
\* others make.
LEMMA PermutationStep ==
    ASSUME NEW n \in Nat, IsFiniteSet(Permutation(n))
    PROVE  /\ IsFiniteSet(Permutation(n + 1))
           /\ Cardinality(Permutation(n + 1)) <= (n + 1) * Cardinality(Permutation(n))
<1> DEFINE low(p) == [i \in 1..n |-> IF p[i] > p[n + 1] THEN p[i] - 1 ELSE p[i]]
           f == [p \in Permutation(n + 1) |-> <<p[n + 1], low(p)>>]
<1>1. \A i \in 1..n : i \in 1..(n + 1) /\ i # n + 1
  OBVIOUS
<1>2. n + 1 \in 1..(n + 1)
  OBVIOUS
<1>3. \A p \in Permutation(n + 1) :
         /\ p \in [1..(n + 1) -> 1..(n + 1)]
         /\ \A i, j \in 1..(n + 1) : i # j => p[i] # p[j]
  BY DEF Permutation
<1>4. ASSUME NEW p \in Permutation(n + 1) PROVE low(p) \in Permutation(n)
  <2>1. ASSUME NEW i \in 1..n PROVE low(p)[i] \in 1..n
    <3>1. p[i] \in 1..(n + 1) /\ p[n + 1] \in 1..(n + 1) /\ p[i] # p[n + 1]
      BY <1>1, <1>2, <1>3
    <3>2. \A a, b \in 1..(n + 1) : a # b => (IF a > b THEN a - 1 ELSE a) \in 1..n
      OBVIOUS
    <3> QED
      BY <3>1, <3>2
  <2>2. ASSUME NEW i \in 1..n, NEW j \in 1..n, i # j PROVE low(p)[i] # low(p)[j]
    <3>1. /\ p[i] \in 1..(n + 1) /\ p[j] \in 1..(n + 1) /\ p[n + 1] \in 1..(n + 1)
          /\ p[i] # p[j] /\ p[i] # p[n + 1] /\ p[j] # p[n + 1]
      BY <1>1, <1>2, <1>3, <2>2
    <3>2. \A a, b, c \in 1..(n + 1) : a # b /\ a # c /\ b # c =>
             (IF a > c THEN a - 1 ELSE a) # (IF b > c THEN b - 1 ELSE b)
      OBVIOUS
    <3> QED
      BY <3>1, <3>2
  <2>3. low(p) \in [1..n -> 1..n]
    BY <2>1
  <2> HIDE DEF low
  <2> QED
    BY <2>2, <2>3 DEF Permutation
<1>5. ASSUME NEW p \in Permutation(n + 1), NEW q \in Permutation(n + 1), f[p] = f[q]
      PROVE  p = q
  <2>1. p[n + 1] = q[n + 1] /\ low(p) = low(q)
    <3> HIDE DEF low
    <3> QED
      BY <1>5
  <2>2. ASSUME NEW i \in 1..n PROVE p[i] = q[i]
    <3>1. /\ p[i] \in 1..(n + 1) /\ q[i] \in 1..(n + 1) /\ p[n + 1] \in 1..(n + 1)
          /\ p[i] # p[n + 1] /\ q[i] # q[n + 1]
      BY <1>1, <1>2, <1>3
    <3>2. low(p)[i] = low(q)[i]
      BY <2>1
    <3>3. (IF p[i] > p[n + 1] THEN p[i] - 1 ELSE p[i])
            = (IF q[i] > q[n + 1] THEN q[i] - 1 ELSE q[i])
      BY <3>2
    <3>4. \A a, b, c \in 1..(n + 1) :
             a # c /\ b # c /\ (IF a > c THEN a - 1 ELSE a) = (IF b > c THEN b - 1 ELSE b)
               => a = b
      OBVIOUS
    <3> HIDE DEF low, f
    <3> QED
      BY <2>1, <3>1, <3>3, <3>4
  <2>3. \A i \in 1..(n + 1) : i \in 1..n \/ i = n + 1
    OBVIOUS
  <2>4. \A i \in 1..(n + 1) : p[i] = q[i]
    BY <2>1, <2>2, <2>3
  <2> QED
    BY <1>3, <2>4
<1>6. f \in Injection(Permutation(n + 1), (1..(n + 1)) \X Permutation(n))
  <2>1. \A p \in Permutation(n + 1) : p[n + 1] \in 1..(n + 1)
    BY <1>2, <1>3
  <2> HIDE DEF low
  <2>2. f \in [Permutation(n + 1) -> (1..(n + 1)) \X Permutation(n)]
    BY <1>4, <2>1
  <2> HIDE DEF f
  <2> QED
    BY <1>5, <2>2 DEF Injection, IsInjective
<1>7. /\ IsFiniteSet((1..(n + 1)) \X Permutation(n))
      /\ Cardinality((1..(n + 1)) \X Permutation(n)) = (n + 1) * Cardinality(Permutation(n))
  <2>1. IsFiniteSet(1..(n + 1)) /\ Cardinality(1..(n + 1)) = n + 1
    BY FS_Interval
  <2> QED
    BY <2>1, FS_Product
<1> HIDE DEF f
<1> QED
  BY <1>6, <1>7, FS_Injection

LEMMA PermutationsCounted ==
    ASSUME NEW n \in Nat
    PROVE  /\ IsFiniteSet(Permutation(n)) /\ Cardinality(Permutation(n)) \in Nat
           /\ Cardinality(Permutation(n)) <= Factorial[n]
<1> DEFINE Bad == {k \in Nat : ~(/\ IsFiniteSet(Permutation(k))
                                 /\ Cardinality(Permutation(k)) <= Factorial[k])}
<1>1. ASSUME Bad # {} PROVE FALSE
  <2>1. PICK k \in Bad : \A j \in Bad : k <= j
    <3>1. Bad \subseteq Nat
      OBVIOUS
    <3> HIDE DEF Bad
    <3> QED
      BY <1>1, <3>1, LeastNatural
  <2>2. CASE k = 0
    <3>1. \A p \in Permutation(0) : p = [i \in 1..0 |-> 1]
      BY DEF Permutation
    <3>2. Permutation(0) \subseteq {[i \in 1..0 |-> 1]}
      BY <3>1
    <3>3. /\ IsFiniteSet({[i \in 1..0 |-> 1]}) /\ Cardinality({[i \in 1..0 |-> 1]}) = 1
      BY FS_Singleton
    <3>4. IsFiniteSet(Permutation(0)) /\ Cardinality(Permutation(0)) <= 1
      BY <3>2, <3>3, FS_Subset
    <3> QED
      BY <2>2, <3>4, FactorialEquation
  <2>3. CASE k # 0
    <3>1. k - 1 \in Nat /\ (k - 1) + 1 = k /\ k - 1 \notin Bad
      BY <2>1, <2>3
    <3>2. IsFiniteSet(Permutation(k - 1)) /\ Cardinality(Permutation(k - 1)) <= Factorial[k - 1]
      BY <3>1
    <3>3. /\ IsFiniteSet(Permutation(k))
          /\ Cardinality(Permutation(k)) <= k * Cardinality(Permutation(k - 1))
      <4>1. /\ IsFiniteSet(Permutation((k - 1) + 1))
            /\ Cardinality(Permutation((k - 1) + 1)) <= ((k - 1) + 1) * Cardinality(Permutation(k - 1))
        BY <3>1, <3>2, PermutationStep
      <4> QED
        BY <3>1, <4>1
    <3>4. /\ Cardinality(Permutation(k)) \in Nat /\ Cardinality(Permutation(k - 1)) \in Nat
          /\ Factorial[k - 1] \in Nat
      BY <3>1, <3>2, <3>3, FS_CardinalityType, FactorialNat
    <3>5. Factorial[k] = k * Factorial[k - 1]
      <4>1. Factorial[(k - 1) + 1] = ((k - 1) + 1) * Factorial[k - 1]
        BY <3>1, FactorialEquation
      <4> QED
        BY <3>1, <4>1
    <3>6. k * Cardinality(Permutation(k - 1)) <= k * Factorial[k - 1]
      <4>1. \A a, b, c \in Nat : a <= b => c * a <= c * b
        OBVIOUS
      <4> QED
        BY <3>2, <3>4, <4>1
    <3>7. Cardinality(Permutation(k)) <= Factorial[k]
      <4>1. k * Cardinality(Permutation(k - 1)) \in Int /\ k * Factorial[k - 1] \in Int
        BY <3>4
      <4> QED
        BY <3>3, <3>4, <3>5, <3>6, <4>1
    <3> QED
      BY <3>3, <3>7
  <2> QED
    BY <2>2, <2>3
<1>2. IsFiniteSet(Permutation(n)) /\ Cardinality(Permutation(n)) <= Factorial[n]
  BY <1>1
<1> QED
  BY <1>2, FS_CardinalityType
-----------------------------------------------------------------------------
(***************************************************************************)
(* The tree that dfs walks.  A prefix of an ordering of the events s is    *)
(* the first k of a permutation; what remains is the rest of it.           *)
(***************************************************************************)
Prefix(s, p, k) == [j \in 1..k |-> s[p[j]]]

Remaining(s, p, k) == [j \in 1..(Len(s) - k) |-> s[p[k + j]]]

LEMMA SequenceOf ==
    ASSUME NEW m \in Nat, NEW f, f = [j \in 1..m |-> f[j]]
    PROVE  f \in Seq({f[j] : j \in 1..m}) /\ Len(f) = m
<1> DEFINE S == {f[j] : j \in 1..m}
<1>1. f \in [1..m -> S]
  <2>1. \A j \in 1..m : f[j] \in S
    OBVIOUS
  <2> HIDE DEF S
  <2> QED
    BY <2>1
<1>2. f \in Seq(S)
  BY <1>1, SeqDef
<1> HIDE DEF S
<1>3. Len(f) = m
  BY <1>1, <1>2
<1> QED
  BY <1>2, <1>3 DEF S

LEMMA PermutationOnto ==
    ASSUME NEW n \in Nat, NEW p \in Permutation(n)
    PROVE  /\ \A j \in 1..n : p[j] \in 1..n
           /\ \A i, j \in 1..n : i # j => p[i] # p[j]
           /\ \A x \in 1..n : \E j \in 1..n : p[j] = x
<1>1. p \in [1..n -> 1..n] /\ \A i, j \in 1..n : i # j => p[i] # p[j]
  BY DEF Permutation
<1>2. p \in Injection(1..n, 1..n)
  BY <1>1 DEF Injection, IsInjective
<1>3. p \in Surjection(1..n, 1..n)
  <2>1. IsFiniteSet(1..n)
    BY FS_Interval
  <2> HIDE DEF Permutation
  <2> QED
    BY <1>2, <2>1, FS_Injection
<1> QED
  BY <1>1, <1>3 DEF Surjection

LEMMA PrefixFacts ==
    ASSUME NEW s, Len(s) \in Nat, NEW p, NEW k \in 0..Len(s)
    PROVE  /\ Len(Prefix(s, p, k)) = k /\ Len(Remaining(s, p, k)) = Len(s) - k
           /\ DOMAIN Prefix(s, p, k) = 1..k
           /\ \E S : Prefix(s, p, k) \in Seq(S)
           /\ \E S : Remaining(s, p, k) \in Seq(S)
<1>1. k \in Nat /\ Len(s) - k \in Nat
  OBVIOUS
<1>2. Prefix(s, p, k) = [j \in 1..k |-> Prefix(s, p, k)[j]]
  BY DEF Prefix
<1>3. Remaining(s, p, k) = [j \in 1..(Len(s) - k) |-> Remaining(s, p, k)[j]]
  BY DEF Remaining
<1>4. \E S : Prefix(s, p, k) \in Seq(S)
  BY <1>1, <1>2, SequenceOf
<1>5. \E S : Remaining(s, p, k) \in Seq(S)
  BY <1>1, <1>3, SequenceOf
<1>6. Len(Prefix(s, p, k)) = k /\ Len(Remaining(s, p, k)) = Len(s) - k
  BY <1>1, <1>2, <1>3, SequenceOf
<1>7. DOMAIN Prefix(s, p, k) = 1..k
  BY DEF Prefix
<1> QED
  BY <1>4, <1>5, <1>6, <1>7

LEMMA PrefixGrows ==
    ASSUME NEW s, Len(s) \in Nat, NEW q, NEW k \in 0..(Len(s) - 1)
    PROVE  Prefix(s, q, k + 1) = Append(Prefix(s, q, k), s[q[k + 1]])
<1> DEFINE v == Prefix(s, q, k)
           e == s[q[k + 1]]
           w == Append(v, e)
<1>1. k \in Nat /\ k \in 0..Len(s)
  OBVIOUS
<1>2. Len(v) = k /\ \E S : v \in Seq(S)
  BY <1>1, PrefixFacts
<1>3. /\ \A j \in 1..k : v[j] = s[q[j]]
  BY DEF Prefix
<1> HIDE DEF v, e
<1>4. PICK S : v \in Seq(S)
  BY <1>2
<1> DEFINE T == S \cup {e}
<1>5. v \in Seq(T) /\ e \in T
  BY <1>4
<1> HIDE DEF T
<1>6. /\ w \in Seq(T) /\ Len(w) = k + 1
      /\ \A j \in 1..k : w[j] = v[j]
      /\ w[k + 1] = e
  BY <1>2, <1>5, AppendProperties
<1> HIDE DEF w
<1>7. w = [j \in 1..(k + 1) |-> w[j]]
  BY <1>6
<1>8. \A j \in 1..(k + 1) : w[j] = s[q[j]]
  <2>1. \A j \in 1..(k + 1) : j \in 1..k \/ j = k + 1
    BY <1>1
  <2> QED
    BY <1>3, <1>6, <2>1 DEF e
<1>9. Prefix(s, q, k + 1) = w
  BY <1>7, <1>8 DEF Prefix
<1> QED
  BY <1>9 DEF w, v, e

\* The next event of a prefix may be any of the remaining ones: the permutation
\* that has it next.
LEMMA NextEvent ==
    ASSUME NEW s, Len(s) \in Nat, NEW p \in Permutation(Len(s)),
           NEW k \in 0..(Len(s) - 1), NEW i \in 1..(Len(s) - k)
    PROVE  \E q \in Permutation(Len(s)) :
             /\ Prefix(s, q, k) = Prefix(s, p, k)
             /\ Prefix(s, q, k + 1) = Append(Prefix(s, p, k), Remaining(s, p, k)[i])
             /\ Remaining(s, q, k + 1) = Without(Remaining(s, p, k), i)
<1> DEFINE n == Len(s)
           m(j) == IF j <= k THEN j ELSE IF j = k + 1 THEN k + i
                   ELSE IF j <= k + i THEN j - 1 ELSE j
           q == [j \in 1..n |-> p[m(j)]]
<1>1. /\ n \in Nat /\ k \in Nat /\ i \in Nat /\ i >= 1 /\ k + i <= n /\ k + 1 <= n
  OBVIOUS
<1> HIDE DEF n
<1>2. \A j \in 1..n : m(j) \in 1..n
  BY <1>1
<1>3. \A j, h \in 1..n : j # h => m(j) # m(h)
  BY <1>1
<1>4. /\ \A j \in 1..n : p[j] \in 1..n
      /\ \A j, h \in 1..n : j # h => p[j] # p[h]
  BY PermutationOnto DEF n
<1>5. q \in Permutation(n)
  <2> HIDE DEF m
  <2> QED
    BY <1>2, <1>3, <1>4 DEF Permutation
<1>6. Prefix(s, q, k) = Prefix(s, p, k)
  <2>1. \A j \in 1..k : j \in 1..n /\ q[j] = p[j]
    BY <1>1
  <2> HIDE DEF q
  <2> QED
    BY <2>1 DEF Prefix
<1>7. Prefix(s, q, k + 1) = Append(Prefix(s, p, k), Remaining(s, p, k)[i])
  <2>1. q[k + 1] = p[k + i]
    BY <1>1
  <2>2. Remaining(s, p, k)[i] = s[p[k + i]]
    BY DEF Remaining
  <2> HIDE DEF q
  <2>3. Prefix(s, q, k + 1) = Append(Prefix(s, q, k), s[q[k + 1]])
    BY PrefixGrows
  <2> QED
    BY <1>6, <2>1, <2>2, <2>3
<1>8. Remaining(s, q, k + 1) = Without(Remaining(s, p, k), i)
  <2> DEFINE r == Remaining(s, p, k)
  <2>1. Len(r) = n - k
    BY <1>1, PrefixFacts DEF n
  <2>2. \A j \in 1..(n - (k + 1)) :
           s[q[(k + 1) + j]] = IF j < i THEN s[p[k + j]] ELSE s[p[k + (j + 1)]]
    <3> SUFFICES ASSUME NEW j \in 1..(n - (k + 1))
                 PROVE  s[q[(k + 1) + j]] = IF j < i THEN s[p[k + j]] ELSE s[p[k + (j + 1)]]
      OBVIOUS
    <3>1. (k + 1) + j \in 1..n /\ j \in Nat
      BY <1>1
    <3>2. m((k + 1) + j) = IF j < i THEN k + j ELSE k + (j + 1)
      BY <1>1, <3>1
    <3> HIDE DEF m
    <3> QED
      BY <3>1, <3>2
  <2>3. \A j \in 1..(n - (k + 1)) : /\ r[j] = s[p[k + j]]
                                    /\ r[j + 1] = s[p[k + (j + 1)]]
    BY <1>1 DEF Remaining, n
  <2>4. Without(r, i) = [j \in 1..(n - (k + 1)) |-> IF j < i THEN r[j] ELSE r[j + 1]]
    <3>1. Len(r) - 1 = n - (k + 1)
      BY <1>1, <2>1
    <3> HIDE DEF r
    <3> QED
      BY <3>1 DEF Without
  <2> HIDE DEF q, r
  <2>5. Remaining(s, q, k + 1) = Without(r, i)
    BY <2>2, <2>3, <2>4 DEF Remaining, n
  <2> QED
    BY <2>5 DEF r
<1> HIDE DEF q
<1> QED
  BY <1>5, <1>6, <1>7, <1>8 DEF n

\* Of two permutations that begin alike, each has the next event of the other
\* among its remaining ones, also if some events are equal.
LEMMA SameChoices ==
    ASSUME NEW s, Len(s) \in Nat, NEW p \in Permutation(Len(s)), NEW q \in Permutation(Len(s)),
           NEW k \in 0..(Len(s) - 1), Prefix(s, p, k) = Prefix(s, q, k)
    PROVE  \E i \in 1..(Len(s) - k) : Remaining(s, p, k)[i] = s[q[k + 1]]
<1> DEFINE n == Len(s)
           e == s[q[k + 1]]
           X == {x \in 1..n : s[x] = e}
           J == {j \in 1..k : s[p[j]] = e}
<1>1. n \in Nat /\ k \in Nat /\ k + 1 <= n /\ k + 1 \in 1..n
  OBVIOUS
<1>2. SUFFICES ASSUME \A i \in 1..(n - k) : s[p[k + i]] # e
               PROVE  FALSE
  BY DEF Remaining
<1>3. J = {j \in 1..k : s[q[j]] = e}
  <2>1. \A j \in 1..k : s[p[j]] = s[q[j]]
    <3>1. \A j \in 1..k : Prefix(s, p, k)[j] = s[p[j]] /\ Prefix(s, q, k)[j] = s[q[j]]
      BY DEF Prefix
    <3> QED
      BY <3>1
  <2> HIDE DEF e
  <2> QED
    BY <2>1
<1>4. /\ \A j \in 1..n : p[j] \in 1..n /\ q[j] \in 1..n
      /\ \A i, j \in 1..n : i # j => q[i] # q[j]
      /\ \A x \in 1..n : \E j \in 1..n : p[j] = x
  BY PermutationOnto
<1>5. \A j \in 1..k : j \in 1..n
  BY <1>1
<1> HIDE DEF n, e
<1>6. IsFiniteSet(J) /\ Cardinality(J) \in Nat /\ k + 1 \notin J
  <2>1. IsFiniteSet(1..k)
    BY <1>1, FS_Interval
  <2>2. IsFiniteSet(J) /\ Cardinality(J) \in Nat
    BY <2>1, FS_Subset, FS_CardinalityType
  <2> QED
    BY <1>1, <2>2
<1>7. IsFiniteSet(X) /\ Cardinality(X) <= Cardinality(J)
  <2> DEFINE f == [j \in J |-> p[j]]
  <2>1. f \in Surjection(J, X)
    <3>1. \A j \in J : p[j] \in X
      BY <1>4, <1>5
    <3>2. ASSUME NEW x \in X PROVE \E j \in J : p[j] = x
      <4>1. PICK j \in 1..n : p[j] = x
        BY <1>4
      <4>2. j \in 1..k
        <5>1. ASSUME j > k PROVE FALSE
          <6>1. j - k \in 1..(n - k) /\ k + (j - k) = j
            BY <1>1, <5>1
          <6> QED
            BY <1>2, <4>1, <6>1
        <5> QED
          BY <1>1, <5>1
      <4> QED
        BY <4>1, <4>2
    <3> HIDE DEF J, X
    <3> QED
      BY <3>1, <3>2 DEF Surjection
  <2> HIDE DEF J, X, f
  <2> QED
    BY <1>6, <2>1, FS_Surjection
<1>8. Cardinality(J \cup {k + 1}) <= Cardinality(X)
  <2> DEFINE K == J \cup {k + 1}
             g == [j \in K |-> q[j]]
  <2>1. \A j \in K : j \in 1..n /\ q[j] \in X
    <3>1. q[k + 1] \in X
      BY <1>1, <1>4 DEF e
    <3>2. \A j \in J : j \in 1..n /\ q[j] \in X
      BY <1>3, <1>4, <1>5
    <3> QED
      BY <1>1, <3>1, <3>2
  <2>2. g \in Injection(K, X)
    <3> HIDE DEF K, X
    <3> QED
      BY <1>4, <2>1 DEF Injection, IsInjective
  <2> HIDE DEF J, X, g
  <2> QED
    BY <1>7, <2>2, FS_Injection
<1>9. Cardinality(J \cup {k + 1}) = Cardinality(J) + 1
  <2> HIDE DEF J
  <2> QED
    BY <1>6, FS_AddElement
<1>10. Cardinality(X) \in Nat
  BY <1>7, FS_CardinalityType
<1> HIDE DEF J, X
<1> QED
  BY <1>6, <1>7, <1>8, <1>9, <1>10
-----------------------------------------------------------------------------
(***************************************************************************)
(* The stack of dfs, as a function.                                        *)
(***************************************************************************)
IsSequence(s) == Len(s) \in Nat /\ s = [j \in 1..Len(s) |-> s[j]]

LEMMA SequenceFacts ==
    ASSUME NEW S, NEW s \in Seq(S)
    PROVE  IsSequence(s)
<1>1. Len(s) \in Nat /\ s \in [1..Len(s) -> S]
  BY LenProperties
<1> QED
  BY <1>1 DEF IsSequence

LEMMA StackEmpty ==
    ASSUME NEW s, IsSequence(s)
    PROVE  s = <<>> <=> Len(s) = 0
<1>1. s \in Seq({s[j] : j \in 1..Len(s)})
  BY SequenceOf DEF IsSequence
<1> QED
  BY <1>1, EmptySeq

LEMMA StackTail ==
    ASSUME NEW s, IsSequence(s), s # <<>>
    PROVE  /\ Len(s) \in Nat /\ Len(s) >= 1 /\ Head(s) = s[1]
           /\ IsSequence(Tail(s)) /\ Len(Tail(s)) = Len(s) - 1
           /\ \A j \in 1..(Len(s) - 1) : Tail(s)[j] = s[j + 1]
<1> DEFINE S == {s[j] : j \in 1..Len(s)}
<1>1. s \in Seq(S)
  BY SequenceOf DEF IsSequence
<1> HIDE DEF S
<1>2. /\ Tail(s) \in Seq(S) /\ Len(Tail(s)) = Len(s) - 1
      /\ \A i \in 1..Len(Tail(s)) : Tail(s)[i] = s[i + 1]
  BY <1>1, HeadTailProperties
<1>3. IsSequence(Tail(s))
  BY <1>2, SequenceFacts
<1>4. Len(s) \in Nat /\ Len(s) # 0
  BY StackEmpty DEF IsSequence
<1>5. Head(s) = s[1]
  BY <1>1
<1> QED
  BY <1>2, <1>3, <1>4, <1>5

LEMMA StackPush ==
    ASSUME NEW t, IsSequence(t), NEW a
    PROVE  /\ IsSequence(<<a>> \o t) /\ Len(<<a>> \o t) = Len(t) + 1
           /\ (<<a>> \o t)[1] = a
           /\ \A j \in 2..(Len(t) + 1) : (<<a>> \o t)[j] = t[j - 1]
<1> DEFINE S == {t[j] : j \in 1..Len(t)} \cup {a}
<1>1. t \in Seq(S) /\ <<a>> \in Seq(S) /\ Len(<<a>>) = 1 /\ Len(t) \in Nat
  <2>1. t \in Seq({t[j] : j \in 1..Len(t)})
    BY SequenceOf DEF IsSequence
  <2>2. t \in Seq(S)
    BY <2>1, SeqMonotonic
  <2>3. a \in S
    OBVIOUS
  <2> HIDE DEF S
  <2> QED
    BY <2>2, <2>3 DEF IsSequence
<1> HIDE DEF S
<1>2. /\ <<a>> \o t \in Seq(S) /\ Len(<<a>> \o t) = 1 + Len(t)
      /\ \A i \in 1..(1 + Len(t)) : (<<a>> \o t)[i] = IF i <= 1 THEN <<a>>[i] ELSE t[i - 1]
  <2>1. /\ <<a>> \o t \in Seq(S) /\ Len(<<a>> \o t) = Len(<<a>>) + Len(t)
        /\ \A i \in 1..(Len(<<a>>) + Len(t)) :
             (<<a>> \o t)[i] = IF i <= Len(<<a>>) THEN <<a>>[i] ELSE t[i - Len(<<a>>)]
    BY <1>1, ConcatProperties
  <2> QED
    BY <1>1, <2>1
<1>3. IsSequence(<<a>> \o t)
  BY <1>2, SequenceFacts
<1>4. 1 \in 1..(1 + Len(t)) /\ \A j \in 2..(Len(t) + 1) : j \in 1..(1 + Len(t)) /\ ~(j <= 1)
  BY <1>1
<1> QED
  BY <1>1, <1>2, <1>3, <1>4
-----------------------------------------------------------------------------
(***************************************************************************)
(* The inductive invariant of dfs: a frame stands for a prefix of its      *)
(* depth, and the prefixes that its loop has passed are visited.  A        *)
(* prefix that is visited and no longer on the stack has all its           *)
(* successors visited and, when it is an ordering, is printed once.        *)
(***************************************************************************)
OnStack(v) == \E j \in 1..Len(frames) : frames[j].path = v

FrameOK(f, k) ==
    /\ k \in 0..Len(events) /\ f.i \in 1..(Len(events) - k + 1)
    /\ f = [path |-> f.path, rest |-> f.rest, i |-> f.i]
    /\ \E p \in Permutation(Len(events)) :
         f.path = Prefix(events, p, k) /\ f.rest = Remaining(events, p, k)

Passed(f) == /\ f.path \in visited \cup {<<>>}
             /\ \A i \in 1..(f.i - 1) : Append(f.path, f.rest[i]) \in visited

Stack == /\ IsSequence(frames)
         /\ \A j \in 1..Len(frames) : FrameOK(frames[j], Len(frames) - j) /\ Passed(frames[j])

Prefixes == \A v \in visited : \E p \in Permutation(Len(events)), k \in 1..Len(events) :
                                 v = Prefix(events, p, k)

LeftBehind ==
    \A p \in Permutation(Len(events)), k \in 0..(Len(events) - 1) :
      Prefix(events, p, k) \in visited \cup {<<>>} /\ ~OnStack(Prefix(events, p, k))
        => Prefix(events, p, k + 1) \in visited

Output == printed = [v \in {w \in visited \cup {<<>>} :
                              Len(w) = Len(events) /\ ~OnStack(w)} |-> 1]

DfsInv == IsSequence(events) /\ Stack /\ Prefixes /\ LeftBehind /\ Output

LEMMA EmptyPrefix ==
    ASSUME IsSequence(events), NEW p
    PROVE  Prefix(events, p, 0) = <<>>
<1>1. 0 \in 0..Len(events) /\ Len(events) \in Nat
  BY DEF IsSequence
<1>2. Len(Prefix(events, p, 0)) = 0 /\ \E S : Prefix(events, p, 0) \in Seq(S)
  BY <1>1, PrefixFacts
<1> QED
  BY <1>2, EmptySeq

LEMMA IdentityPermutation ==
    ASSUME NEW n \in Nat
    PROVE  [j \in 1..n |-> j] \in Permutation(n)
  BY DEF Permutation

LEMMA DfsStarts ==
    ASSUME IsSequence(events), frames = <<Frame(<<>>, events)>>, visited = {}, printed = EmptyBag
    PROVE  DfsInv
<1> DEFINE n == Len(events)
           p == [j \in 1..n |-> j]
           f == Frame(<<>>, events)
<1>1. n \in Nat /\ p \in Permutation(n)
  BY IdentityPermutation DEF IsSequence
<1>2. IsSequence(frames) /\ Len(frames) = 1 /\ frames[1] = f
  BY DEF IsSequence
<1>3. f.path = <<>> /\ f.rest = events /\ f.i = 1 /\ f = [path |-> f.path, rest |-> f.rest, i |-> f.i]
  BY DEF Frame
<1>4. Prefix(events, p, 0) = <<>>
  BY EmptyPrefix
<1>5. Remaining(events, p, 0) = events
  <2>1. \A j \in 1..n : p[0 + j] = j
    OBVIOUS
  <2>2. Remaining(events, p, 0) = [j \in 1..n |-> events[p[0 + j]]]
    BY <1>1 DEF Remaining
  <2> HIDE DEF p
  <2>3. Remaining(events, p, 0) = [j \in 1..n |-> events[j]]
    BY <2>1, <2>2
  <2> QED
    BY <2>3 DEF IsSequence
<1>6. FrameOK(f, 0)
  <2>1. 0 \in 0..n /\ f.i \in 1..(n - 0 + 1)
    BY <1>1, <1>3
  <2> HIDE DEF f, p
  <2> QED
    BY <1>1, <1>3, <1>4, <1>5, <2>1 DEF FrameOK
<1>7. Passed(f)
  BY <1>3 DEF Passed
<1> HIDE DEF f, p, n
<1>8. Stack
  <2>1. \A j \in 1..1 : j = 1 /\ 1 - j = 0
    OBVIOUS
  <2> QED
    BY <1>2, <1>6, <1>7, <2>1 DEF Stack
<1>9. OnStack(<<>>)
  BY <1>2, <1>3 DEF OnStack
<1>10. LeftBehind
  BY <1>9 DEF LeftBehind
<1>11. Output
  <2>1. {w \in visited \cup {<<>>} : Len(w) = Len(events) /\ ~OnStack(w)} = {}
    BY <1>9
  <2> QED
    BY <2>1 DEF Output, EmptyBag, SetToBag
<1>12. Prefixes
  BY DEF Prefixes
<1> QED
  BY <1>8, <1>10, <1>11, <1>12 DEF DfsInv

LEMMA FramePath ==
    ASSUME IsSequence(events), NEW f, NEW k, FrameOK(f, k)
    PROVE  /\ Len(f.path) = k /\ Len(f.rest) = Len(events) - k
           /\ k \in Nat /\ Len(events) \in Nat /\ k <= Len(events)
           /\ \E S : f.rest \in Seq(S)
<1>1. k \in 0..Len(events) /\ Len(events) \in Nat
  BY DEF FrameOK, IsSequence
<1>2. PICK p \in Permutation(Len(events)) :
         f.path = Prefix(events, p, k) /\ f.rest = Remaining(events, p, k)
  BY DEF FrameOK
<1>3. /\ Len(f.path) = k /\ Len(f.rest) = Len(events) - k
      /\ \E S : f.rest \in Seq(S)
  BY <1>1, <1>2, PrefixFacts
<1> QED
  BY <1>1, <1>3

\* Two frames stand for different prefixes.
LEMMA PathsDiffer ==
    ASSUME IsSequence(events), Stack, NEW i \in 1..Len(frames), NEW j \in 1..Len(frames),
           frames[i].path = frames[j].path
    PROVE  i = j
<1>1. Len(frames[i].path) = Len(frames) - i /\ Len(frames[j].path) = Len(frames) - j
  BY FramePath DEF Stack
<1>2. Len(frames) \in Nat
  BY DEF Stack, IsSequence
<1> QED
  BY <1>1, <1>2

LEMMA PopStack ==
    ASSUME IsSequence(events), Stack, frames # <<>>, frames' = Tail(frames),
           UNCHANGED <<events, visited>>
    PROVE  /\ Stack'
           /\ \A v : OnStack(v)' <=> OnStack(v) /\ v # Head(frames).path
           /\ OnStack(Head(frames).path)
           /\ FrameOK(Head(frames), Len(frames) - 1) /\ Passed(Head(frames))
<1> DEFINE m == Len(frames)
<1>1. /\ m \in Nat /\ m >= 1 /\ Head(frames) = frames[1]
      /\ IsSequence(frames') /\ Len(frames') = m - 1
      /\ \A j \in 1..(m - 1) : frames'[j] = frames[j + 1]
  BY StackTail DEF Stack
<1>2. /\ \A j \in 1..(m - 1) : j + 1 \in 1..m /\ j + 1 # 1 /\ m - (j + 1) = (m - 1) - j
      /\ 1 \in 1..m
      /\ \A j \in 1..m : j # 1 => j - 1 \in 1..(m - 1) /\ (j - 1) + 1 = j
  BY <1>1
<1>3. \A j \in 1..m : FrameOK(frames[j], m - j) /\ Passed(frames[j])
  BY DEF Stack
<1>4. \A j \in 1..m : frames[1].path = frames[j].path => j = 1
  BY <1>2, PathsDiffer
<1>5. \A f, k : FrameOK(f, k)' <=> FrameOK(f, k)
  BY DEF FrameOK
<1>6. \A f : Passed(f)' <=> Passed(f)
  BY DEF Passed
<1> HIDE DEF m
<1>7. ASSUME NEW j \in 1..(m - 1)
      PROVE  FrameOK(frames'[j], (m - 1) - j) /\ Passed(frames'[j])
  BY <1>1, <1>2, <1>3
<1>8. Stack'
  <2>1. \A j \in 1..Len(frames') : FrameOK(frames[j], Len(frames) - j)' /\ Passed(frames[j])'
    <3> SUFFICES ASSUME NEW j \in 1..Len(frames')
                 PROVE  FrameOK(frames[j], Len(frames) - j)' /\ Passed(frames[j])'
      OBVIOUS
    <3>1. FrameOK(frames'[j], Len(frames') - j) /\ Passed(frames'[j])
      BY <1>1, <1>7
    <3> QED
      BY <3>1 DEF FrameOK, Passed
  <2> QED
    BY <1>1, <2>1 DEF Stack
<1>9. \A v : OnStack(v)' <=> OnStack(v) /\ v # Head(frames).path
  <2> SUFFICES ASSUME NEW v
               PROVE  (\E j \in 1..(m - 1) : frames'[j].path = v)
                        <=> (\E j \in 1..m : frames[j].path = v) /\ v # frames[1].path
    BY <1>1 DEF OnStack, m
  <2>1. ASSUME NEW j \in 1..(m - 1), frames'[j].path = v
        PROVE  j + 1 \in 1..m /\ frames[j + 1].path = v /\ v # frames[1].path
    BY <1>1, <1>2, <1>4, <2>1
  <2>2. ASSUME NEW j \in 1..m, frames[j].path = v, v # frames[1].path
        PROVE  j - 1 \in 1..(m - 1) /\ frames'[j - 1].path = v
    <3>1. j # 1
      BY <2>2
    <3> QED
      BY <1>1, <1>2, <2>2, <3>1
  <2> QED
    BY <2>1, <2>2
<1> QED
  BY <1>1, <1>2, <1>3, <1>8, <1>9 DEF OnStack, m

\* A frame's loop has passed all successors of its prefix when it ends.
LEMMA AllPassed ==
    ASSUME IsSequence(events), NEW f, NEW k, FrameOK(f, k), Passed(f),
           f.i > Len(f.rest),
           NEW q \in Permutation(Len(events)), NEW h \in 0..(Len(events) - 1),
           Prefix(events, q, h) = f.path
    PROVE  Prefix(events, q, h + 1) \in visited
<1>1. /\ Len(events) \in Nat /\ k \in 0..Len(events) /\ h \in 0..Len(events)
      /\ h \in Nat /\ h + 1 \in 0..Len(events)
  BY DEF FrameOK, IsSequence
<1>2. h = k
  BY <1>1, PrefixFacts, FramePath
<1>3. PICK p \in Permutation(Len(events)) :
         f.path = Prefix(events, p, k) /\ f.rest = Remaining(events, p, k)
  BY DEF FrameOK
<1>4. PICK i \in 1..(Len(events) - k) : f.rest[i] = events[q[k + 1]]
  BY <1>2, <1>3, SameChoices
<1>5. i \in 1..(f.i - 1)
  <2>1. Len(f.rest) = Len(events) - k
    BY FramePath
  <2>2. f.i \in 1..(Len(events) - k + 1)
    BY DEF FrameOK
  <2> QED
    BY <1>1, <1>4, <2>1, <2>2
<1>6. Append(f.path, f.rest[i]) \in visited
  BY <1>5 DEF Passed
<1>7. Prefix(events, q, k + 1) = Append(Prefix(events, q, k), events[q[k + 1]])
  BY <1>1, <1>2, PrefixGrows
<1> QED
  BY <1>2, <1>3, <1>4, <1>6, <1>7

\* What is printed for the first time is in the bag once.
LEMMA PrintOnce ==
    ASSUME NEW D, NEW x, x \notin D
    PROVE  [v \in D |-> 1] (+) SetToBag({x}) = [v \in D \cup {x} |-> 1]
<1> DEFINE B == [v \in D |-> 1]
           C == SetToBag({x})
<1>1. DOMAIN B = D /\ \A v \in D : B[v] = 1
  OBVIOUS
<1>2. DOMAIN C = {x} /\ C[x] = 1
  BY DEF SetToBag
<1> HIDE DEF B, C
<1>3. B (+) C = [e \in D \cup {x} |-> (IF e \in D THEN B[e] ELSE 0) + (IF e \in {x} THEN C[e] ELSE 0)]
  BY <1>1, <1>2 DEF (+)
<1>4. \A e \in D \cup {x} :
         (IF e \in D THEN B[e] ELSE 0) + (IF e \in {x} THEN C[e] ELSE 0) = 1
  BY <1>1, <1>2
<1>5. B (+) C = [v \in D \cup {x} |-> 1]
  BY <1>3, <1>4
<1> QED
  BY <1>5 DEF B, C

LEMMA DfsPrintKeeps ==
    ASSUME DfsInv, DfsPrint
    PROVE  DfsInv'
<1> DEFINE f == Head(frames)
<1>1. /\ IsSequence(events) /\ Stack /\ frames # <<>> /\ f.rest = <<>>
      /\ frames' = Tail(frames) /\ UNCHANGED <<events, visited>>
      /\ printed' = printed (+) SetToBag({f.path})
  BY DEF DfsInv, DfsPrint
<1>2. /\ Stack' /\ OnStack(f.path)
      /\ \A v : OnStack(v)' <=> OnStack(v) /\ v # f.path
      /\ FrameOK(f, Len(frames) - 1) /\ Passed(f)
  BY <1>1, PopStack
<1>3. Len(f.path) = Len(events) /\ Len(events) \in Nat
  <2>1. /\ Len(f.path) = Len(frames) - 1 /\ Len(f.rest) = Len(events) - (Len(frames) - 1)
        /\ Len(frames) - 1 \in Nat /\ Len(events) \in Nat
    BY <1>1, <1>2, FramePath
  <2>2. Len(f.rest) = 0
    BY <1>1
  <2> QED
    BY <2>1, <2>2
<1>4. LeftBehind'
  <2> SUFFICES ASSUME NEW p \in Permutation(Len(events)), NEW k \in 0..(Len(events) - 1),
                      Prefix(events, p, k) \in visited \cup {<<>>},
                      ~OnStack(Prefix(events, p, k)) \/ Prefix(events, p, k) = f.path
               PROVE  Prefix(events, p, k + 1) \in visited
    BY <1>1, <1>2 DEF LeftBehind
  <2>1. Len(Prefix(events, p, k)) = k /\ k # Len(events)
    BY <1>3, PrefixFacts
  <2> QED
    BY <1>3, <2>1 DEF DfsInv, LeftBehind
<1>5. Output'
  <2> DEFINE D == {w \in visited \cup {<<>>} : Len(w) = Len(events) /\ ~OnStack(w)}
             E == {w \in visited \cup {<<>>} : Len(w) = Len(events) /\ (~OnStack(w) \/ w = f.path)}
  <2>1. printed = [v \in D |-> 1]
    BY DEF DfsInv, Output
  <2>2. f.path \notin D /\ E = D \cup {f.path}
    BY <1>2, <1>3 DEF Passed
  <2>3. {w \in visited' \cup {<<>>} : Len(w) = Len(events') /\ ~OnStack(w)'} = E
    BY <1>1, <1>2
  <2> HIDE DEF D, E
  <2>4. printed' = [v \in D \cup {f.path} |-> 1]
    <3> HIDE DEF f
    <3> QED
      BY <1>1, <2>1, <2>2, PrintOnce
  <2> HIDE DEF f
  <2> QED
    BY <2>2, <2>3, <2>4 DEF Output
<1>6. Prefixes' /\ IsSequence(events')
  BY <1>1 DEF DfsInv, Prefixes
<1> QED
  BY <1>2, <1>4, <1>5, <1>6 DEF DfsInv

LEMMA DfsReturnKeeps ==
    ASSUME DfsInv, DfsReturn
    PROVE  DfsInv'
<1> DEFINE f == Head(frames)
<1>1. /\ IsSequence(events) /\ Stack /\ frames # <<>> /\ f.rest # <<>> /\ f.i > Len(f.rest)
      /\ frames' = Tail(frames) /\ UNCHANGED <<events, visited>>
      /\ printed' = printed
  BY DEF DfsInv, DfsReturn
<1>2. /\ Stack' /\ OnStack(f.path)
      /\ \A v : OnStack(v)' <=> OnStack(v) /\ v # f.path
      /\ FrameOK(f, Len(frames) - 1) /\ Passed(f)
  BY <1>1, PopStack
<1>3. Len(f.path) # Len(events)
  <2>1. /\ Len(f.path) = Len(frames) - 1 /\ Len(f.rest) = Len(events) - (Len(frames) - 1)
        /\ Len(frames) - 1 \in Nat /\ Len(events) \in Nat
        /\ \E S : f.rest \in Seq(S)
    BY <1>1, <1>2, FramePath
  <2>2. Len(f.rest) # 0
    BY <1>1, <2>1, EmptySeq
  <2> QED
    BY <2>1, <2>2
<1>4. LeftBehind'
  <2> SUFFICES ASSUME NEW p \in Permutation(Len(events)), NEW k \in 0..(Len(events) - 1),
                      Prefix(events, p, k) \in visited \cup {<<>>},
                      ~OnStack(Prefix(events, p, k)) \/ Prefix(events, p, k) = f.path
               PROVE  Prefix(events, p, k + 1) \in visited
    BY <1>1, <1>2 DEF LeftBehind
  <2>1. CASE ~OnStack(Prefix(events, p, k))
    BY <2>1 DEF DfsInv, LeftBehind
  <2>2. CASE Prefix(events, p, k) = f.path
    <3> HIDE DEF f
    <3> QED
      BY <1>1, <1>2, <2>2, AllPassed
  <2> QED
    BY <2>1, <2>2
<1>5. Output'
  <2> DEFINE D == {w \in visited \cup {<<>>} : Len(w) = Len(events) /\ ~OnStack(w)}
  <2>1. printed = [v \in D |-> 1]
    BY DEF DfsInv, Output
  <2>2. {w \in visited' \cup {<<>>} : Len(w) = Len(events') /\ ~OnStack(w)'} = D
    <3> HIDE DEF f
    <3> QED
      BY <1>1, <1>2, <1>3
  <2> HIDE DEF D
  <2> QED
    BY <1>1, <2>1, <2>2 DEF Output
<1>6. Prefixes' /\ IsSequence(events')
  BY <1>1 DEF DfsInv, Prefixes
<1> QED
  BY <1>2, <1>4, <1>5, <1>6 DEF DfsInv

\* The loop of the innermost call goes on: the stack with its frame advanced.
LEMMA AdvanceStack ==
    ASSUME IsSequence(events), Stack, frames # <<>>, Head(frames).i <= Len(Head(frames).rest),
           NEW here, here = <<[Head(frames) EXCEPT !.i = @ + 1]>> \o Tail(frames)
    PROVE  /\ IsSequence(here) /\ Len(here) = Len(frames)
           /\ Len(frames) \in Nat /\ Len(frames) >= 1
           /\ \A j \in 1..Len(frames) :
                /\ here[j].path = frames[j].path /\ here[j].rest = frames[j].rest
                /\ FrameOK(here[j], Len(frames) - j)
                /\ here[j].i = IF j = 1 THEN frames[1].i + 1 ELSE frames[j].i
<1> DEFINE f == Head(frames)
           m == Len(frames)
           g == [f EXCEPT !.i = @ + 1]
<1>1. /\ m \in Nat /\ m >= 1 /\ f = frames[1]
      /\ IsSequence(Tail(frames)) /\ Len(Tail(frames)) = m - 1
      /\ \A j \in 1..(m - 1) : Tail(frames)[j] = frames[j + 1]
  BY StackTail DEF Stack
<1>2. /\ IsSequence(here) /\ Len(here) = Len(Tail(frames)) + 1 /\ here[1] = g
      /\ \A j \in 2..(Len(Tail(frames)) + 1) : here[j] = Tail(frames)[j - 1]
  <2> HIDE DEF g
  <2> QED
    BY <1>1, StackPush DEF g
<1>3. \A j \in 1..m : j = 1 \/ (j \in 2..m /\ j - 1 \in 1..(m - 1) /\ (j - 1) + 1 = j)
  BY <1>1
<1>4. \A j \in 1..m : j # 1 => here[j] = frames[j]
  BY <1>1, <1>2, <1>3
<1>5. FrameOK(f, m - 1) /\ 1 \in 1..m
  BY <1>1 DEF Stack
<1>6. /\ g.path = f.path /\ g.rest = f.rest /\ g.i = f.i + 1
      /\ g = [path |-> g.path, rest |-> g.rest, i |-> g.i]
  BY <1>5 DEF FrameOK
<1>7. FrameOK(g, m - 1)
  <2>1. Len(f.rest) = Len(events) - (m - 1) /\ Len(events) \in Nat /\ m - 1 \in Nat
    BY <1>5, FramePath
  <2>2. f.i \in 1..(Len(events) - (m - 1) + 1)
    BY <1>5 DEF FrameOK
  <2>3. f.i + 1 \in 1..(Len(events) - (m - 1) + 1)
    BY <2>1, <2>2
  <2> HIDE DEF f, g
  <2> QED
    BY <1>5, <1>6, <2>3 DEF FrameOK
<1>8. \A j \in 1..m : FrameOK(frames[j], m - j)
  BY DEF Stack
<1> HIDE DEF f, g
<1>9. ASSUME NEW j \in 1..m
      PROVE  /\ here[j].path = frames[j].path /\ here[j].rest = frames[j].rest
             /\ FrameOK(here[j], m - j)
             /\ here[j].i = IF j = 1 THEN frames[1].i + 1 ELSE frames[j].i
  <2>1. CASE j = 1
    BY <1>1, <1>2, <1>6, <1>7, <2>1
  <2>2. CASE j # 1
    BY <1>4, <1>8, <2>2
  <2> QED
    BY <2>1, <2>2
<1>10. Len(here) = m
  BY <1>1, <1>2
<1> QED
  BY <1>1, <1>2, <1>9, <1>10 DEF m

\* The stack after a step, from what each of its frames is.
LEMMA NewStack ==
    ASSUME NEW t, IsSequence(t), frames' = t, events' = events,
           \A j \in 1..Len(t) : FrameOK(t[j], Len(t) - j),
           \A j \in 1..Len(t) :
             /\ t[j].path \in visited' \cup {<<>>}
             /\ \A i \in 1..(t[j].i - 1) : Append(t[j].path, t[j].rest[i]) \in visited'
    PROVE  Stack'
<1>1. ASSUME NEW j \in 1..Len(frames')
      PROVE  FrameOK(frames[j], Len(frames) - j)' /\ Passed(frames[j])'
  <2>1. FrameOK(frames'[j], Len(frames') - j)
    BY <1>1
  <2>2. FrameOK(frames[j], Len(frames) - j)'
    BY <2>1 DEF FrameOK
  <2>3. Passed(frames[j])'
    BY <1>1 DEF Passed
  <2> QED
    BY <2>2, <2>3
<1>2. IsSequence(frames)'
  BY DEF IsSequence
<1> QED
  BY <1>1, <1>2 DEF Stack

LEMMA DfsStepKeeps ==
    ASSUME DfsInv, DfsStep
    PROVE  DfsInv'
<1> DEFINE f == Head(frames)
           m == Len(frames)
           n == Len(events)
           path == Append(f.path, f.rest[f.i])
           here == <<[f EXCEPT !.i = @ + 1]>> \o Tail(frames)
           g == Frame(path, Without(f.rest, f.i))
<1>1. /\ IsSequence(events) /\ Stack /\ frames # <<>> /\ f.i <= Len(f.rest)
      /\ frames' = IF path \in visited THEN here ELSE <<g>> \o here
      /\ visited' = visited \cup {path}
      /\ events' = events /\ printed' = printed
  BY DEF DfsInv, DfsStep
<1>2. /\ IsSequence(here) /\ Len(here) = m /\ m \in Nat /\ m >= 1
      /\ \A j \in 1..m :
           /\ here[j].path = frames[j].path /\ here[j].rest = frames[j].rest
           /\ FrameOK(here[j], m - j)
           /\ here[j].i = IF j = 1 THEN frames[1].i + 1 ELSE frames[j].i
  BY <1>1, AdvanceStack
<1>3. /\ f = frames[1] /\ 1 \in 1..m /\ FrameOK(f, m - 1)
      /\ \A j \in 1..m : Passed(frames[j])
  <2>1. f = frames[1] /\ 1 \in 1..m
    BY <1>1, <1>2, StackTail DEF Stack
  <2> HIDE DEF f
  <2> QED
    BY <1>1, <2>1 DEF Stack
<1> HIDE DEF here
<1>4. /\ n \in Nat /\ m - 1 \in 0..(n - 1) /\ f.i \in 1..(n - (m - 1))
  <2>1. Len(f.rest) = n - (m - 1) /\ n \in Nat /\ m - 1 \in Nat /\ m - 1 <= n
    BY <1>1, <1>3, FramePath
  <2>2. f.i \in 1..(n - (m - 1) + 1)
    BY <1>3 DEF FrameOK
  <2> HIDE DEF f, n, m
  <2> QED
    BY <1>1, <2>1, <2>2
<1>5. PICK p \in Permutation(n) :
         f.path = Prefix(events, p, m - 1) /\ f.rest = Remaining(events, p, m - 1)
  <2> HIDE DEF f
  <2> QED
    BY <1>3 DEF FrameOK
<1>6. PICK q \in Permutation(n) :
         /\ path = Prefix(events, q, m) /\ Without(f.rest, f.i) = Remaining(events, q, m)
         /\ Prefix(events, q, m - 1) = f.path
  <2>1. (m - 1) + 1 = m
    BY <1>2
  <2>2. Len(events) \in Nat /\ m - 1 \in 0..(Len(events) - 1)
        /\ f.i \in 1..(Len(events) - (m - 1)) /\ p \in Permutation(Len(events))
    BY <1>4, <1>5
  <2> HIDE DEF f, m, n
  <2>3. \E q \in Permutation(Len(events)) :
             /\ Prefix(events, q, m - 1) = Prefix(events, p, m - 1)
             /\ Prefix(events, q, (m - 1) + 1)
                  = Append(Prefix(events, p, m - 1), Remaining(events, p, m - 1)[f.i])
             /\ Remaining(events, q, (m - 1) + 1) = Without(Remaining(events, p, m - 1), f.i)
    BY <2>2, NextEvent
  <2> QED
    BY <1>5, <2>1, <2>3 DEF n
<1>7. m \in 1..n /\ m \in 0..n
  BY <1>2, <1>4
<1>8. Len(path) = m
  BY <1>4, <1>6, <1>7, PrefixFacts
<1> HIDE DEF path
<1>9. FrameOK(g, m)
  <2>1. g.path = path /\ g.rest = Without(f.rest, f.i) /\ g.i = 1
        /\ g = [path |-> g.path, rest |-> g.rest, i |-> g.i]
    BY DEF Frame
  <2>2. 1 \in 1..(n - m + 1)
    BY <1>4, <1>7
  <2> HIDE DEF g
  <2> QED
    BY <1>6, <1>7, <2>1, <2>2 DEF FrameOK
<1>10. \A j \in 1..m : /\ here[j].path \in visited \cup {<<>>}
                       /\ \A i \in 1..(here[j].i - 1) :
                             Append(here[j].path, here[j].rest[i]) \in visited'
  <2> SUFFICES ASSUME NEW j \in 1..m
               PROVE  /\ here[j].path \in visited \cup {<<>>}
                      /\ \A i \in 1..(here[j].i - 1) :
                             Append(here[j].path, here[j].rest[i]) \in visited'
    OBVIOUS
  <2>1. /\ frames[j].path \in visited \cup {<<>>}
        /\ \A i \in 1..(frames[j].i - 1) : Append(frames[j].path, frames[j].rest[i]) \in visited
    BY <1>3 DEF Passed
  <2>2. CASE j # 1
    BY <1>1, <1>2, <2>1, <2>2
  <2>3. CASE j = 1
    <3>1. \A i \in 1..(here[j].i - 1) : i \in 1..(frames[j].i - 1) \/ i = f.i
      BY <1>2, <1>3, <1>4, <2>3
    <3>2. Append(frames[j].path, frames[j].rest[f.i]) = path
      BY <1>3, <2>3 DEF path
    <3>3. \A i \in 1..(here[j].i - 1) : Append(frames[j].path, frames[j].rest[i]) \in visited'
      BY <1>1, <2>1, <3>1, <3>2
    <3> QED
      BY <1>2, <2>1, <3>3
  <2> QED
    BY <2>2, <2>3
<1> DEFINE HereOn(v) == \E j \in 1..m : here[j].path = v
<1>11. \A v : OnStack(v) <=> HereOn(v)
  BY <1>2 DEF OnStack
<1>12. Prefixes'
  BY <1>1, <1>6, <1>7 DEF DfsInv, Prefixes
<1>13. CASE path \in visited
  <2>1. frames' = here /\ visited' = visited
    BY <1>1, <1>13
  <2>2. \A v : OnStack(v)' <=> OnStack(v)
    BY <1>2, <1>11, <2>1 DEF OnStack
  <2>3. Stack'
    <3>1. \A j \in 1..Len(here) : FrameOK(here[j], Len(here) - j)
      BY <1>2
    <3>2. \A j \in 1..Len(here) :
             /\ here[j].path \in visited' \cup {<<>>}
             /\ \A i \in 1..(here[j].i - 1) : Append(here[j].path, here[j].rest[i]) \in visited'
      BY <1>2, <1>10, <2>1
    <3> QED
      BY <1>1, <1>2, <2>1, <3>1, <3>2, NewStack
  <2>4. LeftBehind' /\ Output'
    BY <1>1, <2>1, <2>2 DEF DfsInv, LeftBehind, Output
  <2> QED
    BY <1>1, <1>12, <2>3, <2>4 DEF DfsInv
<1>14. CASE path \notin visited
  <2>1. frames' = <<g>> \o here
    BY <1>1, <1>14
  <2>2. /\ IsSequence(frames') /\ Len(frames') = m + 1 /\ frames'[1] = g
        /\ \A j \in 2..(m + 1) : frames'[j] = here[j - 1]
    <3> HIDE DEF g
    <3> QED
      BY <1>2, <2>1, StackPush
  <2>3. g.path = path
    BY DEF Frame
  <2>4. \A j \in 1..(m + 1) : j = 1 \/ (j \in 2..(m + 1) /\ j - 1 \in 1..m)
    BY <1>2
  <2>5. \A j \in 1..m : j + 1 \in 2..(m + 1) /\ (j + 1) - 1 = j
    BY <1>2
  <2> HIDE DEF m, n
  <2>6. \A v : OnStack(v)' <=> OnStack(v) \/ v = path
    <3> HIDE DEF g
    <3> SUFFICES ASSUME NEW v
                 PROVE  (\E j \in 1..(m + 1) : frames'[j].path = v) <=> HereOn(v) \/ v = path
      BY <1>11, <2>2 DEF OnStack
    <3>1. ASSUME NEW j \in 1..(m + 1), frames'[j].path = v PROVE HereOn(v) \/ v = path
      BY <2>2, <2>3, <2>4, <3>1
    <3>2. ASSUME NEW j \in 1..m, here[j].path = v PROVE j + 1 \in 1..(m + 1) /\ frames'[j + 1].path = v
      <4>1. j + 1 \in 1..(m + 1)
        BY <1>2
      <4> QED
        BY <2>2, <2>5, <3>2, <4>1
    <3>3. v = path => 1 \in 1..(m + 1) /\ frames'[1].path = v
      BY <1>2, <2>2, <2>3
    <3> QED
      BY <3>1, <3>2, <3>3
  <2>7. Stack'
    <3>1. g.path = path /\ g.i - 1 = 0
      BY DEF Frame
    <3> HIDE DEF g
    <3>2. ASSUME NEW j \in 1..(m + 1)
          PROVE  /\ FrameOK(frames'[j], (m + 1) - j)
                 /\ frames'[j].path \in visited' \cup {<<>>}
                 /\ \A i \in 1..(frames'[j].i - 1) :
                      Append(frames'[j].path, frames'[j].rest[i]) \in visited'
      <4>1. CASE j = 1
        <5>1. (m + 1) - j = m /\ frames'[j] = g
          BY <1>2, <2>2, <4>1
        <5>2. 1..(g.i - 1) = {}
          BY <3>1
        <5> QED
          BY <1>1, <1>9, <3>1, <5>1, <5>2
      <4>2. CASE j # 1
        <5>1. (m + 1) - j = m - (j - 1) /\ frames'[j] = here[j - 1] /\ j - 1 \in 1..m
          BY <1>2, <2>2, <2>4, <4>2
        <5>2. FrameOK(here[j - 1], m - (j - 1))
          BY <1>2, <5>1
        <5>3. /\ here[j - 1].path \in visited' \cup {<<>>}
              /\ \A i \in 1..(here[j - 1].i - 1) :
                      Append(here[j - 1].path, here[j - 1].rest[i]) \in visited'
          BY <1>1, <1>10, <5>1
        <5> QED
          BY <5>1, <5>2, <5>3
      <4> QED
        BY <4>1, <4>2
    <3> DEFINE t == frames'
    <3>3. IsSequence(t) /\ Len(t) = m + 1 /\ frames' = t
      BY <2>2
    <3>4. \A j \in 1..Len(t) : FrameOK(t[j], Len(t) - j)
      BY <3>2, <3>3
    <3>5. \A j \in 1..Len(t) :
             /\ t[j].path \in visited' \cup {<<>>}
             /\ \A i \in 1..(t[j].i - 1) : Append(t[j].path, t[j].rest[i]) \in visited'
      BY <3>2, <3>3
    <3> HIDE DEF t
    <3> QED
      BY <1>1, <3>3, <3>4, <3>5, NewStack
  <2>8. LeftBehind'
    <3> SUFFICES ASSUME NEW r \in Permutation(Len(events)), NEW k \in 0..(Len(events) - 1),
                        Prefix(events, r, k) \in visited \cup {path, <<>>},
                        ~OnStack(Prefix(events, r, k)), Prefix(events, r, k) # path
                 PROVE  Prefix(events, r, k + 1) \in visited \cup {path}
      BY <1>1, <2>6 DEF LeftBehind
    <3> QED
      BY DEF DfsInv, LeftBehind
  <2>9. Output'
    <3> DEFINE D == {w \in visited \cup {<<>>} : Len(w) = Len(events) /\ ~OnStack(w)}
    <3>1. printed = [v \in D |-> 1]
      BY DEF DfsInv, Output
    <3>2. path # <<>>
      <4>1. Len(<<>>) = 0 /\ m # 0
        BY <1>2
      <4> QED
        BY <1>8, <4>1
    <3>3. {w \in visited' \cup {<<>>} : Len(w) = Len(events') /\ ~OnStack(w)'} = D
      BY <1>1, <1>14, <2>6, <3>2
    <3> HIDE DEF D
    <3> QED
      BY <1>1, <3>1, <3>3 DEF Output
  <2> QED
    BY <1>1, <1>12, <2>7, <2>8, <2>9 DEF DfsInv
<1> QED
  BY <1>13, <1>14
-----------------------------------------------------------------------------
(***************************************************************************)
(* What both generators print.                                             *)
(***************************************************************************)
Orders == {Arranged(events, p) : p \in Permutation(Len(events))}

LEMMA DfsKeeps == DfsInv /\ [DfsNext]_orderingVars => DfsInv'
<1> SUFFICES ASSUME DfsInv, [DfsNext]_orderingVars PROVE DfsInv'
  OBVIOUS
<1>1. CASE DfsNext
  BY <1>1, DfsPrintKeeps, DfsStepKeeps, DfsReturnKeeps DEF DfsNext
<1>2. CASE UNCHANGED orderingVars
  <2>1. events' = events /\ frames' = frames /\ visited' = visited /\ printed' = printed
    BY <1>2 DEF orderingVars
  <2>2. (\A v : OnStack(v)' <=> OnStack(v)) /\ (\A f, k : FrameOK(f, k)' <=> FrameOK(f, k))
        /\ (\A f : Passed(f)' <=> Passed(f))
    BY <2>1 DEF OnStack, FrameOK, Passed
  <2>3. Stack'
    <3> DEFINE t == frames
    <3>1. IsSequence(t) /\ frames' = t
      BY <2>1 DEF DfsInv, Stack
    <3>2. \A j \in 1..Len(t) : FrameOK(t[j], Len(t) - j)
      BY DEF DfsInv, Stack
    <3>3. \A j \in 1..Len(t) :
             /\ t[j].path \in visited' \cup {<<>>}
             /\ \A i \in 1..(t[j].i - 1) : Append(t[j].path, t[j].rest[i]) \in visited'
      BY <2>1 DEF DfsInv, Stack, Passed
    <3> HIDE DEF t
    <3> QED
      BY <2>1, <3>1, <3>2, <3>3, NewStack
  <2>4. LeftBehind' /\ Prefixes'
    BY <2>1, <2>2 DEF DfsInv, LeftBehind, Prefixes
  <2>5. Output'
    BY <2>1, <2>2 DEF DfsInv, Output
  <2> QED
    BY <2>1, <2>3, <2>4, <2>5 DEF DfsInv
<1> QED
  BY <1>1, <1>2

LEMMA WholePrefix ==
    ASSUME IsSequence(events), NEW p
    PROVE  Prefix(events, p, Len(events)) = Arranged(events, p)
<1>1. DOMAIN events = 1..Len(events)
  BY DEF IsSequence
<1> QED
  BY <1>1 DEF Prefix, Arranged

LEMMA DfsEnds ==
    ASSUME DfsInv, frames = <<>>
    PROVE  BagToSet(printed) = Orders
<1> DEFINE n == Len(events)
           V == visited \cup {<<>>}
           D == {w \in V : Len(w) = n}
<1>1. IsSequence(events) /\ n \in Nat /\ ~\E v : OnStack(v)
  <2>1. Len(frames) = 0
    OBVIOUS
  <2> QED
    BY <2>1 DEF DfsInv, IsSequence, OnStack
<1>2. printed = [w \in D |-> 1]
  BY <1>1 DEF DfsInv, Output
<1>3. ASSUME NEW p \in Permutation(n)
      PROVE  Prefix(events, p, n) \in V
  <2> DEFINE Bad == {k \in Nat : k <= n /\ Prefix(events, p, k) \notin V}
  <2>1. ASSUME Bad # {} PROVE FALSE
    <3>1. PICK k \in Bad : \A j \in Bad : k <= j
      <4>1. Bad \subseteq Nat
        OBVIOUS
      <4> HIDE DEF Bad
      <4> QED
        BY <2>1, <4>1, LeastNatural
    <3>2. k # 0
      BY <1>1, EmptyPrefix
    <3>3. k - 1 \in Nat /\ k - 1 \in 0..(n - 1) /\ (k - 1) + 1 = k /\ k - 1 \notin Bad
      BY <1>1, <3>1, <3>2
    <3>4. Prefix(events, p, k - 1) \in V
      BY <1>1, <3>3
    <3>5. Prefix(events, p, (k - 1) + 1) \in visited
      BY <1>1, <3>3, <3>4 DEF DfsInv, LeftBehind
    <3> QED
      BY <3>1, <3>3, <3>5
  <2> QED
    BY <1>1, <2>1
<1>4. \A p \in Permutation(n) : Prefix(events, p, n) = Arranged(events, p)
                                  /\ Len(Prefix(events, p, n)) = n
  BY <1>1, WholePrefix, PrefixFacts
<1>5. Orders \subseteq D
  <2> HIDE DEF V
  <2> QED
    BY <1>3, <1>4 DEF Orders
<1>6. ASSUME NEW w \in D PROVE w \in Orders
  <2>1. CASE w \in visited
    <3>1. PICK p \in Permutation(n), k \in 1..n : w = Prefix(events, p, k)
      BY <2>1 DEF DfsInv, Prefixes
    <3>2. Len(w) = k
      BY <1>1, <3>1, PrefixFacts
    <3> QED
      BY <1>4, <3>1, <3>2 DEF Orders
  <2>2. CASE w = <<>>
    <3> DEFINE p == [j \in 1..n |-> j]
    <3>1. p \in Permutation(n) /\ n = 0
      BY <1>1, <2>2, IdentityPermutation
    <3> HIDE DEF p
    <3>2. Prefix(events, p, 0) = <<>>
      BY <1>1, EmptyPrefix
    <3> QED
      BY <1>4, <2>2, <3>1, <3>2 DEF Orders
  <2> QED
    BY <2>1, <2>2
<1>7. D = Orders
  <2> HIDE DEF D
  <2> QED
    BY <1>5, <1>6
<1> QED
  BY <1>2, <1>7 DEF BagToSet

LEMMA DfsPrintsOnce ==
    ASSUME DfsInv, NEW o \in BagToSet(printed)
    PROVE  printed[o] = 1
  BY DEF DfsInv, Output, BagToSet

\* The random generator prints what it has not seen.
RandomInv == /\ IsSequence(events) /\ frames = <<>>
             /\ visited \subseteq Orders /\ printed = [v \in visited |-> 1]

LEMMA RandomKeeps == RandomInv /\ [Shuffle]_orderingVars => RandomInv'
<1> SUFFICES ASSUME RandomInv, [Shuffle]_orderingVars PROVE RandomInv'
  OBVIOUS
<1>1. CASE Shuffle
  <2>1. PICK p \in Permutation(Len(events)) :
          /\ printed' = IF Arranged(events, p) \in visited THEN printed
                        ELSE printed (+) SetToBag({Arranged(events, p)})
          /\ visited' = visited \cup {Arranged(events, p)}
    BY <1>1 DEF Shuffle
  <2>2. events' = events /\ frames' = frames
    BY <1>1 DEF Shuffle
  <2> DEFINE x == Arranged(events, p)
  <2>3. x \in Orders
    BY DEF Orders
  <2>4. Orders' = Orders
    BY <2>2 DEF Orders
  <2>5. printed' = [v \in visited' |-> 1]
    <3> HIDE DEF x
    <3>1. CASE x \in visited
      <4>1. visited' = visited /\ printed' = printed
        BY <2>1, <3>1 DEF x
      <4> QED
        BY <4>1 DEF RandomInv
    <3>2. CASE x \notin visited
      <4>1. visited' = visited \cup {x} /\ printed' = printed (+) SetToBag({x})
        BY <2>1, <3>2 DEF x
      <4>2. printed = [v \in visited |-> 1]
        BY DEF RandomInv
      <4>3. printed' = [v \in visited \cup {x} |-> 1]
        BY <3>2, <4>1, <4>2, PrintOnce
      <4> QED
        BY <4>1, <4>3
    <3> QED
      BY <3>1, <3>2
  <2>6. visited' \subseteq Orders'
    BY <2>1, <2>3, <2>4 DEF RandomInv
  <2> QED
    BY <2>2, <2>5, <2>6 DEF RandomInv, IsSequence
<1>2. CASE UNCHANGED orderingVars
  <2>1. events' = events /\ frames' = frames /\ visited' = visited /\ printed' = printed
    BY <1>2 DEF orderingVars
  <2>2. Orders' = Orders
    BY <2>1 DEF Orders
  <2> QED
    BY <2>1, <2>2 DEF RandomInv, IsSequence
<1> QED
  BY <1>1, <1>2

\* It has seen as many as there are permutations only if all orderings differ,
\* and then it has seen them all.
LEMMA RandomEnds ==
    ASSUME RandomInv, RandomDone
    PROVE  BagToSet(printed) = Orders /\ Cardinality(Orders) = Factorial[Len(events)]
<1> DEFINE n == Len(events)
           f == [p \in Permutation(n) |-> Arranged(events, p)]
<1>1. n \in Nat /\ visited \subseteq Orders /\ printed = [v \in visited |-> 1]
      /\ Cardinality(visited) >= Factorial[n]
  BY DEF RandomInv, RandomDone, IsSequence
<1>2. /\ IsFiniteSet(Permutation(n)) /\ Cardinality(Permutation(n)) \in Nat
      /\ Cardinality(Permutation(n)) <= Factorial[n] /\ Factorial[n] \in Nat
  BY <1>1, PermutationsCounted, FactorialNat
<1>3. f \in Surjection(Permutation(n), Orders)
  BY DEF Surjection, Orders
<1> HIDE DEF f
<1>4. IsFiniteSet(Orders) /\ Cardinality(Orders) <= Cardinality(Permutation(n))
      /\ Cardinality(Orders) \in Nat
  BY <1>2, <1>3, FS_Surjection, FS_CardinalityType
<1>5. /\ IsFiniteSet(visited) /\ Cardinality(visited) <= Cardinality(Orders)
      /\ Cardinality(visited) \in Nat
      /\ Cardinality(Orders) = Cardinality(visited) => Orders = visited
  BY <1>1, <1>4, FS_Subset, FS_CardinalityType
<1> HIDE DEF n
<1>6. Cardinality(Orders) = Cardinality(visited) /\ Cardinality(Orders) = Factorial[n]
  BY <1>1, <1>2, <1>4, <1>5
<1> QED
  BY <1>1, <1>5, <1>6 DEF n, BagToSet
-----------------------------------------------------------------------------
(***************************************************************************)
(* Types: the objects', from the histories they agree with; the script's,  *)
(* the player's and the stack's.                                           *)
(***************************************************************************)
LEMMA AppType ==
    ASSUME AppInv, NEW r \in Replicas
    PROVE  CASE kind \in {"GCounter", "GState"} -> CountsType(obj[r])
             [] kind = "PNCounter" -> CountsType(obj[r].inc) /\ CountsType(obj[r].dec)
             [] kind = "GSet"      -> obj[r] \subseteq Item
             [] kind = "TwoPSet"   -> TwoPType(obj[r])
             [] kind = "ORSet"     -> obj[r].observed \cup obj[r].removed
                                        \subseteq Item \X (1..MaxUpdates)
<1> DEFINE S == seen[r]
<1>1. /\ kind \in Kinds /\ IsFiniteSet(S) /\ Agree(kind, obj[r], S, updates)
      /\ updates \in 0..MaxUpdates /\ updates \in Nat /\ MaxUpdates \in Nat
      /\ \A u \in S : /\ u.id \in 1..updates /\ u.op \in {"add", "remove"}
                      /\ u.x \in IF kind \in Counting THEN Key ELSE Item
  BY CrdtAssumption DEF AppInv, HistoryOK
<1>2. ASSUME kind \in Counting, NEW op, NEW base, NEW m, Counted(m, S, op, base, updates)
      PROVE  CountsType(m)
  <2>1. DOMAIN m = Xs(S, op)
    BY <1>2, CountedIsCounter
  <2>2. Xs(S, op) \subseteq Key
    BY <1>1, <1>2 DEF Xs
  <2>3. \A k \in Xs(S, op) : m[k] \in 0..updates
    BY <1>2 DEF Counted, CountsKey
  <2>4. \A i \in 0..updates : i \in 0..MaxUpdates
    BY <1>1
  <2> QED
    BY <2>1, <2>2, <2>3, <2>4 DEF CountsType
<1>3. Xs(S, "add") \subseteq {u.x : u \in S}
  BY DEF Xs
<1>4. CASE kind \in {"GCounter", "GState"}
  <2>1. \E base \in {0, 1} : Counted(obj[r], S, "add", base, updates)
    BY <1>1, <1>4 DEF Agree
  <2>2. CountsType(obj[r])
    BY <1>2, <1>4, <2>1 DEF Counting
  <2> QED
    BY <1>4, <2>2
<1>5. CASE kind = "PNCounter"
  <2>1. Counted(obj[r].inc, S, "add", 0, updates) /\ Counted(obj[r].dec, S, "remove", 0, updates)
    BY <1>1, <1>5 DEF Agree
  <2>2. CountsType(obj[r].inc) /\ CountsType(obj[r].dec)
    BY <1>2, <1>5, <2>1 DEF Counting
  <2> QED
    BY <1>5, <2>2
<1>6. CASE kind = "GSet"
  BY <1>1, <1>3, <1>6 DEF Agree, Counting
<1>7. CASE kind = "TwoPSet"
  BY <1>1, <1>7 DEF Agree, TwoPType
<1>8. CASE kind = "ORSet"
  <2>1. \A i \in 1..updates : i \in 1..MaxUpdates
    BY <1>1
  <2>2. Tags(S) \subseteq Item \X (1..MaxUpdates)
    BY <1>1, <1>8, <2>1 DEF Tags, Counting
  <2> QED
    BY <1>1, <1>8, <2>2 DEF Agree
<1> QED
  BY <1>1, <1>4, <1>5, <1>6, <1>7, <1>8 DEF Kinds

\* Main's sets are two-phase sets.
IsTwoP(s) == s = [adds |-> s.adds, removes |-> s.removes] /\ TwoPType(s)

ScriptInv ==
    /\ main = [state |-> main.state, i |-> main.i, lines |-> main.lines, sets |-> main.sets]
    /\ main.state \in {"off", "run"} /\ main.i \in 0..MaxFiles
    /\ main.sets = [j \in 1..2 |-> main.sets[j]]
    /\ IsTwoP(main.sets[1]) /\ IsTwoP(main.sets[2])
    /\ starts = [n |-> starts.n, first |-> starts.first, torn |-> starts.torn]
    /\ starts.n \in 0..MaxCommands

LEMMA NoMainType ==
    /\ NoMain = [state |-> "off", i |-> 0, lines |-> <<>>, sets |-> NoMain.sets]
    /\ NoMain.sets = [j \in 1..2 |-> NoTwoP]
    /\ IsTwoP(NoTwoP)
<1>1. NoMain.sets = <<NoTwoP, NoTwoP>>
  BY DEF NoMain
<1>2. <<NoTwoP, NoTwoP>> = [j \in 1..2 |-> NoTwoP]
  OBVIOUS
<1>3. IsTwoP(NoTwoP)
  BY DEF NoTwoP, IsTwoP, TwoPType
<1>4. NoMain = [state |-> "off", i |-> 0, lines |-> <<>>, sets |-> NoMain.sets]
  BY DEF NoMain
<1> QED
  BY <1>1, <1>2, <1>3, <1>4

LEMMA ActionsType ==
    ASSUME NEW sets, sets = [j \in 1..2 |-> sets[j]], IsTwoP(sets[1]), IsTwoP(sets[2]), NEW line
    PROVE  LET t == Do_Actions(sets, line)
           IN  t = [j \in 1..2 |-> t[j]] /\ IsTwoP(t[1]) /\ IsTwoP(t[2])
<1> DEFINE t == Do_Actions(sets, line)
<1>1. ASSUME NEW s, IsTwoP(s), NEW x
      PROVE  IsTwoP(TwoPAdd(s, x)) /\ IsTwoP(TwoPRemove(s, x))
  BY <1>1 DEF IsTwoP, TwoPType, TwoPAdd, TwoPRemove
<1>2. ASSUME NEW a, NEW b, IsTwoP(a), IsTwoP(b)
      PROVE  IsTwoP(TwoPMerge(a, b))
  BY <1>2 DEF IsTwoP, TwoPType, TwoPMerge
<1>3. \A id : SetOf(id) \in 1..2 /\ 3 - SetOf(id) \in 1..2
  BY DEF SetOf
<1>4. \A j \in 1..2 : IsTwoP(sets[j])
  <2>1. \A j \in 1..2 : j = 1 \/ j = 2
    OBVIOUS
  <2> QED
    BY <2>1
<1>5. ASSUME NEW k \in 1..2, NEW v, IsTwoP(v), t = [sets EXCEPT ![k] = v]
      PROVE  t = [j \in 1..2 |-> t[j]] /\ IsTwoP(t[1]) /\ IsTwoP(t[2])
  <2> HIDE DEF t
  <2>1. 1 \in 1..2 /\ 2 \in 1..2
    OBVIOUS
  <2>2. DOMAIN sets = 1..2
    OBVIOUS
  <2>3. t = [j \in 1..2 |-> IF j = k THEN v ELSE sets[j]]
    BY <1>5, <2>2
  <2> QED
    BY <1>4, <1>5, <2>1, <2>3
<1>6. CASE line[1] = "add"
  <2> DEFINE k == SetOf(line[3])
             v == TwoPAdd(sets[k], line[2])
  <2>1. t = [sets EXCEPT ![k] = v]
    BY <1>6 DEF Do_Actions
  <2>2. k \in 1..2
    BY <1>3
  <2> HIDE DEF t, k
  <2>3. IsTwoP(v)
    BY <1>1, <1>4, <2>2
  <2> HIDE DEF v
  <2> QED
    BY <1>5, <2>1, <2>2, <2>3 DEF t
<1>7. CASE line[1] = "remove"
  <2> DEFINE k == SetOf(line[3])
             v == TwoPRemove(sets[k], line[2])
  <2>1. t = [sets EXCEPT ![k] = v]
    BY <1>7 DEF Do_Actions
  <2>2. k \in 1..2
    BY <1>3
  <2> HIDE DEF t, k
  <2>3. IsTwoP(v)
    BY <1>1, <1>4, <2>2
  <2> HIDE DEF v
  <2> QED
    BY <1>5, <2>1, <2>2, <2>3 DEF t
<1>8. CASE line[1] \notin {"add", "remove"}
  <2> DEFINE k == SetOf(line[2])
             v == TwoPMerge(sets[k], sets[3 - k])
  <2>1. t = [sets EXCEPT ![k] = v]
    BY <1>8 DEF Do_Actions
  <2>2. k \in 1..2 /\ 3 - k \in 1..2
    BY <1>3
  <2> HIDE DEF t, k
  <2>3. IsTwoP(v)
    BY <1>2, <1>4, <2>2
  <2> HIDE DEF v
  <2> QED
    BY <1>5, <2>1, <2>2, <2>3 DEF t
<1> QED
  BY <1>6, <1>7, <1>8

LEMMA ScriptStarts == ReplayInit => ScriptInv
<1> SUFFICES ASSUME ReplayInit PROVE ScriptInv
  OBVIOUS
<1>1. main = NoMain /\ starts = [n |-> 0, first |-> 0, torn |-> FALSE]
  BY DEF ReplayInit
<1>2. 0 \in 0..MaxFiles /\ 0 \in 0..MaxCommands
  BY JavaReplayAssumption
<1>3. starts = [n |-> starts.n, first |-> starts.first, torn |-> starts.torn] /\ starts.n = 0
  BY <1>1
<1>4. main.state = "off" /\ main.i = 0 /\ main.sets = [j \in 1..2 |-> NoTwoP]
      /\ main = [state |-> main.state, i |-> main.i, lines |-> main.lines, sets |-> main.sets]
  BY <1>1, NoMainType
<1> QED
  BY <1>2, <1>3, <1>4, NoMainType DEF ScriptInv

LEMMA ScriptKeeps == ScriptInv /\ [ReplayNext]_replayVars => ScriptInv'
<1> SUFFICES ASSUME ScriptInv, [ReplayNext]_replayVars PROVE ScriptInv'
  OBVIOUS
<1> DEFINE Mains(m) ==
             /\ m = [state |-> m.state, i |-> m.i, lines |-> m.lines, sets |-> m.sets]
             /\ m.state \in {"off", "run"} /\ m.i \in 0..MaxFiles
             /\ m.sets = [j \in 1..2 |-> m.sets[j]]
             /\ IsTwoP(m.sets[1]) /\ IsTwoP(m.sets[2])
           Counts(s) ==
             /\ s = [n |-> s.n, first |-> s.first, torn |-> s.torn]
             /\ s.n \in 0..MaxCommands
<1>1. Mains(main) /\ Counts(starts)
  BY DEF ScriptInv
<1>2. SUFFICES Mains(main') /\ Counts(starts')
  BY DEF ScriptInv, IsTwoP, TwoPType
<1>3. MaxFiles \in Nat /\ MaxCommands \in Nat
  BY JavaReplayAssumption
<1>4. Mains(NoMain)
  <2>1. 0 \in 0..MaxFiles
    BY <1>3
  <2>2. NoMain.state = "off" /\ NoMain.i = 0 /\ NoMain.sets = [j \in 1..2 |-> NoTwoP]
        /\ IsTwoP(NoTwoP)
        /\ NoMain = [state |-> NoMain.state, i |-> NoMain.i, lines |-> NoMain.lines,
                     sets |-> NoMain.sets]
    <3>1. NoMain.state = "off" /\ NoMain.i = 0 /\ NoMain.lines = <<>>
      BY DEF NoMain
    <3> QED
      BY <3>1, NoMainType
  <2> QED
    BY <2>1, <2>2
<1>5. ASSUME NEW m, NEW s, NEW i, NEW lines, Mains(m), s \in {"off", "run"}, i \in 0..MaxFiles
      PROVE  Mains([state |-> s, i |-> i, lines |-> lines, sets |-> m.sets])
  <2> DEFINE g == [state |-> s, i |-> i, lines |-> lines, sets |-> m.sets]
  <2>1. /\ g = [state |-> g.state, i |-> g.i, lines |-> g.lines, sets |-> g.sets]
        /\ g.state = s /\ g.i = i /\ g.sets = m.sets
    OBVIOUS
  <2> HIDE DEF g
  <2> QED
    BY <1>5, <2>1 DEF g
<1>6. CASE Start
  <2>1. main' = [NoMain EXCEPT !.state = "run", !.lines = InitRun]
    BY <1>6 DEF Start
  <2>2. main' = [state |-> "run", i |-> 0, lines |-> InitRun, sets |-> NoMain.sets]
    <3> DEFINE N == NoMain
    <3>1. N = [state |-> N.state, i |-> N.i, lines |-> N.lines, sets |-> N.sets] /\ N.i = 0
      BY <1>4 DEF NoMain
    <3>2. main' = [N EXCEPT !.state = "run", !.lines = InitRun]
      BY <2>1
    <3> HIDE DEF N, Mains
    <3>3. main' = [state |-> "run", i |-> 0, lines |-> InitRun, sets |-> N.sets]
      BY <3>1, <3>2
    <3> QED
      BY <3>3 DEF N
  <2>3. 0 \in 0..MaxFiles
    BY <1>3
  <2>4. Mains(main')
    <3> HIDE DEF Mains
    <3> QED
      BY <1>4, <1>5, <2>2, <2>3
  <2>5. Counts(starts')
    <3>1. starts.n < MaxCommands /\ starts' = [starts EXCEPT !.n = @ + 1,
                                !.first = IF @ = 0 THEN Len(record) ELSE @]
      BY <1>6 DEF Start
    <3>2. /\ starts' = [n |-> starts'.n, first |-> starts'.first, torn |-> starts'.torn]
          /\ starts'.n = starts.n + 1
      BY <1>1, <3>1
    <3> QED
      BY <1>1, <1>3, <3>1, <3>2
  <2> QED
    BY <2>4, <2>5
<1>7. CASE Stop
  <2>1. main' = NoMain /\ starts' = starts
    BY <1>7 DEF Stop
  <2> HIDE DEF Mains, Counts
  <2> QED
    BY <1>1, <1>4, <2>1
<1>8. CASE Clean
  <2>1. /\ main' = main /\ starts.n < MaxCommands
        /\ starts' = [n |-> starts.n + 1, first |-> 0, torn |-> main.state = "run"]
    BY <1>8 DEF Clean
  <2>2. /\ starts' = [n |-> starts'.n, first |-> starts'.first, torn |-> starts'.torn]
        /\ starts'.n = starts.n + 1
    BY <2>1
  <2>3. Counts(starts')
    BY <1>1, <1>3, <2>1, <2>2
  <2> HIDE DEF Mains, Counts
  <2> QED
    BY <1>1, <2>1, <2>3
<1>9. CASE Line
  <2> DEFINE t == Do_Actions(main.sets, Head(main.lines))
  <2>1. main' = [main EXCEPT !.lines = Tail(@), !.sets = t] /\ starts' = starts
    BY <1>9 DEF Line
  <2>2. t = [j \in 1..2 |-> t[j]] /\ IsTwoP(t[1]) /\ IsTwoP(t[2])
    BY <1>1, ActionsType
  <2> HIDE DEF t
  <2>3. /\ main' = [state |-> main'.state, i |-> main'.i, lines |-> main'.lines, sets |-> main'.sets]
        /\ main'.state = main.state /\ main'.i = main.i /\ main'.sets = t
    BY <1>1, <2>1
  <2>4. Mains(main')
    BY <1>1, <2>2, <2>3
  <2> HIDE DEF Mains, Counts
  <2> QED
    BY <1>1, <2>1, <2>4
<1>10. CASE NextFile
  <2>1. starts' = starts
    BY <1>10 DEF NextFile
  <2>2. CASE main.i = MaxFiles
    <3>1. main' = NoMain
      BY <1>10, <2>2 DEF NextFile
    <3> HIDE DEF Mains, Counts
    <3> QED
      BY <1>1, <1>4, <2>1, <3>1
  <2>3. CASE main.i # MaxFiles
    <3> DEFINE next == IF main.i + 1 \in DOMAIN files THEN files[main.i + 1] ELSE <<>>
    <3>1. main' = [main EXCEPT !.i = @ + 1, !.lines = next]
      BY <1>10, <2>3 DEF NextFile
    <3> HIDE DEF next
    <3>2. main' = [state |-> main.state, i |-> main.i + 1, lines |-> next, sets |-> main.sets]
      BY <1>1, <3>1
    <3>3. main.i + 1 \in 0..MaxFiles /\ main.state \in {"off", "run"}
      BY <1>1, <1>3, <2>3
    <3> HIDE DEF Mains, Counts
    <3> QED
      BY <1>1, <1>5, <2>1, <3>2, <3>3
  <2> QED
    BY <2>2, <2>3
<1>11. CASE UNCHANGED replayVars
  <2>1. main' = main /\ starts' = starts
    BY <1>11 DEF replayVars
  <2> HIDE DEF Mains, Counts
  <2> QED
    BY <1>1, <2>1
<1> QED
  BY <1>6, <1>7, <1>8, <1>9, <1>10, <1>11 DEF ReplayNext

\* The player has opened one file for each answer.
OrbitInv ==
    /\ player = [next |-> player.next, lines |-> player.lines, instances |-> player.instances]
    /\ player.next \in 1..(Len(Ils) + 1)
    /\ IsSequence(answers) /\ Len(answers) = player.next - 1

LEMMA FilesCounted ==
    Len(Ils) \in Nat /\ DOMAIN Ils = 1..Len(Ils)
<1> DEFINE m == Cardinality(Cr(Events))
<1>1. IsFiniteSet(Permutation(Events))
  BY JavaReplayAssumption, PermutationsCounted
<1>2. m \in Nat
  <2>1. Cr(Events) \subseteq Permutation(Events)
    BY DEF Cr
  <2> QED
    BY <1>1, <2>1, FS_Subset, FS_CardinalityType
<1> HIDE DEF m
<1>3. DOMAIN Rows = 1..m
  BY DEF Rows, Sorted, m
<1>4. DOMAIN Ils = 1..m /\ Ils = [i \in 1..m |-> Ils[i]]
  BY <1>3 DEF Ils
<1>5. Len(Ils) = m
  BY <1>2, <1>4, SequenceOf
<1> QED
  BY <1>2, <1>4, <1>5

LEMMA OrbitStarts == OrbitInit => OrbitInv
<1> SUFFICES ASSUME OrbitInit PROVE OrbitInv
  OBVIOUS
<1>1. player = [next |-> 1, lines |-> <<>>, instances |-> NoDatabases] /\ answers = <<>>
  BY DEF OrbitInit
<1>2. player = [next |-> player.next, lines |-> player.lines, instances |-> player.instances]
      /\ player.next = 1
  BY <1>1
<1>3. IsSequence(answers) /\ Len(answers) = 0
  BY <1>1 DEF IsSequence
<1>4. 1 \in 1..(Len(Ils) + 1)
  BY FilesCounted
<1> QED
  BY <1>2, <1>3, <1>4 DEF OrbitInv

LEMMA AnswersGrow ==
    ASSUME NEW s, IsSequence(s), NEW a
    PROVE  IsSequence(Append(s, a)) /\ Len(Append(s, a)) = Len(s) + 1
<1> DEFINE S == {s[j] : j \in 1..Len(s)} \cup {a}
<1>1. s \in Seq(S) /\ a \in S
  <2>1. s \in Seq({s[j] : j \in 1..Len(s)})
    BY SequenceOf DEF IsSequence
  <2>2. a \in S
    OBVIOUS
  <2>3. {s[j] : j \in 1..Len(s)} \subseteq S
    OBVIOUS
  <2> HIDE DEF S
  <2> QED
    BY <2>1, <2>2, <2>3, SeqMonotonic
<1> HIDE DEF S
<1>2. Append(s, a) \in Seq(S) /\ Len(Append(s, a)) = Len(s) + 1
  BY <1>1, AppendProperties
<1> QED
  BY <1>2, SequenceFacts

LEMMA OrbitKeeps == OrbitInv /\ [OrbitNext]_orbitVars => OrbitInv'
<1> SUFFICES ASSUME OrbitInv, [OrbitNext]_orbitVars PROVE OrbitInv'
  OBVIOUS
<1> DEFINE Plays(p) == p = [next |-> p.next, lines |-> p.lines, instances |-> p.instances]
           m == Len(Ils)
<1>1. /\ Plays(player) /\ player.next \in 1..(m + 1)
      /\ IsSequence(answers) /\ Len(answers) = player.next - 1
  BY DEF OrbitInv
<1>2. SUFFICES /\ Plays(player') /\ player'.next \in 1..(m + 1)
               /\ IsSequence(answers') /\ Len(answers') = player'.next - 1
  BY DEF OrbitInv, IsSequence, Ils
<1>3. m \in Nat /\ DOMAIN Ils = 1..m
  BY FilesCounted
<1> HIDE DEF m
<1>4. CASE Open
  <2>1. /\ player.next \in 1..m
        /\ player' = [next |-> player.next + 1, lines |-> Ils[Filed[player.next]],
                      instances |-> NoDatabases]
        /\ answers' = Append(answers, {})
    BY <1>3, <1>4 DEF Open
  <2>2. Plays(player') /\ player'.next = player.next + 1
    BY <2>1
  <2>3. IsSequence(answers') /\ Len(answers') = Len(answers) + 1
    BY <1>1, <2>1, AnswersGrow
  <2>4. player.next + 1 \in 1..(m + 1) /\ player.next - 1 + 1 = (player.next + 1) - 1
    BY <1>3, <2>1
  <2> HIDE DEF Plays
  <2> QED
    BY <1>1, <2>2, <2>3, <2>4
<1>5. CASE Command
  <2>1. Plays(player') /\ player'.next = player.next
    <3>1. \/ player' = [player EXCEPT !.lines = Tail(@)]
          \/ \E i : player' = [player EXCEPT !.lines = Tail(@), !.instances = i]
      BY <1>5, Zenon DEF Command
    <3>2. CASE player' = [player EXCEPT !.lines = Tail(@)]
      BY <1>1, <3>2
    <3>3. CASE \E i : player' = [player EXCEPT !.lines = Tail(@), !.instances = i]
      BY <1>1, <3>3
    <3> QED
      BY <3>1, <3>2, <3>3
  <2>2. IsSequence(answers') /\ Len(answers') = Len(answers)
    <3>1. answers' = answers \/ \E a : answers' = [answers EXCEPT ![Len(answers)] = a]
      BY <1>5, Zenon DEF Command
    <3>2. CASE \E a : answers' = [answers EXCEPT ![Len(answers)] = a]
      <4>1. PICK a : answers' = [answers EXCEPT ![Len(answers)] = a]
        BY <3>2
      <4>2. Len(answers) \in Nat /\ answers = [j \in 1..Len(answers) |-> answers[j]]
        BY <1>1 DEF IsSequence
      <4>3. answers' = [j \in 1..Len(answers) |-> answers'[j]]
        BY <4>1, <4>2
      <4>4. Len(answers') = Len(answers)
        BY <4>2, <4>3, SequenceOf
      <4> QED
        BY <4>2, <4>3, <4>4 DEF IsSequence
    <3> QED
      BY <1>1, <3>1, <3>2
  <2> HIDE DEF Plays
  <2> QED
    BY <1>1, <2>1, <2>2
<1>6. CASE UNCHANGED orbitVars
  <2>1. player' = player /\ answers' = answers
    BY <1>6 DEF orbitVars
  <2> HIDE DEF Plays
  <2> QED
    BY <1>1, <2>1
<1> QED
  BY <1>4, <1>5, <1>6 DEF OrbitNext
-----------------------------------------------------------------------------
(***************************************************************************)
(* All programs.                                                           *)
(***************************************************************************)
OrderInv ==
    /\ IsSequence(events)
    /\ program = "dfs" => DfsInv
    /\ program = "random" => RandomInv
    /\ program \notin {"dfs", "random"} => frames = <<>> /\ printed = EmptyBag

ErPiInv == program \in Programs /\ AppInv /\ ScriptInv /\ OrbitInv /\ OrderInv

LEMMA OrderStarts ==
    ASSUME OrderingInit(program = "dfs")
    PROVE  OrderInv
<1>1. /\ events \in EventLists /\ visited = {} /\ printed = EmptyBag
      /\ frames = IF program = "dfs" THEN <<Frame(<<>>, events)>> ELSE <<>>
  BY DEF OrderingInit
<1>2. IsSequence(events)
  <2>1. events \in Seq({events[i] : i \in DOMAIN events})
    BY <1>1, OrderingsAssumption
  <2> QED
    BY <2>1, SequenceFacts
<1>3. program = "dfs" => DfsInv
  BY <1>1, <1>2, DfsStarts
<1>4. program = "random" => RandomInv
  <2>1. EmptyBag = [v \in {} |-> 1]
    BY DEF EmptyBag, SetToBag
  <2> QED
    BY <1>1, <1>2, <2>1 DEF RandomInv
<1> QED
  BY <1>1, <1>2, <1>3, <1>4 DEF OrderInv

LEMMA Starts == Init => ErPiInv
<1> SUFFICES ASSUME Init PROVE ErPiInv
  OBVIOUS
<1>1. program \in Programs /\ CrdtInit /\ ReplayInit /\ OrbitInit /\ OrderingInit(program = "dfs")
  BY DEF Init
<1> QED
  BY <1>1, AppStarts, ScriptStarts, OrbitStarts, OrderStarts DEF ErPiInv

\* A step is one of the program that runs; the other programs' variables stay.
LEMMA StepOfOne ==
    ASSUME [Next]_vars
    PROVE  /\ program' = program
           /\ [CrdtNext]_crdtVars /\ [ReplayNext]_replayVars /\ [OrbitNext]_orbitVars
           /\ \/ program = "dfs" /\ [DfsNext]_orderingVars
              \/ program = "random" /\ [Shuffle]_orderingVars
              \/ UNCHANGED orderingVars
<1>1. CASE Next
  BY <1>1 DEF Next
<1>2. CASE UNCHANGED vars
  BY <1>2 DEF vars
<1> QED
  BY <1>1, <1>2

LEMMA Keeps == ErPiInv /\ [Next]_vars => ErPiInv'
<1> SUFFICES ASSUME ErPiInv, [Next]_vars PROVE ErPiInv'
  OBVIOUS
<1>1. /\ program' = program
      /\ [CrdtNext]_crdtVars /\ [ReplayNext]_replayVars /\ [OrbitNext]_orbitVars
      /\ \/ program = "dfs" /\ [DfsNext]_orderingVars
         \/ program = "random" /\ [Shuffle]_orderingVars
         \/ UNCHANGED orderingVars
  BY StepOfOne
<1>2. AppInv' /\ ScriptInv' /\ OrbitInv'
  BY <1>1, AppStep, ScriptKeeps, OrbitKeeps DEF ErPiInv
<1>3. OrderInv
  BY DEF ErPiInv
<1>4. OrderInv'
  <2>1. CASE program = "dfs" /\ [DfsNext]_orderingVars
    <3>1. DfsInv'
      BY <1>3, <2>1, DfsKeeps DEF OrderInv
    <3>2. IsSequence(events)'
      BY <3>1 DEF DfsInv
    <3>3. program' = "dfs"
      BY <1>1, <2>1
    <3> QED
      BY <3>1, <3>2, <3>3 DEF OrderInv
  <2>2. CASE program = "random" /\ [Shuffle]_orderingVars
    <3>1. RandomInv'
      BY <1>3, <2>2, RandomKeeps DEF OrderInv
    <3>2. IsSequence(events)'
      BY <3>1 DEF RandomInv
    <3>3. program' = "random"
      BY <1>1, <2>2
    <3> QED
      BY <3>1, <3>2, <3>3 DEF OrderInv
  <2>3. CASE UNCHANGED orderingVars
    <3>1. program = "dfs" => DfsInv'
      BY <1>3, <2>3, DfsKeeps DEF OrderInv
    <3>2. program = "random" => RandomInv'
      BY <1>3, <2>3, RandomKeeps DEF OrderInv
    <3>3. events' = events /\ frames' = frames /\ printed' = printed
      BY <2>3 DEF orderingVars
    <3>4. IsSequence(events)'
      BY <1>3, <3>3 DEF OrderInv, IsSequence
    <3>5. program' \notin {"dfs", "random"} => frames' = <<>> /\ printed' = EmptyBag
      BY <1>1, <1>3, <3>3 DEF OrderInv
    <3>6. (EmptyBag)' = EmptyBag
      BY DEF EmptyBag, SetToBag
    <3> QED
      BY <1>1, <3>1, <3>2, <3>4, <3>5, <3>6 DEF OrderInv
  <2> QED
    BY <1>1, <2>1, <2>2, <2>3
<1> QED
  BY <1>1, <1>2, <1>4 DEF ErPiInv

LEMMA InvIsInvariant == Spec => []ErPiInv
<1>1. Init => ErPiInv
  BY Starts
<1>2. ErPiInv /\ [Next]_vars => ErPiInv'
  BY Keeps
<1> QED
  BY <1>1, <1>2, PTL DEF Spec

LEMMA Typed == ErPiInv => TypeOK
<1> SUFFICES ASSUME ErPiInv PROVE TypeOK
  OBVIOUS
<1>1. kind \in Kinds /\ updates \in 0..MaxUpdates
  BY DEF ErPiInv, AppInv
<1>2. \A r \in Replicas :
         CASE kind \in {"GCounter", "GState"} -> CountsType(obj[r])
           [] kind = "PNCounter" -> CountsType(obj[r].inc) /\ CountsType(obj[r].dec)
           [] kind = "GSet"      -> obj[r] \subseteq Item
           [] kind = "TwoPSet"   -> TwoPType(obj[r])
           [] kind = "ORSet"     -> obj[r].observed \cup obj[r].removed
                                      \subseteq Item \X (1..MaxUpdates)
  BY AppType DEF ErPiInv
<1>3. /\ main.state \in {"off", "run"} /\ main.i \in 0..MaxFiles
      /\ TwoPType(main.sets[1]) /\ TwoPType(main.sets[2]) /\ starts.n \in 0..MaxCommands
  BY DEF ErPiInv, ScriptInv, IsTwoP
<1>4. player.next \in 1..(Len(Ils) + 1) /\ Len(answers) = player.next - 1
  BY DEF ErPiInv, OrbitInv
<1>5. \A j \in 1..(Len(frames) - 1) : Len(frames[j].path) = Len(frames[j + 1].path) + 1
  <2>1. CASE program = "dfs"
    <3>1. IsSequence(events) /\ Stack
      BY <2>1 DEF ErPiInv, OrderInv, DfsInv
    <3>2. Len(frames) \in Nat
      BY <3>1 DEF Stack, IsSequence
    <3>3. \A j \in 1..Len(frames) : Len(frames[j].path) = Len(frames) - j
      BY <3>1, FramePath DEF Stack
    <3>4. \A j \in 1..(Len(frames) - 1) :
             /\ j \in 1..Len(frames) /\ j + 1 \in 1..Len(frames)
             /\ Len(frames) - j = (Len(frames) - (j + 1)) + 1
      BY <3>2
    <3> QED
      BY <3>3, <3>4
  <2>2. CASE program # "dfs"
    <3>1. frames = <<>>
      BY <2>2 DEF ErPiInv, OrderInv, RandomInv
    <3>2. Len(frames) - 1 < 1
      BY <3>1
    <3>3. 1..(Len(frames) - 1) = {}
      BY <3>1
    <3> QED
      BY <3>3
  <2> QED
    BY <2>1, <2>2
<1> QED
  BY <1>1, <1>2, <1>3, <1>4, <1>5 DEF TypeOK

LEMMA PrintedOnce == ErPiInv => EachOrderOnce
<1> SUFFICES ASSUME ErPiInv PROVE EachOrderOnce
  OBVIOUS
<1> DEFINE done == \/ program = "dfs" /\ frames = <<>>
                   \/ program = "random" /\ RandomDone
<1>1. OrderInv
  BY DEF ErPiInv
<1>2. \A o \in BagToSet(printed) : printed[o] = 1
  <2>1. CASE program = "dfs"
    BY <1>1, <2>1, DfsPrintsOnce DEF OrderInv
  <2>2. CASE program = "random"
    BY <1>1, <2>2 DEF OrderInv, RandomInv, BagToSet
  <2>3. CASE program \notin {"dfs", "random"}
    BY <1>1, <2>3 DEF OrderInv, BagToSet, EmptyBag, SetToBag
  <2> QED
    BY <2>1, <2>2, <2>3
<1>3. done => BagToSet(printed) = Orders
  BY <1>1, DfsEnds, RandomEnds DEF OrderInv
<1>4. program = "random" /\ done => Cardinality(Orders) = Factorial[Len(events)]
  BY <1>1, RandomEnds DEF OrderInv
<1> QED
  BY <1>2, <1>3, <1>4 DEF EachOrderOnce, Orders

(***************************************************************************)
(* Every variable has its type: counts are those of at most MaxUpdates     *)
(* updates, a 2P set removes only what it has added, also in Main's two    *)
(* sets, the player has shown one answer for each file it opened, and the  *)
(* calls of dfs on the stack are each one event deeper than the last.      *)
(***************************************************************************)
THEOREM TypeCorrect == Spec => []TypeOK
<1>1. ErPiInv => TypeOK
  BY Typed
<1> QED
  BY <1>1, InvIsInvariant, PTL

(***************************************************************************)
(* The merge of every class is idempotent, commutative and associative on  *)
(* the objects that any number of replicas can come to hold.               *)
(***************************************************************************)
THEOREM MergeCorrect == Spec => []MergeLaws
<1>1. ErPiInv => MergeLaws
  BY AppMergeLaws DEF ErPiInv
<1> QED
  BY <1>1, InvIsInvariant, PTL

(***************************************************************************)
(* A replica's counter, state, grow-only or two-phase set is a function of *)
(* which updates it has made or merged: each counts once, in whatever      *)
(* order and however often they arrived.                                   *)
(***************************************************************************)
THEOREM HistoryCorrect == Spec => []AgreesWithHistory
<1>1. ErPiInv => AgreesWithHistory
  BY AppAgrees DEF ErPiInv
<1> QED
  BY <1>1, InvIsInvariant, PTL

(***************************************************************************)
(* An ORSet keeps what an addition put there that no removal had seen, and *)
(* has nothing that was never added.                                       *)
(***************************************************************************)
THEOREM AddWinsCorrect == Spec => []ORSetAddWins
<1>1. ErPiInv => ORSetAddWins
  BY AppAddWins DEF ErPiInv
<1> QED
  BY <1>1, InvIsInvariant, PTL

(***************************************************************************)
(* dfs and the random generator print every ordering of any list of        *)
(* events, some of which may be equal, exactly once before they end; the   *)
(* random one ends only if there are as many orderings as permutations.    *)
(***************************************************************************)
THEOREM GeneratorsCorrect == Spec => []EachOrderOnce
<1>1. ErPiInv => EachOrderOnce
  BY PrintedOnce
<1> QED
  BY <1>1, InvIsInvariant, PTL
=============================================================================
