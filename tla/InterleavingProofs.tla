------------------------- MODULE InterleavingProofs -------------------------
(***************************************************************************)
(* What recording, replaying and pruning interleavings amounts to: whether *)
(* the files of Main are whole, what Main and the player of OrbitDB show   *)
(* of theirs, and what the pruning programs and the emulators keep.        *)
(***************************************************************************)
EXTENDS ErPiProofs
-----------------------------------------------------------------------------
(***************************************************************************)
(* The k-th element of a finite set in a strict total order R, of which    *)
(* Selected and Sorted are made.                                           *)
(***************************************************************************)
Below(S, R, x) == {p \in S : <<p, x>> \in R}

Ordered(S, R) ==
    /\ \A x \in S : <<x, x>> \notin R
    /\ \A x, y, z \in S : <<x, y>> \in R /\ <<y, z>> \in R => <<x, z>> \in R
    /\ \A x, y \in S : x # y => <<x, y>> \in R \/ <<y, x>> \in R

LEMMA BelowGrows ==
    ASSUME NEW S, NEW R, IsFiniteSet(S), Ordered(S, R), NEW x \in S, NEW y \in S, <<x, y>> \in R
    PROVE  Cardinality(Below(S, R, x)) < Cardinality(Below(S, R, y))
<1> DEFINE A == Below(S, R, x)
           B == Below(S, R, y)
<1>1. A \subseteq B /\ x \in B /\ x \notin A /\ B \subseteq S
  BY DEF Ordered, Below
<1> HIDE DEF A, B
<1>2. IsFiniteSet(B) /\ IsFiniteSet(A)
  BY <1>1, FS_Subset
<1>3. Cardinality(A) <= Cardinality(B) /\ Cardinality(A) # Cardinality(B)
  BY <1>1, <1>2, FS_Subset
<1>4. Cardinality(A) \in Nat /\ Cardinality(B) \in Nat
  BY <1>2, FS_CardinalityType
<1> QED
  BY <1>3, <1>4 DEF A, B

LEMMA RankBound ==
    ASSUME NEW S, NEW R, IsFiniteSet(S), Ordered(S, R), NEW x \in S
    PROVE  Cardinality(Below(S, R, x)) \in 0..(Cardinality(S) - 1)
<1> DEFINE A == Below(S, R, x)
<1>1. A \subseteq S /\ x \notin A
  BY DEF Ordered, Below
<1> HIDE DEF A
<1>2. IsFiniteSet(A) /\ Cardinality(A) <= Cardinality(S) /\ Cardinality(A) # Cardinality(S)
  BY <1>1, FS_Subset
<1>3. Cardinality(A) \in Nat /\ Cardinality(S) \in Nat
  BY <1>2, FS_CardinalityType
<1> QED
  BY <1>2, <1>3 DEF A

LEMMA Ranks ==
    ASSUME NEW S, NEW R, IsFiniteSet(S), Ordered(S, R)
    PROVE  /\ Cardinality(S) \in Nat
           /\ \A k \in 1..Cardinality(S) : \E x \in S : Cardinality(Below(S, R, x)) = k - 1
<1> DEFINE n == Cardinality(S)
           f == [x \in S |-> Cardinality(Below(S, R, x)) + 1]
<1>1. n \in Nat
  BY FS_CardinalityType
<1>2. f \in [S -> 1..n]
  <2>1. \A x \in S : Cardinality(Below(S, R, x)) \in 0..(n - 1)
    BY RankBound
  <2>2. \A x \in S : Cardinality(Below(S, R, x)) + 1 \in 1..n
    BY <1>1, <2>1
  <2> HIDE DEF n
  <2> QED
    BY <2>2
<1>3. \A x, y \in S : f[x] = f[y] => x = y
  <2> SUFFICES ASSUME NEW x \in S, NEW y \in S, f[x] = f[y], x # y PROVE FALSE
    OBVIOUS
  <2>1. /\ Cardinality(Below(S, R, x)) \in 0..(n - 1)
        /\ Cardinality(Below(S, R, y)) \in 0..(n - 1)
    BY RankBound
  <2>2. Cardinality(Below(S, R, x)) = Cardinality(Below(S, R, y))
    BY <1>1, <2>1
  <2>3. <<x, y>> \in R \/ <<y, x>> \in R
    BY DEF Ordered
  <2> QED
    BY <1>1, <2>1, <2>2, <2>3, BelowGrows
<1> HIDE DEF f
<1>4. f \in Injection(S, 1..n)
  BY <1>2, <1>3 DEF Injection, IsInjective
<1>5. IsFiniteSet(1..n) /\ Cardinality(1..n) = n
  BY <1>1, FS_Interval
<1>6. f \in Surjection(S, 1..n)
  BY <1>4, <1>5, FS_Injection
<1>7. ASSUME NEW k \in 1..n PROVE \E x \in S : Cardinality(Below(S, R, x)) = k - 1
  <2>1. PICK x \in S : f[x] = k
    BY <1>6 DEF Surjection
  <2>2. f[x] = Cardinality(Below(S, R, x)) + 1 /\ Cardinality(Below(S, R, x)) \in 0..(n - 1)
    BY RankBound DEF f
  <2> QED
    BY <1>1, <2>1, <2>2
<1> QED
  BY <1>1, <1>7

\* The places of a sequence that are selected, in their order.
Places(s, P) == {i \in DOMAIN s : s[i] \in P}

\* pl lists them.
Lists(pl, s, P) ==
    LET c == Cardinality(Places(s, P))
    IN  /\ pl \in [1..c -> Places(s, P)]
        /\ \A k, l \in 1..c : k < l <=> pl[k] < pl[l]
        /\ \A i \in Places(s, P) : \E k \in 1..c : pl[k] = i
        /\ Selected(s, P) = [k \in 1..c |-> s[pl[k]]]

LEMMA PlacesFacts ==
    ASSUME NEW at, NEW n \in Nat, at \subseteq 1..n
    PROVE  /\ IsFiniteSet(at) /\ Cardinality(at) \in 0..n
           /\ \A k \in 1..Cardinality(at) : \E i \in at : Cardinality({h \in at : h < i}) = k - 1
           /\ \A i, j \in at :
                i < j => Cardinality({h \in at : h < i}) < Cardinality({h \in at : h < j})
           /\ \A i \in at : Cardinality({h \in at : h < i}) \in 0..(Cardinality(at) - 1)
<1> DEFINE R == {e \in at \X at : e[1] < e[2]}
<1>1. IsFiniteSet(1..n) /\ Cardinality(1..n) = n
  BY FS_Interval
<1>2. IsFiniteSet(at) /\ Cardinality(at) <= n
  BY <1>1, FS_Subset
<1>3. Cardinality(at) \in 0..n
  BY <1>2, FS_CardinalityType
<1>4. \A i \in at : i \in Nat
  OBVIOUS
<1>5. Ordered(at, R)
  BY <1>4 DEF Ordered
<1>6. \A i \in at : Below(at, R, i) = {h \in at : h < i}
  BY DEF Below
<1>7. \A i, j \in at : i < j => <<i, j>> \in R
  OBVIOUS
<1> HIDE DEF R
<1>8. \A k \in 1..Cardinality(at) : \E i \in at : Cardinality({h \in at : h < i}) = k - 1
  <2>1. \A k \in 1..Cardinality(at) : \E i \in at : Cardinality(Below(at, R, i)) = k - 1
    BY <1>2, <1>5, Ranks
  <2> QED
    BY <1>6, <2>1
<1>9. ASSUME NEW i \in at, NEW j \in at, i < j
      PROVE  Cardinality({h \in at : h < i}) < Cardinality({h \in at : h < j})
  <2>1. Cardinality(Below(at, R, i)) < Cardinality(Below(at, R, j))
    BY <1>2, <1>5, <1>7, <1>9, BelowGrows
  <2> QED
    BY <1>6, <2>1
<1>10. ASSUME NEW i \in at
       PROVE  Cardinality({h \in at : h < i}) \in 0..(Cardinality(at) - 1)
  <2>1. Cardinality(Below(at, R, i)) \in 0..(Cardinality(at) - 1)
    BY <1>2, <1>5, RankBound
  <2> QED
    BY <1>6, <2>1
<1> QED
  BY <1>2, <1>3, <1>8, <1>9, <1>10

LEMMA SelectedFacts ==
    ASSUME NEW s, NEW n \in Nat, DOMAIN s = 1..n, NEW P
    PROVE  /\ Cardinality(Places(s, P)) \in 0..n
           /\ \E pl : Lists(pl, s, P)
<1> DEFINE at == Places(s, P)
           c == Cardinality(at)
           rank(i) == Cardinality({h \in at : h < i})
           place(k) == CHOOSE i \in at : rank(i) = k - 1
           pl == [k \in 1..c |-> place(k)]
<1>1. at \subseteq 1..n
  BY DEF Places
<1>2. Selected(s, P) = [k \in 1..c |-> s[place(k)]]
  BY DEF Selected, Places
<1> HIDE DEF at
<1>3. /\ c \in 0..n
      /\ \A k \in 1..c : \E i \in at : rank(i) = k - 1
      /\ \A i, j \in at : i < j => rank(i) < rank(j)
      /\ \A i \in at : rank(i) \in 0..(c - 1)
  BY <1>1, PlacesFacts
<1>4. \A i \in at : i \in Nat
  BY <1>1
<1> HIDE DEF c, rank
<1>5. \A k \in 1..c : place(k) \in at /\ rank(place(k)) = k - 1
  BY <1>3
<1> HIDE DEF place
<1>6. pl \in [1..c -> at] /\ \A k \in 1..c : pl[k] = place(k)
  BY <1>5
<1> HIDE DEF pl
<1>7. \A k, l \in 1..c : k < l <=> pl[k] < pl[l]
  <2> SUFFICES ASSUME NEW k \in 1..c, NEW l \in 1..c PROVE k < l <=> place(k) < place(l)
    BY <1>6
  <2>1. place(k) \in at /\ place(l) \in at /\ rank(place(k)) = k - 1 /\ rank(place(l)) = l - 1
    BY <1>5
  <2>2. place(k) \in Nat /\ place(l) \in Nat
    BY <1>4, <2>1
  <2>3. k \in Nat /\ l \in Nat
    BY <1>3
  <2>4. place(k) < place(l) => k - 1 < l - 1
    BY <1>3, <2>1
  <2>5. place(l) < place(k) => l - 1 < k - 1
    BY <1>3, <2>1
  <2>6. place(k) = place(l) => k - 1 = l - 1
    BY <2>1
  <2> QED
    BY <2>2, <2>3, <2>4, <2>5, <2>6
<1>8. ASSUME NEW i \in at PROVE \E k \in 1..c : pl[k] = i
  <2> DEFINE k == rank(i) + 1
  <2>1. rank(i) \in 0..(c - 1) /\ c \in Nat
    BY <1>3
  <2>2. k \in 1..c /\ k - 1 = rank(i)
    BY <2>1
  <2> HIDE DEF k
  <2>3. place(k) \in at /\ rank(place(k)) = rank(i) /\ pl[k] = place(k)
    BY <1>5, <1>6, <2>2
  <2>4. place(k) \in Nat /\ i \in Nat
    BY <1>4, <2>3
  <2>5. ~(place(k) < i) /\ ~(i < place(k))
    BY <1>3, <2>1, <2>3
  <2>6. place(k) = i
    BY <2>4, <2>5
  <2> QED
    BY <2>2, <2>3, <2>6
<1>9. Selected(s, P) = [k \in 1..c |-> s[pl[k]]]
  BY <1>2, <1>6
<1>10. Lists(pl, s, P)
  BY <1>6, <1>7, <1>8, <1>9 DEF c, at, Lists
<1> QED
  BY <1>3, <1>10 DEF c, at

\* What the length and the elements of a selection are.
LEMMA SelectedElements ==
    ASSUME NEW s, NEW n \in Nat, DOMAIN s = 1..n, NEW P
    PROVE  /\ DOMAIN Selected(s, P) = 1..Cardinality(Places(s, P))
           /\ Cardinality(Places(s, P)) \in 0..n
           /\ {Selected(s, P)[k] : k \in DOMAIN Selected(s, P)} = {s[i] : i \in Places(s, P)}
<1>1. PICK pl : Lists(pl, s, P)
  BY SelectedFacts
<1>2. Cardinality(Places(s, P)) \in 0..n
  BY SelectedFacts
<1> DEFINE S == Selected(s, P)
<1>3. DOMAIN S = 1..Cardinality(Places(s, P)) /\ \A k \in DOMAIN S : S[k] = s[pl[k]]
  BY <1>1 DEF Lists
<1> HIDE DEF S
<1>4. {S[k] : k \in DOMAIN S} \subseteq {s[i] : i \in Places(s, P)}
  BY <1>1, <1>3 DEF Lists
<1>5. {s[i] : i \in Places(s, P)} \subseteq {S[k] : k \in DOMAIN S}
  BY <1>1, <1>3 DEF Lists
<1> QED
  BY <1>2, <1>3, <1>4, <1>5 DEF S

\* All are selected, or fewer.
LEMMA SelectedAll ==
    ASSUME NEW s, NEW n \in Nat, DOMAIN s = 1..n, NEW P, \A i \in 1..n : s[i] \in P
    PROVE  DOMAIN Selected(s, P) = 1..n /\ \A i \in 1..n : Selected(s, P)[i] = s[i]
<1>1. Places(s, P) = 1..n /\ Cardinality(Places(s, P)) = n
  <2>1. Places(s, P) = 1..n
    BY DEF Places
  <2>2. Cardinality(1..n) = n
    BY FS_Interval
  <2> QED
    BY <2>1, <2>2
<1>0. PICK pl : Lists(pl, s, P)
  BY SelectedFacts
<1>2. /\ pl \in [1..n -> 1..n]
      /\ \A k, l \in 1..n : k < l <=> pl[k] < pl[l]
      /\ \A i \in 1..n : \E k \in 1..n : pl[k] = i
      /\ Selected(s, P) = [k \in 1..n |-> s[pl[k]]]
  BY <1>0, <1>1 DEF Lists
<1>3. \A k \in 1..n : pl[k] = k
  <2> DEFINE Bad == {k \in 1..n : pl[k] # k}
  <2>1. SUFFICES ASSUME Bad # {} PROVE FALSE
    OBVIOUS
  <2>2. PICK k \in Bad : \A j \in Bad : k <= j
    <3>1. Bad \subseteq Nat
      OBVIOUS
    <3> HIDE DEF Bad
    <3> QED
      BY <2>1, <3>1, LeastNatural
  <2>3. \A j \in 1..n : j < k => pl[j] = j
    BY <2>2
  <2>4. PICK l \in 1..n : pl[l] = k
    BY <1>2, <2>2
  <2>5. pl[k] \in 1..n /\ k \in 1..n /\ pl[k] # k
    BY <1>2, <2>2
  <2>6. ~(pl[k] < k)
    BY <1>2, <2>3, <2>5
  <2>7. pl[k] > k
    BY <2>5, <2>6
  <2>8. l < k
    BY <1>2, <2>4, <2>5, <2>7
  <2> QED
    BY <2>3, <2>4, <2>8
<1> QED
  BY <1>2, <1>3

LEMMA SelectedFewer ==
    ASSUME NEW s, NEW n \in Nat, DOMAIN s = 1..n, NEW P, NEW i \in 1..n, s[i] \notin P
    PROVE  \E m \in 0..(n - 1) : DOMAIN Selected(s, P) = 1..m
<1>1. Places(s, P) \subseteq 1..n /\ i \notin Places(s, P)
  BY DEF Places
<1>2. IsFiniteSet(1..n) /\ Cardinality(1..n) = n
  BY FS_Interval
<1>3. Cardinality(Places(s, P)) # n
  BY <1>1, <1>2, FS_Subset
<1>4. /\ DOMAIN Selected(s, P) = 1..Cardinality(Places(s, P))
      /\ Cardinality(Places(s, P)) \in 0..n
  BY SelectedElements
<1>5. Cardinality(Places(s, P)) \in 0..(n - 1)
  BY <1>3, <1>4
<1> QED
  BY <1>4, <1>5
-----------------------------------------------------------------------------
(***************************************************************************)
(* The interleavings of the rule, and the file that IlGen writes for one.  *)
(***************************************************************************)
Follows(S) == {e \in S \X S : Lexicographic(e[1], e[2])}

LEMMA LexicographicOrders ==
    ASSUME NEW n \in Nat, NEW S, S \subseteq [1..n -> 1..n]
    PROVE  Ordered(S, Follows(S))
<1> DEFINE L(a, b, j) == a[j] < b[j] /\ \A h \in 1..(j - 1) : a[h] = b[h]
<1>0. \A x, y \in S : <<x, y>> \in Follows(S) <=> \E j \in 1..n : L(x, y, j)
  <2> SUFFICES ASSUME NEW x \in S, NEW y \in S
               PROVE  <<x, y>> \in Follows(S) <=> \E j \in 1..n : L(x, y, j)
    OBVIOUS
  <2>1. DOMAIN x = 1..n
    OBVIOUS
  <2>2. <<x, y>> \in Follows(S) <=> Lexicographic(x, y)
    BY DEF Follows
  <2> QED
    BY <2>1, <2>2 DEF Lexicographic
<1>t. \A x \in S : \A j \in 1..n : x[j] \in Int
  OBVIOUS
<1>1. ASSUME NEW x \in S PROVE <<x, x>> \notin Follows(S)
  <2>1. \A j \in 1..n : ~L(x, x, j)
    <3>1. \A j \in 1..n : x[j] \in Int
      BY <1>t
    <3> QED
      BY <3>1
  <2> HIDE DEF L
  <2> QED
    BY <1>0, <2>1
<1>2. ASSUME NEW x \in S, NEW y \in S, NEW z \in S,
             <<x, y>> \in Follows(S), <<y, z>> \in Follows(S)
      PROVE  <<x, z>> \in Follows(S)
  <2>1. PICK j \in 1..n : L(x, y, j)
    BY <1>0, <1>2
  <2>2. PICK k \in 1..n : L(y, z, k)
    BY <1>0, <1>2
  <2>3. CASE j <= k
    <3>1. x[j] < z[j]
      <4>1. x[j] \in Int /\ y[j] \in Int /\ z[j] \in Int
        BY <1>t
      <4>2. x[j] < y[j]
        BY <2>1
      <4>3. j < k => y[j] = z[j]
        BY <2>2
      <4>4. j = k => y[j] < z[j]
        BY <2>2
      <4>5. j < k \/ j = k
        BY <2>3
      <4>6. \A a, b, c \in Int : a < b /\ b < c => a < c
        OBVIOUS
      <4> QED
        BY <4>1, <4>2, <4>3, <4>4, <4>5, <4>6
    <3>2. \A h \in 1..(j - 1) : h \in 1..(k - 1)
      BY <2>3
    <3>3. L(x, z, j)
      BY <2>1, <2>2, <3>1, <3>2
    <3> QED
      BY <1>0, <3>3
  <2>4. CASE k < j
    <3>1. x[k] < z[k]
      <4>1. x[k] = y[k]
        BY <2>1, <2>4
      <4> QED
        BY <2>2, <4>1
    <3>2. \A h \in 1..(k - 1) : h \in 1..(j - 1)
      BY <2>4
    <3>3. L(x, z, k)
      BY <2>1, <2>2, <3>1, <3>2
    <3> QED
      BY <1>0, <3>3
  <2> QED
    BY <2>3, <2>4
<1>3. ASSUME NEW x \in S, NEW y \in S, x # y
      PROVE  <<x, y>> \in Follows(S) \/ <<y, x>> \in Follows(S)
  <2> DEFINE D == {j \in 1..n : x[j] # y[j]}
  <2>1. D # {} /\ D \subseteq Nat
    <3>1. x \in [1..n -> 1..n] /\ y \in [1..n -> 1..n]
      OBVIOUS
    <3>2. \E j \in 1..n : x[j] # y[j]
      BY <1>3, <3>1, Z3
    <3>3. D \subseteq Nat
      OBVIOUS
    <3> QED
      BY <3>2, <3>3
  <2>2. PICK j \in D : \A k \in D : j <= k
    BY <2>1, LeastNatural
  <2>3. \A h \in 1..(j - 1) : x[h] = y[h]
    BY <2>2
  <2>4. x[j] < y[j] \/ y[j] < x[j]
    <3>1. j \in 1..n /\ x[j] # y[j]
      BY <2>2
    <3>2. x[j] \in Int /\ y[j] \in Int
      BY <1>t, <3>1
    <3> DEFINE c == x[j]
               d == y[j]
    <3> HIDE DEF D, L, c, d
    <3>3. c \in Int /\ d \in Int /\ c # d
      BY <3>1, <3>2 DEF c, d
    <3>4. c < d \/ d < c
      BY <3>3
    <3> QED
      BY <3>4 DEF c, d
  <2>5. L(x, y, j) \/ L(y, x, j)
    BY <2>3, <2>4
  <2> QED
    BY <1>0, <2>2, <2>5
<1> HIDE DEF L
<1> QED
  BY <1>1, <1>2, <1>3 DEF Ordered

LEMMA SortedFacts ==
    ASSUME NEW n \in Nat, NEW S, S \subseteq Permutation(n)
    PROVE  /\ IsFiniteSet(S) /\ Cardinality(S) \in Nat
           /\ DOMAIN Sorted(S) = 1..Cardinality(S)
           /\ \A i \in DOMAIN Sorted(S) : Sorted(S)[i] \in S
           /\ \A o \in S : \E i \in DOMAIN Sorted(S) : Sorted(S)[i] = o
           /\ \A i, j \in DOMAIN Sorted(S) : i # j => Sorted(S)[i] # Sorted(S)[j]
<1> DEFINE R == Follows(S)
           rank(o) == Cardinality({p \in S : Lexicographic(p, o)})
           m == Cardinality(S)
<1>1. IsFiniteSet(S) /\ m \in Nat
  BY PermutationsCounted, FS_Subset, FS_CardinalityType
<1>2. Ordered(S, R)
  <2>1. S \subseteq [1..n -> 1..n]
    BY DEF Permutation
  <2> QED
    BY <2>1, LexicographicOrders
<1>3. \A o \in S : Cardinality(Below(S, R, o)) = rank(o)
  <2> SUFFICES ASSUME NEW o \in S PROVE Below(S, R, o) = {p \in S : Lexicographic(p, o)}
    OBVIOUS
  <2> QED
    BY DEF Below, Follows
<1> HIDE DEF R
<1>4. \A k \in 1..m : \E o \in S : rank(o) = k - 1
  <2> HIDE DEF rank
  <2> QED
    BY <1>1, <1>2, <1>3, Ranks
<1>5. \A o \in S : rank(o) \in 0..(m - 1)
  <2> HIDE DEF rank
  <2> QED
    BY <1>1, <1>2, <1>3, RankBound
<1>6. \A o, p \in S : o # p => rank(o) # rank(p)
  <2> SUFFICES ASSUME NEW o \in S, NEW p \in S, o # p PROVE rank(o) # rank(p)
    OBVIOUS
  <2>1. <<o, p>> \in R \/ <<p, o>> \in R
    BY <1>2 DEF Ordered
  <2>2. rank(o) < rank(p) \/ rank(p) < rank(o)
    BY <1>1, <1>2, <1>3, <2>1, BelowGrows
  <2>3. rank(o) \in Int /\ rank(p) \in Int
    BY <1>5
  <2> HIDE DEF rank
  <2> QED
    BY <2>2, <2>3
<1>7. Sorted(S) = [i \in 1..m |-> CHOOSE o \in S : rank(o) = i - 1]
  BY DEF Sorted
<1> HIDE DEF rank, m
<1>8. \A i \in 1..m : Sorted(S)[i] \in S /\ rank(Sorted(S)[i]) = i - 1
  BY <1>4, <1>7
<1>9. \A o \in S : \E i \in 1..m : Sorted(S)[i] = o
  <2> SUFFICES ASSUME NEW o \in S PROVE \E i \in 1..m : Sorted(S)[i] = o
    OBVIOUS
  <2>1. rank(o) + 1 \in 1..m /\ (rank(o) + 1) - 1 = rank(o)
    BY <1>1, <1>5 DEF m
  <2> QED
    BY <1>6, <1>8, <2>1
<1>10. \A i, j \in 1..m : i # j => Sorted(S)[i] # Sorted(S)[j]
  BY <1>1, <1>8 DEF m
<1> QED
  BY <1>1, <1>7, <1>8, <1>9, <1>10 DEF m

LEMMA RowsFacts ==
    /\ Events \in Nat /\ Events >= 6
    /\ Cardinality(Cr(Events)) \in Nat /\ Cardinality(Cr(Events)) >= 1
    /\ DOMAIN Rows = 1..Cardinality(Cr(Events))
    /\ \A i \in DOMAIN Rows : Rows[i] \in Permutation(Events)
<1>1. Events \in Nat /\ Events >= 6
  BY JavaReplayAssumption
<1>2. Cr(Events) \subseteq Permutation(Events)
  BY DEF Cr
<1> DEFINE S == Cr(Events)
<1>3. /\ IsFiniteSet(S) /\ Cardinality(S) \in Nat /\ DOMAIN Rows = 1..Cardinality(S)
      /\ \A i \in DOMAIN Rows : Rows[i] \in S
  <2>1. Rows = Sorted(S)
    BY DEF Rows
  <2> HIDE DEF S
  <2> QED
    BY <1>1, <1>2, <2>1, SortedFacts DEF S
<1>4. S # {}
  <2> DEFINE o == [j \in 1..Events |-> IF j = 3 THEN 4 ELSE IF j = 4 THEN 3 ELSE j]
  <2>1. o \in Permutation(Events)
    <3>1. \A j \in 1..Events : (IF j = 3 THEN 4 ELSE IF j = 4 THEN 3 ELSE j) \in 1..Events
      BY <1>1
    <3>2. o \in [1..Events -> 1..Events]
      BY <3>1
    <3>3. \A i, j \in 1..Events : i # j => o[i] # o[j]
      OBVIOUS
    <3> QED
      BY <3>2, <3>3 DEF Permutation
  <2>2. 1 \in 1..Events /\ 2 \in 1..Events /\ 3 \in 1..Events /\ 4 \in 1..Events /\ 6 \in 1..Events
    BY <1>1
  <2>3. o[1] = 1 /\ o[2] = 2 /\ o[3] = 4 /\ o[4] = 3 /\ o[6] = 6
    BY <2>2
  <2> HIDE DEF o
  <2>4. o \in S
    BY <2>1, <2>3 DEF Cr
  <2> QED
    BY <2>4
<1>5. Cardinality(S) # 0
  <2> HIDE DEF S
  <2> QED
    BY <1>3, <1>4, FS_EmptySet
<1> QED
  BY <1>1, <1>2, <1>3, <1>5

LEMMA FileFacts ==
    ASSUME NEW n \in Nat, NEW row \in Permutation(n), NEW rec, IsSequence(rec)
    PROVE  LET f == replaceNumbers(row, rec)
           IN  /\ Len(rec) >= n => /\ Len(f) = n /\ DOMAIN f = 1..n
                                   /\ \A j \in 1..n : f[j] = rec[row[j]]
                                   /\ {f[j] : j \in DOMAIN f} = {rec[x] : x \in 1..n}
               /\ Len(rec) < n => Len(f) # n
<1> DEFINE f == replaceNumbers(row, rec)
           known == Selected(row, DOMAIN rec)
           L == Len(rec)
<1>1. L \in Nat /\ DOMAIN rec = 1..L
  BY DEF IsSequence
<1>2. DOMAIN row = 1..n
  BY DEF Permutation
<1>3. f = [j \in DOMAIN known |-> rec[known[j]]]
  BY DEF replaceNumbers
<1> HIDE DEF f, known, L
<1>4. /\ \A j \in 1..n : row[j] \in 1..n
      /\ \A x \in 1..n : \E j \in 1..n : row[j] = x
  BY PermutationOnto
<1>5. ASSUME L >= n
      PROVE  /\ Len(f) = n /\ DOMAIN f = 1..n
             /\ \A j \in 1..n : f[j] = rec[row[j]]
             /\ {f[j] : j \in DOMAIN f} = {rec[x] : x \in 1..n}
  <2>1. \A i \in 1..n : row[i] \in DOMAIN rec
    BY <1>1, <1>4, <1>5
  <2>2. DOMAIN known = 1..n /\ \A i \in 1..n : known[i] = row[i]
    BY <1>2, <2>1, SelectedAll DEF known
  <2>3. DOMAIN f = 1..n /\ \A j \in 1..n : f[j] = rec[row[j]]
    BY <1>3, <2>2
  <2>4. f = [j \in 1..n |-> f[j]]
    BY <1>3, <2>2
  <2>5. Len(f) = n
    BY <2>4, SequenceOf
  <2>6. {f[j] : j \in DOMAIN f} = {rec[x] : x \in 1..n}
    <3>1. \A j \in 1..n : f[j] \in {rec[x] : x \in 1..n}
      BY <1>4, <2>3
    <3>2. \A x \in 1..n : rec[x] \in {f[j] : j \in 1..n}
      <4> SUFFICES ASSUME NEW x \in 1..n PROVE rec[x] \in {f[j] : j \in 1..n}
        OBVIOUS
      <4>1. PICK j \in 1..n : row[j] = x
        BY <1>4
      <4>2. f[j] = rec[x]
        BY <2>3, <4>1
      <4> QED
        BY <4>2
    <3>3. {f[j] : j \in 1..n} = {rec[x] : x \in 1..n}
      BY <3>1, <3>2, ZenonT(40)
    <3> QED
      BY <2>3, <3>3
  <2> QED
    BY <2>3, <2>5, <2>6
<1>6. ASSUME L < n PROVE Len(f) # n
  <2>0. L + 1 \in 1..n
    BY <1>1, <1>6
  <2>1. PICK i \in 1..n : row[i] = L + 1
    BY <1>4, <2>0
  <2>2. row[i] \notin DOMAIN rec
    BY <1>1, <2>1
  <2>3. PICK m \in 0..(n - 1) : DOMAIN known = 1..m
    BY <1>2, <2>2, SelectedFewer DEF known
  <2>4. f = [j \in 1..m |-> f[j]] /\ m \in Nat
    BY <1>3, <2>3
  <2>5. Len(f) = m
    BY <2>4, SequenceOf
  <2> QED
    BY <2>5
<1> QED
  BY <1>5, <1>6 DEF f, L
-----------------------------------------------------------------------------
(***************************************************************************)
(* The record of Main.  Since the last clean its first part, as long as    *)
(* the first start to find one has found it, is the beginning of InitRun,  *)
(* and the next Main begins at its end with InitRun's first line again.    *)
(***************************************************************************)
InitFacts == IsSequence(InitRun) /\ DOMAIN InitRun = 1..Len(InitRun)

Full(f) == Len(f) = Events /\ {f[j] : j \in DOMAIN f} = {InitRun[j] : j \in 1..Events}

Begins(rec, first) ==
    /\ IsSequence(rec) /\ first \in 0..Len(rec) /\ first <= Len(InitRun)
    /\ \A j \in 1..first : rec[j] = InitRun[j]
    /\ first > 0 /\ Len(rec) > first => rec[first + 1] = InitRun[1]
    /\ first = 0 => Len(rec) <= Len(InitRun) /\ \A j \in 1..Len(rec) : rec[j] = InitRun[j]

\* k lines of InitRun are behind Main.
Read(lines, rec, first, k) ==
    /\ IsSequence(lines) /\ Len(lines) = Len(InitRun) - k
    /\ \A j \in 1..Len(lines) : lines[j] = InitRun[k + j]
    /\ first = 0 => k = Len(rec)
    /\ first > 0 /\ Len(rec) = first => k = 0

AllFull(fs, first) ==
    /\ DOMAIN fs = DOMAIN Rows
    /\ \A i \in DOMAIN fs : Full(fs[i]) <=> first >= Events

RecordInv ==
    ~starts.torn =>
      /\ Begins(record, starts.first)
      /\ main.state = "run" =>
           /\ main.i = 0 => \E k \in 0..Len(InitRun) : Read(main.lines, record, starts.first, k)
           /\ AllFull(files, starts.first)

LEMMA InitRunFacts == InitFacts
<1>1. InitRun \in Seq({InitRun[i] : i \in DOMAIN InitRun})
  BY JavaReplayAssumption
<1>2. IsSequence(InitRun)
  BY <1>1, SequenceFacts
<1> QED
  BY <1>2 DEF InitFacts, IsSequence

LEMMA FullIff ==
    ASSUME DistinctLines, NEW rec, NEW first, Begins(rec, first),
           first = 0 => Len(rec) = 0, NEW row \in Permutation(Events)
    PROVE  Full(replaceNumbers(row, rec)) <=> first >= Events
<1> DEFINE f == replaceNumbers(row, rec)
           L == Len(rec)
           N == Len(InitRun)
<1>1. /\ Events \in Nat /\ Events >= 6 /\ Events <= N
      /\ N \in Nat /\ DOMAIN InitRun = 1..N
  BY RowsFacts, InitRunFacts DEF DistinctLines, InitFacts, IsSequence
<1>2. /\ IsSequence(rec) /\ L \in Nat /\ first \in 0..L /\ first <= N
      /\ \A j \in 1..first : rec[j] = InitRun[j]
      /\ first > 0 /\ L > first => rec[first + 1] = InitRun[1]
      /\ first = 0 => L = 0
  BY DEF Begins, IsSequence
<1>3. /\ L >= Events => Len(f) = Events /\ {f[j] : j \in DOMAIN f} = {rec[x] : x \in 1..Events}
      /\ L < Events => Len(f) # Events
  <2>1. IsSequence(rec) /\ Events \in Nat
    BY <1>1, <1>2
  <2>2. LET g == replaceNumbers(row, rec)
        IN  /\ Len(rec) >= Events => /\ Len(g) = Events /\ DOMAIN g = 1..Events
                                     /\ \A j \in 1..Events : g[j] = rec[row[j]]
                                     /\ {g[j] : j \in DOMAIN g} = {rec[x] : x \in 1..Events}
            /\ Len(rec) < Events => Len(g) # Events
    BY <2>1, FileFacts, Zenon
  <2> QED
    BY <2>2, Zenon
<1> HIDE DEF f, L, N
<1>4. ASSUME first >= Events PROVE Full(f)
  <2>1. L >= Events /\ \A x \in 1..Events : x \in 1..first
    BY <1>1, <1>2, <1>4
  <2>2. \A x \in 1..Events : rec[x] = InitRun[x]
    BY <1>2, <2>1
  <2>3. {rec[x] : x \in 1..Events} = {InitRun[x] : x \in 1..Events}
    BY <2>2
  <2> QED
    BY <1>3, <2>1, <2>3 DEF Full
<1>5. ASSUME first < Events, Full(f) PROVE FALSE
  <2>1. L >= Events
    <3>1. Len(f) = Events
      BY <1>5 DEF Full
    <3> QED
      BY <1>1, <1>2, <1>3, <3>1
  <2>2. first > 0 /\ L > first
    BY <1>1, <1>2, <1>5, <2>1
  <2>3. rec[first + 1] = rec[1] /\ first + 1 \in 1..Events /\ 1 \in 1..Events /\ first + 1 # 1
    <3>1. 1 \in 1..first
      BY <1>2, <2>2
    <3>2. rec[first + 1] = InitRun[1] /\ rec[1] = InitRun[1]
      BY <1>2, <2>2, <3>1
    <3> QED
      BY <1>1, <1>2, <1>5, <2>2, <3>2
  <2>4. {rec[x] : x \in 1..Events} = {InitRun[x] : x \in 1..Events}
    BY <1>3, <1>5, <2>1 DEF Full
  <2> DEFINE T == (1..Events) \ {first + 1}
             g == [j \in 1..Events |-> CHOOSE x \in T : rec[x] = InitRun[j]]
  <2>5. \A j \in 1..Events : \E x \in T : rec[x] = InitRun[j]
    <3> SUFFICES ASSUME NEW j \in 1..Events PROVE \E x \in T : rec[x] = InitRun[j]
      OBVIOUS
    <3>1. PICK x \in 1..Events : rec[x] = InitRun[j]
      BY <2>4
    <3>2. CASE x = first + 1
      <4>1. 1 \in T /\ rec[1] = InitRun[j]
        BY <2>3, <3>1, <3>2
      <4> QED
        BY <4>1
    <3>3. CASE x # first + 1
      <4>1. x \in T
        BY <3>3
      <4> QED
        BY <3>1, <4>1
    <3> QED
      BY <3>2, <3>3
  <2>6. IsFiniteSet(T) /\ Cardinality(T) = Events - 1
    <3>1. IsFiniteSet(1..Events) /\ Cardinality(1..Events) = Events
      BY <1>1, FS_Interval
    <3> QED
      BY <2>3, <3>1, FS_RemoveElement
  <2> HIDE DEF T
  <2>7. g \in [1..Events -> T] /\ \A j \in 1..Events : rec[g[j]] = InitRun[j]
    BY <2>5
  <2> HIDE DEF g
  <2>8. IsFiniteSet(1..Events) /\ Cardinality(1..Events) = Events
    BY <1>1, FS_Interval
  <2>9. Cardinality(T) < Cardinality(1..Events)
    BY <1>1, <2>6, <2>8
  <2>10. PICK i, j \in 1..Events : i # j /\ g[i] = g[j]
    <3>1. g \in [1..Events -> T]
      BY <2>7
    <3>2. IsFiniteSet(T)
      BY <2>6
    <3> QED
      BY <2>8, <2>9, <3>1, <3>2, FS_PigeonHole, Zenon
  <2>11. InitRun[i] = InitRun[j]
    BY <2>7, <2>10
  <2>12. i \in DOMAIN InitRun /\ j \in DOMAIN InitRun
    BY <1>1
  <2> QED
    BY <2>10, <2>11, <2>12 DEF DistinctLines
<1>6. first \in Nat
  BY <1>2 DEF L
<1> QED
  BY <1>1, <1>4, <1>5, <1>6 DEF f

LEMMA RecordStarts == ReplayInit => RecordInv
<1> SUFFICES ASSUME ReplayInit PROVE RecordInv
  OBVIOUS
<1>1. record = <<>> /\ main = NoMain /\ starts = [n |-> 0, first |-> 0, torn |-> FALSE]
  BY DEF ReplayInit
<1>2. starts.first = 0 /\ main.state = "off"
  BY <1>1 DEF NoMain
<1>3. IsSequence(record) /\ Len(record) = 0
  BY <1>1 DEF IsSequence
<1>4. Len(InitRun) \in Nat
  BY InitRunFacts DEF InitFacts, IsSequence
<1>5. Begins(record, starts.first)
  BY <1>2, <1>3, <1>4 DEF Begins
<1> QED
  BY <1>2, <1>5 DEF RecordInv

\* A line is recorded.
LEMMA RecordGrows ==
    ASSUME NEW rec, NEW first, Begins(rec, first),
           NEW lines, lines # <<>>, NEW k \in 0..Len(InitRun), Read(lines, rec, first, k)
    PROVE  /\ Begins(Append(rec, Head(lines)), first)
           /\ k + 1 \in 0..Len(InitRun)
           /\ Read(Tail(lines), Append(rec, Head(lines)), first, k + 1)
<1> DEFINE L == Len(rec)
           N == Len(InitRun)
           r == Append(rec, Head(lines))
<1>1. N \in Nat
  BY InitRunFacts DEF InitFacts, IsSequence
<1>2. /\ IsSequence(rec) /\ L \in Nat /\ first \in 0..L /\ first <= N
      /\ \A j \in 1..first : rec[j] = InitRun[j]
      /\ first > 0 /\ L > first => rec[first + 1] = InitRun[1]
      /\ first = 0 => L <= N /\ \A j \in 1..L : rec[j] = InitRun[j]
  BY DEF Begins, IsSequence
<1>3. /\ IsSequence(lines) /\ Len(lines) = N - k
      /\ \A j \in 1..Len(lines) : lines[j] = InitRun[k + j]
      /\ first = 0 => k = L
      /\ first > 0 /\ L = first => k = 0
  BY DEF Read
<1>4. /\ Len(lines) \in Nat /\ Len(lines) >= 1 /\ Head(lines) = lines[1]
      /\ IsSequence(Tail(lines)) /\ Len(Tail(lines)) = Len(lines) - 1
      /\ \A j \in 1..(Len(lines) - 1) : Tail(lines)[j] = lines[j + 1]
  BY <1>3, StackTail
<1>5. k + 1 \in 0..N /\ k < N
  BY <1>1, <1>3, <1>4
<1>6. Head(lines) = InitRun[k + 1]
  BY <1>3, <1>4
<1>7. /\ IsSequence(r) /\ Len(r) = L + 1 /\ r[L + 1] = Head(lines)
      /\ \A j \in 1..L : r[j] = rec[j]
  <2> DEFINE S == {rec[j] : j \in 1..L} \cup {Head(lines)}
  <2>1. rec \in Seq(S) /\ Head(lines) \in S
    <3>1. rec \in Seq({rec[j] : j \in 1..L})
      BY <1>2, SequenceOf DEF IsSequence
    <3>2. {rec[j] : j \in 1..L} \subseteq S
      OBVIOUS
    <3>3. Head(lines) \in S
      OBVIOUS
    <3> HIDE DEF S
    <3> QED
      BY <3>1, <3>2, <3>3, SeqMonotonic
  <2> HIDE DEF S
  <2>2. /\ r \in Seq(S) /\ Len(r) = L + 1 /\ r[L + 1] = Head(lines)
        /\ \A j \in 1..L : r[j] = rec[j]
    BY <2>1, AppendProperties
  <2> QED
    BY <2>2, SequenceFacts
<1> HIDE DEF L, N, r
<1>8. Begins(r, first)
  <2>1. \A j \in 1..first : r[j] = InitRun[j]
    BY <1>2, <1>7
  <2>2. first > 0 => r[first + 1] = InitRun[1]
    <3>1. CASE L = first
      <4>1. first > 0 => k = 0
        BY <1>3, <3>1
      <4> QED
        BY <1>6, <1>7, <3>1, <4>1
    <3>2. CASE L > first
      <4>1. first + 1 \in 1..L
        BY <1>2, <3>2
      <4> QED
        BY <1>2, <1>7, <3>2, <4>1
    <3> QED
      BY <1>2, <3>1, <3>2
  <2>3. first = 0 => L + 1 <= N /\ \A j \in 1..(L + 1) : r[j] = InitRun[j]
    <3> SUFFICES ASSUME first = 0 PROVE L + 1 <= N /\ \A j \in 1..(L + 1) : r[j] = InitRun[j]
      OBVIOUS
    <3>1. L = k
      BY <1>3
    <3>2. L + 1 <= N
      BY <1>1, <1>2, <1>5, <3>1
    <3>3. r[L + 1] = InitRun[L + 1]
      BY <1>6, <1>7, <3>1
    <3>4. \A j \in 1..L : r[j] = InitRun[j]
      BY <1>2, <1>7
    <3>5. \A j \in 1..(L + 1) : j \in 1..L \/ j = L + 1
      BY <1>2
    <3> QED
      BY <3>2, <3>3, <3>4, <3>5
  <2>4. first \in 0..(L + 1)
    BY <1>2
  <2>5. Len(r) = L + 1
    BY <1>7
  <2> QED
    BY <1>2, <1>7, <2>1, <2>2, <2>3, <2>4, <2>5 DEF Begins, N
<1>9. Read(Tail(lines), r, first, k + 1)
  <2>1. Len(Tail(lines)) = N - (k + 1)
    BY <1>1, <1>3, <1>4
  <2>2. \A j \in 1..Len(Tail(lines)) : Tail(lines)[j] = InitRun[(k + 1) + j]
    <3> SUFFICES ASSUME NEW j \in 1..Len(Tail(lines))
                 PROVE  Tail(lines)[j] = InitRun[(k + 1) + j]
      OBVIOUS
    <3>1. j \in 1..(Len(lines) - 1) /\ j + 1 \in 1..Len(lines) /\ k + (j + 1) = (k + 1) + j
      BY <1>4
    <3> QED
      BY <1>3, <1>4, <3>1
  <2>3. first = 0 => k + 1 = Len(r)
    BY <1>3, <1>7
  <2>4. ~(Len(r) = first)
    BY <1>2, <1>7
  <2> QED
    BY <1>4, <2>1, <2>2, <2>3, <2>4 DEF Read, N
<1> QED
  BY <1>5, <1>8, <1>9 DEF r, N

LEMMA FilesWritten ==
    ASSUME DistinctLines, NEW rec, NEW first, Begins(rec, first), first = 0 => Len(rec) = 0
    PROVE  AllFull([i \in DOMAIN Rows |-> replaceNumbers(Rows[i], rec)], first)
<1>1. \A i \in DOMAIN Rows : Full(replaceNumbers(Rows[i], rec)) <=> first >= Events
  BY RowsFacts, FullIff
<1> QED
  BY <1>1 DEF AllFull

LEMMA RecordKeeps ==
    DistinctLines /\ ScriptInv /\ RecordInv /\ [ReplayNext]_replayVars => RecordInv'
<1> SUFFICES ASSUME DistinctLines, ScriptInv, RecordInv, [ReplayNext]_replayVars PROVE RecordInv'
  OBVIOUS
<1> DEFINE Stand(st, i, ls, rec, fs, first) ==
             /\ Begins(rec, first)
             /\ st = "run" => /\ i = 0 => \E k \in 0..Len(InitRun) : Read(ls, rec, first, k)
                              /\ AllFull(fs, first)
<1>1. SUFFICES ASSUME ~starts'.torn
               PROVE  Stand(main'.state, main'.i, main'.lines, record', files', starts'.first)
  BY DEF RecordInv, Begins, Read, AllFull, Full, IsSequence, Rows
<1>2. ~starts.torn => Stand(main.state, main.i, main.lines, record, files, starts.first)
  BY DEF RecordInv
<1>3. /\ main = [state |-> main.state, i |-> main.i, lines |-> main.lines, sets |-> main.sets]
      /\ main.state \in {"off", "run"} /\ main.i \in 0..MaxFiles
      /\ starts = [n |-> starts.n, first |-> starts.first, torn |-> starts.torn]
  BY DEF ScriptInv
<1>4. NoMain.state = "off"
  BY DEF NoMain
<1>5. MaxFiles \in Nat /\ Len(InitRun) \in Nat
  BY JavaReplayAssumption, InitRunFacts DEF InitFacts, IsSequence
<1>6. CASE Start
  <2> DEFINE f == IF starts.first = 0 THEN Len(record) ELSE starts.first
  <2>1. /\ main.state = "off" /\ record' = record
        /\ files' = [i \in DOMAIN Rows |-> replaceNumbers(Rows[i], record)]
        /\ main' = [NoMain EXCEPT !.state = "run", !.lines = InitRun]
        /\ starts' = [starts EXCEPT !.n = @ + 1, !.first = f]
    BY <1>6 DEF Start
  <2> HIDE DEF f
  <2>2. starts'.first = f /\ starts'.torn = starts.torn
    BY <1>3, <2>1
  <2>3. main'.state = "run" /\ main'.i = 0 /\ main'.lines = InitRun
    BY <2>1 DEF NoMain
  <2>4. Begins(record, starts.first)
    BY <1>1, <1>2, <2>2
  <2>5. Begins(record, f)
    <3>1. CASE starts.first = 0
      BY <2>4, <3>1 DEF Begins, IsSequence, f
    <3>2. CASE starts.first # 0
      BY <2>4, <3>2 DEF f
    <3> QED
      BY <3>1, <3>2
  <2>6. f = 0 => Len(record) = 0
    BY DEF f
  <2>7. AllFull(files', f)
    BY <2>1, <2>5, <2>6, FilesWritten
  <2>8. Read(InitRun, record, f, 0)
    <3>1. IsSequence(InitRun)
      BY InitRunFacts DEF InitFacts
    <3>2. \A j \in 1..Len(InitRun) : j = 0 + j
      BY <1>5
    <3>3. Len(InitRun) = Len(InitRun) - 0
      BY <1>5
    <3> QED
      BY <2>6, <3>1, <3>2, <3>3 DEF Read
  <2>9. 0 \in 0..Len(InitRun)
    BY <1>5
  <2> HIDE DEF f
  <2> QED
    BY <2>1, <2>2, <2>3, <2>5, <2>7, <2>8, <2>9
<1>7. CASE Stop
  <2>1. main' = NoMain /\ starts' = starts /\ record' = record
    BY <1>7 DEF Stop
  <2>2. Begins(record, starts.first)
    BY <1>1, <1>2, <2>1
  <2>3. main'.state # "run"
    BY <1>4, <2>1
  <2> QED
    BY <2>1, <2>2, <2>3
<1>8. CASE Clean
  <2>1. /\ record' = <<>> /\ main' = main
        /\ starts' = [n |-> starts.n + 1, first |-> 0, torn |-> main.state = "run"]
    BY <1>8 DEF Clean
  <2>2. starts'.first = 0 /\ main.state # "run"
    BY <1>1, <2>1
  <2>3. IsSequence(record') /\ Len(record') = 0
    BY <2>1 DEF IsSequence
  <2>4. Begins(record', 0)
    BY <1>5, <2>3 DEF Begins
  <2> QED
    BY <2>1, <2>2, <2>4
<1>9. CASE Line
  <2>1. /\ main.state = "run" /\ main.lines # <<>>
        /\ main' = [main EXCEPT !.lines = Tail(@), !.sets = Do_Actions(@, Head(main.lines))]
        /\ record' = IF main.i = 0 THEN Append(record, Head(main.lines)) ELSE record
        /\ files' = files /\ starts' = starts
    BY <1>9 DEF Line
  <2>2. main'.state = "run" /\ main'.i = main.i /\ main'.lines = Tail(main.lines)
    BY <1>3, <2>1
  <2>3. Stand("run", main.i, main.lines, record, files, starts.first)
    BY <1>1, <1>2, <2>1
  <2>4. CASE main.i = 0
    <3>1. PICK k \in 0..Len(InitRun) : Read(main.lines, record, starts.first, k)
      BY <2>3, <2>4
    <3>2. /\ Begins(Append(record, Head(main.lines)), starts.first)
          /\ k + 1 \in 0..Len(InitRun)
          /\ Read(Tail(main.lines), Append(record, Head(main.lines)), starts.first, k + 1)
      BY <2>1, <2>3, <3>1, RecordGrows
    <3>3. record' = Append(record, Head(main.lines))
      BY <2>1, <2>4
    <3> QED
      BY <2>1, <2>2, <2>3, <3>2, <3>3
  <2>5. CASE main.i # 0
    <3>1. record' = record
      BY <2>1, <2>5
    <3> QED
      BY <2>1, <2>2, <2>3, <2>5, <3>1
  <2> QED
    BY <2>4, <2>5
<1>10. CASE NextFile
  <2>1. record' = record /\ files' = files /\ starts' = starts /\ main.state = "run"
    BY <1>10 DEF NextFile
  <2>2. Stand("run", main.i, main.lines, record, files, starts.first)
    BY <1>1, <1>2, <2>1
  <2>3. CASE main.i = MaxFiles
    <3>1. main' = NoMain
      BY <1>10, <2>3 DEF NextFile
    <3>2. main'.state # "run"
      BY <1>4, <3>1
    <3> QED
      BY <2>1, <2>2, <3>2
  <2>4. CASE main.i # MaxFiles
    <3> DEFINE next == IF main.i + 1 \in DOMAIN files THEN files[main.i + 1] ELSE <<>>
    <3>1. main' = [main EXCEPT !.i = @ + 1, !.lines = next]
      BY <1>10, <2>4 DEF NextFile
    <3> HIDE DEF next
    <3>2. main'.i = main.i + 1
      BY <1>3, <3>1
    <3>3. main'.i # 0
      BY <1>3, <1>5, <3>2
    <3> QED
      BY <2>1, <2>2, <3>3
  <2> QED
    BY <2>3, <2>4
<1>11. CASE UNCHANGED replayVars
  <2>1. main' = main /\ starts' = starts /\ record' = record /\ files' = files
    BY <1>11 DEF replayVars
  <2>2. Stand(main.state, main.i, main.lines, record, files, starts.first)
    BY <1>1, <1>2, <2>1
  <2> HIDE DEF Stand
  <2> QED
    BY <2>1, <2>2
<1> QED
  BY <1>6, <1>7, <1>8, <1>9, <1>10, <1>11 DEF ReplayNext

LEMMA RecordFull ==
    RecordInv => FullAfterFirstRecord
<1> SUFFICES ASSUME RecordInv, main.state = "run", main.i > 0, ~starts.torn
             PROVE  (\A i \in DOMAIN files : Full(files[i])) <=> starts.first >= Events
  BY DEF FullAfterFirstRecord, Full
<1>1. AllFull(files, starts.first)
  BY DEF RecordInv
<1>2. 1 \in DOMAIN files
  BY <1>1, RowsFacts DEF AllFull
<1> QED
  BY <1>1, <1>2 DEF AllFull

(***************************************************************************)
(* Whatever starts, stops, crashes and cleans come before: the files that  *)
(* Main plays are whole interleavings of the recorded events exactly if an *)
(* earlier Main was the first to record since the last clean and got far   *)
(* enough. The lines of InitRun are distinct, or nobody could tell.        *)
(***************************************************************************)
THEOREM FullRecordCorrect == DistinctLines => (Spec => []FullAfterFirstRecord)
<1> SUFFICES ASSUME DistinctLines PROVE Spec => []FullAfterFirstRecord
  OBVIOUS
<1>1. Init => ErPiInv /\ RecordInv
  BY Starts, RecordStarts DEF Init
<1>2. (ErPiInv /\ RecordInv) /\ [Next]_vars => (ErPiInv /\ RecordInv)'
  <2> SUFFICES ASSUME ErPiInv, RecordInv, [Next]_vars PROVE ErPiInv' /\ RecordInv'
    OBVIOUS
  <2>1. ErPiInv'
    BY Keeps
  <2>2. [ReplayNext]_replayVars
    BY StepOfOne
  <2>3. ScriptInv
    BY DEF ErPiInv
  <2> QED
    BY <2>1, <2>2, <2>3, RecordKeeps
<1>3. ErPiInv /\ RecordInv => FullAfterFirstRecord
  BY RecordFull
<1> QED
  BY <1>1, <1>2, <1>3, PTL DEF Spec
-----------------------------------------------------------------------------
(***************************************************************************)
(* The sets that Main plays on.                                            *)
(***************************************************************************)
Pair(s) == s = [j \in 1..2 |-> s[j]] /\ IsTwoP(s[1]) /\ IsTwoP(s[2])

Plays(g, m) ==
    g = [k \in 0..m |-> IF k = 0 THEN NoMain.sets ELSE Do_Actions(g[k - 1], InitRun[k])]

LEMMA PlaysExist ==
    ASSUME NEW m \in Nat
    PROVE  \E g : Plays(g, m)
<1> DEFINE Bad == {k \in Nat : ~\E g : Plays(g, k)}
<1>1. SUFFICES ASSUME Bad # {} PROVE FALSE
  OBVIOUS
<1>2. PICK k \in Bad : \A j \in Bad : k <= j
  <2>1. Bad \subseteq Nat
    OBVIOUS
  <2> HIDE DEF Bad
  <2> QED
    BY <1>1, <2>1, LeastNatural
<1>3. CASE k = 0
  <2> DEFINE g == [n \in 0..0 |-> NoMain.sets]
  <2>1. \A n \in 0..0 : n = 0
    OBVIOUS
  <2>2. g = [n \in 0..0 |-> IF n = 0 THEN NoMain.sets ELSE Do_Actions(g[n - 1], InitRun[n])]
    BY <2>1
  <2> QED
    BY <1>3, <2>2 DEF Plays
<1>4. CASE k # 0
  <2>1. k \in Nat /\ k - 1 \in Nat /\ k - 1 \notin Bad
    BY <1>2, <1>4
  <2>2. PICK h : Plays(h, k - 1)
    BY <2>1
  <2> DEFINE g == [n \in 0..k |-> IF n = 0 THEN NoMain.sets ELSE Do_Actions(h[n - 1], InitRun[n])]
  <2>3. \A n \in 0..(k - 1) : n \in 0..k /\ g[n] = h[n]
    <3>1. \A n \in 0..(k - 1) : h[n] = IF n = 0 THEN NoMain.sets ELSE Do_Actions(h[n - 1], InitRun[n])
      BY <2>2 DEF Plays
    <3>2. \A n \in 0..(k - 1) : n \in 0..k
      BY <2>1
    <3> QED
      BY <3>1, <3>2
  <2>4. \A n \in 0..k : n # 0 => n - 1 \in 0..(k - 1)
    BY <2>1
  <2>5. \A n \in 0..k : g[n] = IF n = 0 THEN NoMain.sets ELSE Do_Actions(g[n - 1], InitRun[n])
    BY <2>3, <2>4
  <2>6. Plays(g, k)
    BY <2>5 DEF Plays
  <2> QED
    BY <2>6
<1> QED
  BY <1>3, <1>4

LEMMA PlayedFacts ==
    /\ Len(InitRun) \in Nat
    /\ Played[0] = NoMain.sets
    /\ \A k \in 0..(Len(InitRun) - 1) : Played[k + 1] = Do_Actions(Played[k], InitRun[k + 1])
    /\ \A k \in 0..Len(InitRun) : Pair(Played[k])
<1> DEFINE N == Len(InitRun)
<1>1. N \in Nat
  BY InitRunFacts DEF InitFacts, IsSequence
<1>2. Plays(Played, N)
  <2>1. PICK g : Plays(g, N)
    BY <1>1, PlaysExist
  <2>2. Played = CHOOSE f : Plays(f, N)
    BY DEF Played, Plays
  <2> HIDE DEF N
  <2> QED
    BY <2>1, <2>2
<1> HIDE DEF N
<1>3. \A k \in 0..N : Played[k] = IF k = 0 THEN NoMain.sets ELSE Do_Actions(Played[k - 1], InitRun[k])
  BY <1>2 DEF Plays
<1>4. Played[0] = NoMain.sets
  BY <1>1, <1>3
<1>5. \A k \in 0..(N - 1) : Played[k + 1] = Do_Actions(Played[k], InitRun[k + 1])
  <2> SUFFICES ASSUME NEW k \in 0..(N - 1)
               PROVE  Played[k + 1] = Do_Actions(Played[k], InitRun[k + 1])
    OBVIOUS
  <2>1. k + 1 \in 0..N /\ k + 1 # 0 /\ (k + 1) - 1 = k
    BY <1>1
  <2> QED
    BY <1>3, <2>1
<1>6. \A k \in 0..N : Pair(Played[k])
  <2> DEFINE Bad == {k \in 0..N : ~Pair(Played[k])}
  <2>1. SUFFICES ASSUME Bad # {} PROVE FALSE
    OBVIOUS
  <2>2. PICK k \in Bad : \A j \in Bad : k <= j
    <3>1. Bad \subseteq Nat
      BY <1>1
    <3> HIDE DEF Bad
    <3> QED
      BY <2>1, <3>1, LeastNatural
  <2>3. Pair(Played[0])
    <3>1. 1 \in 1..2 /\ 2 \in 1..2
      OBVIOUS
    <3>2. NoMain.sets = [j \in 1..2 |-> NoTwoP]
      BY NoMainType
    <3> QED
      BY <1>4, <3>1, <3>2, NoMainType DEF Pair
  <2>4. k # 0 /\ k - 1 \in 0..(N - 1) /\ k - 1 \in 0..N /\ k - 1 \notin Bad /\ (k - 1) + 1 = k
    BY <1>1, <2>2, <2>3
  <2>5. Pair(Played[k - 1])
    BY <2>4
  <2>6. Played[k] = Do_Actions(Played[k - 1], InitRun[k])
    BY <1>5, <2>4
  <2>7. Pair(Played[k])
    BY <2>5, <2>6, ActionsType DEF Pair
  <2> QED
    BY <2>2, <2>7
<1> QED
  BY <1>1, <1>4, <1>5, <1>6 DEF N

\* The end of InitRun, and what a line does then.
First == Played[Len(InitRun)][1]
Second == Played[Len(InitRun)][2]

\* A line that merges into the first set.
Joins(line) == line[1] \notin {"add", "remove"} /\ SetOf(line[2]) = 1

LineOf(line) == \E i \in DOMAIN InitRun : line = InitRun[i]

LEMMA SettledLine ==
    ASSUME InitRunSettles, NEW line, LineOf(line),
           NEW sets, sets = [j \in 1..2 |-> sets[j]], sets[1] \in {First, Second}, sets[2] = Second
    PROVE  LET t == Do_Actions(sets, line)
           IN  /\ t = [j \in 1..2 |-> t[j]] /\ t[2] = Second
               /\ t[1] = IF Joins(line) THEN Second ELSE sets[1]
<1> DEFINE t == Do_Actions(sets, line)
<1>1. Len(InitRun) \in Nat /\ Pair(Played[Len(InitRun)])
  BY PlayedFacts
<1>2. /\ IsTwoP(First) /\ IsTwoP(Second)
      /\ First.adds \subseteq Second.adds /\ First.removes \subseteq Second.removes
  BY <1>1 DEF Pair, First, Second, InitRunSettles
<1>3. \A id : SetOf(id) \in {1, 2}
  BY DEF SetOf
<1>4. /\ line[1] = "add" => line[2] \in sets[SetOf(line[3])].adds
      /\ line[1] = "remove" => line[2] \in sets[SetOf(line[3])].removes
  <2>1. PICK i \in DOMAIN InitRun : line = InitRun[i]
    BY DEF LineOf
  <2>2. /\ line[1] = "add" => line[2] \in Played[Len(InitRun)][SetOf(line[3])].adds
        /\ line[1] = "remove" => line[2] \in Played[Len(InitRun)][SetOf(line[3])].removes
    BY <2>1 DEF InitRunSettles
  <2>3. \A id : /\ Played[Len(InitRun)][SetOf(id)].adds \subseteq sets[SetOf(id)].adds
                /\ Played[Len(InitRun)][SetOf(id)].removes \subseteq sets[SetOf(id)].removes
    BY <1>2, <1>3 DEF First, Second
  <2> QED
    BY <2>2, <2>3
<1>5. \A id : IsTwoP(sets[SetOf(id)])
  BY <1>2, <1>3
<1>6. \A s, x : /\ IsTwoP(s) /\ x \in s.adds => TwoPAdd(s, x) = s
                /\ IsTwoP(s) /\ x \in s.removes => TwoPRemove(s, x) = s
  BY DEF IsTwoP, TwoPType, TwoPAdd, TwoPRemove
<1>7. ASSUME NEW j \in 1..2, NEW v, t = [sets EXCEPT ![j] = v]
      PROVE  /\ t = [h \in 1..2 |-> t[h]]
             /\ t[1] = IF j = 1 THEN v ELSE sets[1]
             /\ t[2] = IF j = 2 THEN v ELSE sets[2]
  <2> HIDE DEF t
  <2>1. 1 \in 1..2 /\ 2 \in 1..2 /\ DOMAIN sets = 1..2
    OBVIOUS
  <2>2. t = [h \in 1..2 |-> IF h = j THEN v ELSE sets[h]]
    BY <1>7, <2>1
  <2> QED
    BY <2>1, <2>2
<1>8. \A id : SetOf(id) \in 1..2
  BY <1>3
<1>9. CASE line[1] = "add"
  <2>1. t = [sets EXCEPT ![SetOf(line[3])] = TwoPAdd(sets[SetOf(line[3])], line[2])]
    BY <1>9 DEF Do_Actions
  <2>2. TwoPAdd(sets[SetOf(line[3])], line[2]) = sets[SetOf(line[3])]
    BY <1>4, <1>5, <1>6, <1>9
  <2>3. ~Joins(line)
    BY <1>9 DEF Joins
  <2> HIDE DEF t
  <2> QED
    BY <1>7, <1>8, <2>1, <2>2, <2>3 DEF t
<1>10. CASE line[1] = "remove"
  <2>1. t = [sets EXCEPT ![SetOf(line[3])] = TwoPRemove(sets[SetOf(line[3])], line[2])]
    BY <1>10 DEF Do_Actions
  <2>2. TwoPRemove(sets[SetOf(line[3])], line[2]) = sets[SetOf(line[3])]
    BY <1>4, <1>5, <1>6, <1>10
  <2>3. ~Joins(line)
    BY <1>10 DEF Joins
  <2> HIDE DEF t
  <2> QED
    BY <1>7, <1>8, <2>1, <2>2, <2>3 DEF t
<1>11. CASE line[1] \notin {"add", "remove"}
  <2> DEFINE to == SetOf(line[2])
  <2>1. t = [sets EXCEPT ![to] = TwoPMerge(sets[to], sets[3 - to])]
    BY <1>11 DEF Do_Actions
  <2>2. TwoPMerge(sets[to], sets[3 - to]) = Second
    <3>1. \A s : IsTwoP(s) /\ s.adds \subseteq Second.adds /\ s.removes \subseteq Second.removes
                   => TwoPMerge(s, Second) = Second /\ TwoPMerge(Second, s) = Second
      BY <1>2 DEF TwoPMerge, IsTwoP
    <3>2. CASE to = 1
      <4>1. 3 - to = 2
        BY <3>2
      <4> QED
        BY <1>2, <3>1, <3>2, <4>1
    <3>3. CASE to = 2
      <4>1. 3 - to = 1
        BY <3>3
      <4> QED
        BY <1>2, <3>1, <3>3, <4>1
    <3> QED
      BY <1>3, <3>2, <3>3
  <2>3. Joins(line) <=> to = 1
    BY <1>11 DEF Joins
  <2>4. to \in 1..2
    BY <1>8
  <2> HIDE DEF t, to
  <2> QED
    BY <1>3, <1>7, <2>1, <2>2, <2>3, <2>4 DEF t
<1> QED
  BY <1>9, <1>10, <1>11
-----------------------------------------------------------------------------
(***************************************************************************)
(* What Main shows.  Every file has the same lines, so either each or none *)
(* merges into the first set, and after the first file that set is what it *)
(* stays.                                                                  *)
(***************************************************************************)
HasJoin(f) == \E j \in DOMAIN f : Joins(f[j])

OnlyLines(f) == IsSequence(f) /\ \A j \in DOMAIN f : LineOf(f[j])

Alike(fs) ==
    /\ DOMAIN fs \in {{}, DOMAIN Rows}
    /\ \A i \in DOMAIN fs : OnlyLines(fs[i])
    /\ \A i, k \in DOMAIN fs : HasJoin(fs[i]) => HasJoin(fs[k])

Left(fs) == IF \E i \in DOMAIN fs : HasJoin(fs[i]) THEN Second ELSE First

Initial(m) ==
    \E k \in 0..Len(InitRun) :
      /\ IsSequence(m.lines) /\ Len(m.lines) = Len(InitRun) - k
      /\ \A j \in 1..Len(m.lines) : m.lines[j] = InitRun[k + j]
      /\ m.sets = Played[k]

Later(m) ==
    OnlyLines(m.lines) /\ m.sets[2] = Second /\ m.sets[1] \in {First, Second}

\* The files are still there.
Known(m, fs, sh) ==
    /\ m.sets[1] \in {First, Left(fs)}
    /\ HasJoin(m.lines) => Left(fs) = Second
    /\ m.i = 1 => m.sets[1] = Left(fs) \/ HasJoin(m.lines)
    /\ m.i > 1 => m.sets[1] = Left(fs)
    /\ \A k \in 1..Len(sh) : sh[k] = <<TwoPGet(Left(fs)), TwoPGet(Second)>>

Running(m, fs, sh) ==
    /\ m.i = 0 => Initial(m) /\ Len(sh) = 0
    /\ m.i > 0 => Later(m)
    /\ m.i > 0 /\ DOMAIN fs # {} => Known(m, fs, sh)

AllShownEqual(sh) == IsSequence(sh) /\ \A k, l \in 1..Len(sh) : sh[k] = sh[l]

ShownInv ==
    /\ OnlyLines(record) /\ Alike(files) /\ AllShownEqual(shown)
    /\ main.state = "run" => Running(main, files, shown)

LEMMA NoLines == OnlyLines(<<>>) /\ ~HasJoin(<<>>)
<1>1. IsSequence(<<>>)
  BY DEF IsSequence
<1>2. DOMAIN <<>> = {}
  OBVIOUS
<1> QED
  BY <1>1, <1>2 DEF OnlyLines, HasJoin

LEMMA FileLines ==
    ASSUME NEW rec, OnlyLines(rec), NEW row \in Permutation(Events)
    PROVE  LET f == replaceNumbers(row, rec)
           IN  /\ OnlyLines(f)
               /\ HasJoin(f) <=> \E x \in DOMAIN rec : x <= Events /\ Joins(rec[x])
<1> DEFINE f == replaceNumbers(row, rec)
           P == DOMAIN rec
           known == Selected(row, P)
           at == Places(row, P)
<1>1. Events \in Nat /\ IsSequence(rec) /\ \A x \in P : LineOf(rec[x])
  BY RowsFacts DEF OnlyLines
<1>2. DOMAIN row = 1..Events
  BY DEF Permutation
<1>3. /\ Cardinality(at) \in 0..Events /\ DOMAIN known = 1..Cardinality(at)
      /\ {known[k] : k \in DOMAIN known} = {row[i] : i \in at}
  BY <1>1, <1>2, SelectedElements
<1>4. f = [j \in DOMAIN known |-> rec[known[j]]]
  BY DEF replaceNumbers
<1>5. at = {i \in 1..Events : row[i] \in P}
  BY <1>2 DEF Places
<1>6. P = 1..Len(rec) /\ Len(rec) \in Nat
  BY <1>1 DEF IsSequence
<1>7. /\ \A j \in 1..Events : row[j] \in 1..Events
      /\ \A x \in 1..Events : \E j \in 1..Events : row[j] = x
  BY <1>1, PermutationOnto
<1> HIDE DEF known, at, P
<1>8. \A j \in DOMAIN known : known[j] \in P /\ known[j] <= Events
  <2> SUFFICES ASSUME NEW j \in DOMAIN known PROVE known[j] \in P /\ known[j] <= Events
    OBVIOUS
  <2>1. known[j] \in {row[i] : i \in at}
    BY <1>3
  <2>2. PICK i \in at : known[j] = row[i]
    BY <2>1
  <2>3. i \in 1..Events /\ row[i] \in P
    BY <1>5, <2>2
  <2> QED
    BY <1>1, <1>7, <2>2, <2>3
<1>9. \A x \in P : x <= Events => \E j \in DOMAIN known : known[j] = x
  <2> SUFFICES ASSUME NEW x \in P, x <= Events PROVE \E j \in DOMAIN known : known[j] = x
    OBVIOUS
  <2>1. x \in 1..Events
    BY <1>1, <1>6
  <2>2. PICK i \in 1..Events : row[i] = x
    BY <1>7, <2>1
  <2>3. i \in at
    BY <1>5, <2>2
  <2>4. x \in {known[k] : k \in DOMAIN known}
    BY <1>3, <2>2, <2>3
  <2> QED
    BY <2>4
<1> HIDE DEF f
<1>10. DOMAIN f = DOMAIN known /\ \A j \in DOMAIN known : f[j] = rec[known[j]]
  BY <1>4
<1>11. OnlyLines(f)
  <2>1. f = [j \in 1..Cardinality(at) |-> f[j]] /\ Cardinality(at) \in Nat
    BY <1>3, <1>4
  <2>2. IsSequence(f)
    BY <2>1, SequenceOf DEF IsSequence
  <2>3. \A j \in DOMAIN f : LineOf(f[j])
    BY <1>1, <1>8, <1>10
  <2> QED
    BY <2>2, <2>3 DEF OnlyLines
<1>12. HasJoin(f) <=> \E x \in P : x <= Events /\ Joins(rec[x])
  <2>1. ASSUME HasJoin(f) PROVE \E x \in P : x <= Events /\ Joins(rec[x])
    BY <1>8, <1>10, <2>1 DEF HasJoin
  <2>2. ASSUME NEW x \in P, x <= Events, Joins(rec[x]) PROVE HasJoin(f)
    <3>1. PICK j \in DOMAIN known : known[j] = x
      BY <1>9, <2>2
    <3> QED
      BY <1>10, <2>2, <3>1 DEF HasJoin
  <2> QED
    BY <2>1, <2>2
<1> QED
  BY <1>11, <1>12 DEF f, P

LEMMA AlikeFiles ==
    ASSUME NEW rec, OnlyLines(rec)
    PROVE  Alike([i \in DOMAIN Rows |-> replaceNumbers(Rows[i], rec)])
<1> DEFINE J == \E x \in DOMAIN rec : x <= Events /\ Joins(rec[x])
<1>1. \A i \in DOMAIN Rows : /\ OnlyLines(replaceNumbers(Rows[i], rec))
                             /\ HasJoin(replaceNumbers(Rows[i], rec)) <=> J
  <2> SUFFICES ASSUME NEW i \in DOMAIN Rows
               PROVE  /\ OnlyLines(replaceNumbers(Rows[i], rec))
                      /\ HasJoin(replaceNumbers(Rows[i], rec)) <=> J
    OBVIOUS
  <2>1. Rows[i] \in Permutation(Events)
    BY RowsFacts
  <2> QED
    BY <2>1, FileLines
<1> HIDE DEF J
<1> QED
  BY <1>1 DEF Alike

\* One line less.
LEMMA FewerLines ==
    ASSUME NEW ls, OnlyLines(ls), ls # <<>>
    PROVE  /\ OnlyLines(Tail(ls)) /\ LineOf(Head(ls))
           /\ HasJoin(ls) <=> Joins(Head(ls)) \/ HasJoin(Tail(ls))
<1>1. IsSequence(ls) /\ \A j \in DOMAIN ls : LineOf(ls[j])
  BY DEF OnlyLines
<1>2. /\ Len(ls) \in Nat /\ Len(ls) >= 1 /\ Head(ls) = ls[1]
      /\ IsSequence(Tail(ls)) /\ Len(Tail(ls)) = Len(ls) - 1
      /\ \A j \in 1..(Len(ls) - 1) : Tail(ls)[j] = ls[j + 1]
  BY <1>1, StackTail
<1> DEFINE n == Len(ls)
           t == Tail(ls)
<1>3. DOMAIN ls = 1..n /\ DOMAIN t = 1..(n - 1)
  BY <1>1, <1>2 DEF IsSequence
<1> HIDE DEF n, t
<1>4. n \in Nat /\ n >= 1 /\ \A j \in 1..(n - 1) : t[j] = ls[j + 1] /\ j + 1 \in 1..n
  BY <1>2 DEF n, t
<1>5. \A j \in 1..n : j = 1 \/ (j - 1 \in 1..(n - 1) /\ (j - 1) + 1 = j)
  BY <1>4
<1>6. OnlyLines(t) /\ LineOf(Head(ls))
  <2>1. 1 \in 1..n
    BY <1>4
  <2>2. IsSequence(t)
    BY <1>2 DEF t
  <2> QED
    BY <1>1, <1>2, <1>3, <1>4, <2>1, <2>2 DEF OnlyLines
<1>7. ASSUME HasJoin(ls) PROVE Joins(Head(ls)) \/ HasJoin(t)
  <2>1. PICK j \in 1..n : Joins(ls[j])
    BY <1>3, <1>7 DEF HasJoin
  <2>2. CASE j = 1
    BY <1>2, <2>1, <2>2
  <2>3. CASE j # 1
    <3>1. j - 1 \in 1..(n - 1) /\ t[j - 1] = ls[j]
      BY <1>4, <1>5, <2>3
    <3> QED
      BY <1>3, <2>1, <3>1 DEF HasJoin
  <2> QED
    BY <2>2, <2>3
<1>8. ASSUME Joins(Head(ls)) \/ HasJoin(t) PROVE HasJoin(ls)
  <2>1. CASE Joins(Head(ls))
    <3>1. 1 \in 1..n
      BY <1>4
    <3> QED
      BY <1>2, <1>3, <2>1, <3>1 DEF HasJoin
  <2>2. CASE HasJoin(t)
    <3>1. PICK j \in 1..(n - 1) : Joins(t[j])
      BY <1>3, <2>2 DEF HasJoin
    <3> QED
      BY <1>3, <1>4, <3>1 DEF HasJoin
  <2> QED
    BY <1>8, <2>1, <2>2
<1> QED
  BY <1>6, <1>7, <1>8 DEF t

\* A sequence and one element more.
LEMMA LongerSequence ==
    ASSUME NEW s, IsSequence(s), NEW a
    PROVE  /\ IsSequence(Append(s, a)) /\ Len(Append(s, a)) = Len(s) + 1
           /\ \A j \in 1..(Len(s) + 1) :
                Append(s, a)[j] = IF j = Len(s) + 1 THEN a ELSE s[j]
<1> DEFINE S == {s[j] : j \in 1..Len(s)} \cup {a}
           L == Len(s)
           r == Append(s, a)
<1>1. s \in Seq(S) /\ a \in S /\ L \in Nat
  <2>1. s \in Seq({s[j] : j \in 1..Len(s)}) /\ L \in Nat
    BY SequenceOf DEF IsSequence
  <2>2. a \in S
    OBVIOUS
  <2>3. {s[j] : j \in 1..Len(s)} \subseteq S
    OBVIOUS
  <2> HIDE DEF S
  <2> QED
    BY <2>1, <2>2, <2>3, SeqMonotonic
<1> HIDE DEF S
<1>2. r \in Seq(S) /\ Len(r) = L + 1 /\ r[L + 1] = a /\ \A j \in 1..L : r[j] = s[j]
  BY <1>1, AppendProperties
<1>3. IsSequence(r)
  BY <1>2, SequenceFacts
<1> HIDE DEF r, L
<1>4. \A j \in 1..(L + 1) : r[j] = IF j = L + 1 THEN a ELSE s[j]
  <2>1. \A j \in 1..(L + 1) : j \in 1..L \/ j = L + 1
    BY <1>1
  <2>2. \A j \in 1..L : j # L + 1
    BY <1>1
  <2> QED
    BY <1>2, <2>1, <2>2
<1> QED
  BY <1>2, <1>3, <1>4 DEF r, L

LEMMA MoreLines ==
    ASSUME NEW ls, OnlyLines(ls), NEW line, LineOf(line)
    PROVE  OnlyLines(Append(ls, line))
<1>1. IsSequence(ls) /\ DOMAIN ls = 1..Len(ls) /\ Len(ls) \in Nat /\ \A j \in 1..Len(ls) : LineOf(ls[j])
  BY DEF OnlyLines, IsSequence
<1>2. IsSequence(Append(ls, line)) /\ Len(Append(ls, line)) = Len(ls) + 1
      /\ \A j \in 1..(Len(ls) + 1) : Append(ls, line)[j] = IF j = Len(ls) + 1 THEN line ELSE ls[j]
  BY <1>1, LongerSequence
<1>3. DOMAIN Append(ls, line) = 1..(Len(ls) + 1)
  BY <1>2 DEF IsSequence
<1>4. \A j \in 1..(Len(ls) + 1) : LineOf(Append(ls, line)[j])
  BY <1>1, <1>2
<1> QED
  BY <1>2, <1>3, <1>4 DEF OnlyLines

LEMMA ShownStarts == ReplayInit => ShownInv
<1> SUFFICES ASSUME ReplayInit PROVE ShownInv
  OBVIOUS
<1>1. record = <<>> /\ files = <<>> /\ main.state = "off" /\ shown = <<>>
  BY DEF ReplayInit, NoMain
<1>2. OnlyLines(record)
  BY <1>1, NoLines
<1>3. Alike(files)
  <2>1. DOMAIN files = {}
    BY <1>1
  <2> QED
    BY <2>1 DEF Alike
<1>4. AllShownEqual(shown)
  <2>1. IsSequence(shown) /\ Len(shown) = 0
    BY <1>1 DEF IsSequence
  <2> QED
    BY <2>1 DEF AllShownEqual
<1> QED
  BY <1>1, <1>2, <1>3, <1>4 DEF ShownInv

\* A line of InitRun.
LEMMA InitialLine ==
    ASSUME NEW m, Initial(m), m.lines # <<>>,
           NEW n, n.lines = Tail(m.lines), n.sets = Do_Actions(m.sets, Head(m.lines))
    PROVE  Initial(n) /\ LineOf(Head(m.lines))
<1> DEFINE N == Len(InitRun)
<1>1. PICK k \in 0..N : /\ IsSequence(m.lines) /\ Len(m.lines) = N - k
                        /\ \A j \in 1..Len(m.lines) : m.lines[j] = InitRun[k + j]
                        /\ m.sets = Played[k]
  BY DEF Initial
<1>2. N \in Nat /\ \A i \in 0..(N - 1) : Played[i + 1] = Do_Actions(Played[i], InitRun[i + 1])
  BY PlayedFacts
<1>3. DOMAIN InitRun = 1..N
  BY InitRunFacts DEF InitFacts
<1> HIDE DEF N
<1> DEFINE t == Tail(m.lines)
           L == Len(m.lines)
<1>4. /\ L \in Nat /\ L >= 1 /\ Head(m.lines) = m.lines[1]
      /\ IsSequence(t) /\ Len(t) = L - 1
      /\ \A j \in 1..(L - 1) : t[j] = m.lines[j + 1]
  BY <1>1, StackTail
<1>5. k \in 0..(N - 1) /\ k + 1 \in 0..N /\ k + 1 \in 1..N
  BY <1>1, <1>2, <1>4
<1>6. Head(m.lines) = InitRun[k + 1]
  BY <1>1, <1>4
<1>7. n.sets = Played[k + 1]
  BY <1>1, <1>2, <1>5, <1>6
<1>8. Len(t) = N - (k + 1)
  BY <1>1, <1>2, <1>4
<1>9. \A j \in 1..Len(t) : t[j] = InitRun[(k + 1) + j]
  <2> SUFFICES ASSUME NEW j \in 1..Len(t) PROVE t[j] = InitRun[(k + 1) + j]
    OBVIOUS
  <2>1. j \in 1..(L - 1) /\ j + 1 \in 1..L /\ k + (j + 1) = (k + 1) + j
    BY <1>4
  <2> QED
    BY <1>1, <1>4, <2>1
<1>10. LineOf(Head(m.lines))
  BY <1>3, <1>5, <1>6 DEF LineOf
<1>11. n.lines = t /\ n.sets = Played[k + 1]
  BY <1>7
<1> HIDE DEF t, L
<1>12. Initial(n)
  BY <1>4, <1>5, <1>8, <1>9, <1>11 DEF Initial, N
<1> QED
  BY <1>10, <1>12

LEMMA ShownKeeps ==
    InitRunSettles /\ ScriptInv /\ ShownInv /\ [ReplayNext]_replayVars => ShownInv'
<1> SUFFICES ASSUME InitRunSettles, ScriptInv, ShownInv, [ReplayNext]_replayVars PROVE ShownInv'
  OBVIOUS
<1> DEFINE Invs(r, fs, sh, m) ==
             /\ OnlyLines(r) /\ Alike(fs) /\ AllShownEqual(sh)
             /\ m.state = "run" => Running(m, fs, sh)
<1>1. SUFFICES Invs(record', files', shown', main')
  <2>1. ASSUME Invs(record', files', shown', main') PROVE ShownInv'
    BY <2>1 DEF ShownInv, OnlyLines, Alike, AllShownEqual, Running, Initial, Later, Known,
                HasJoin, Left, Joins, LineOf, IsSequence, First, Second, Rows, Played
  <2> QED
    BY <2>1
<1>2. Invs(record, files, shown, main)
  BY DEF ShownInv
<1>3. /\ main = [state |-> main.state, i |-> main.i, lines |-> main.lines, sets |-> main.sets]
      /\ main.state \in {"off", "run"} /\ main.i \in 0..MaxFiles
      /\ main.sets = [j \in 1..2 |-> main.sets[j]]
      /\ IsTwoP(main.sets[1]) /\ IsTwoP(main.sets[2])
  BY DEF ScriptInv
<1>4. NoMain.state = "off"
  BY DEF NoMain
<1>5. MaxFiles \in Nat /\ Len(InitRun) \in Nat
  BY JavaReplayAssumption, PlayedFacts
<1>6. CASE Start
  <2>1. /\ record' = record
        /\ files' = [i \in DOMAIN Rows |-> replaceNumbers(Rows[i], record)]
        /\ main' = [NoMain EXCEPT !.state = "run", !.lines = InitRun]
        /\ shown' = <<>>
    BY <1>6 DEF Start
  <2>2. main'.i = 0 /\ main'.lines = InitRun /\ main'.sets = NoMain.sets
    BY <2>1 DEF NoMain
  <2>3. Alike(files')
    BY <1>2, <2>1, AlikeFiles
  <2>4. IsSequence(shown') /\ Len(shown') = 0
    BY <2>1 DEF IsSequence
  <2>5. AllShownEqual(shown')
    BY <2>4 DEF AllShownEqual
  <2>6. Initial(main')
    <3>1. IsSequence(InitRun) /\ Len(InitRun) = Len(InitRun) - 0
      BY <1>5, InitRunFacts DEF InitFacts
    <3>2. \A j \in 1..Len(InitRun) : 0 + j = j
      BY <1>5
    <3>3. 0 \in 0..Len(InitRun)
      BY <1>5
    <3>4. \A j \in 1..Len(InitRun) : InitRun[j] = InitRun[0 + j]
      BY <3>2
    <3>5. Played[0] = NoMain.sets
      BY PlayedFacts
    <3> QED
      BY <2>2, <3>1, <3>3, <3>4, <3>5 DEF Initial
  <2>7. Running(main', files', shown')
    BY <2>2, <2>4, <2>6 DEF Running
  <2> QED
    BY <1>2, <2>1, <2>3, <2>5, <2>7
<1>7. CASE Stop
  <2>1. main' = NoMain /\ record' = record /\ files' = files /\ shown' = shown
    BY <1>7 DEF Stop
  <2> QED
    BY <1>2, <1>4, <2>1
<1>8. CASE Clean
  <2>1. record' = <<>> /\ files' = <<>> /\ main' = main /\ shown' = shown
    BY <1>8 DEF Clean
  <2>2. OnlyLines(record')
    BY <2>1, NoLines
  <2>3. DOMAIN files' = {}
    BY <2>1
  <2>4. Alike(files')
    BY <2>3 DEF Alike
  <2>5. Running(main, files, shown) => Running(main', files', shown')
    BY <2>1, <2>3 DEF Running
  <2> QED
    BY <1>2, <2>1, <2>2, <2>4, <2>5
<1>9. CASE Line
  <2> DEFINE h == Head(main.lines)
             t == Do_Actions(main.sets, h)
  <2>1. /\ main.state = "run" /\ main.lines # <<>>
        /\ main' = [main EXCEPT !.lines = Tail(@), !.sets = t]
        /\ record' = IF main.i = 0 THEN Append(record, h) ELSE record
        /\ files' = files /\ shown' = shown
    BY <1>9 DEF Line
  <2>2. /\ main'.i = main.i /\ main'.lines = Tail(main.lines) /\ main'.sets = t
    BY <1>3, <2>1
  <2>3. Running(main, files, shown)
    BY <1>2, <2>1
  <2>4. CASE main.i = 0
    <3>1. Initial(main) /\ Len(shown) = 0
      BY <2>3, <2>4 DEF Running
    <3> HIDE DEF t
    <3>2. Initial(main') /\ LineOf(h)
      <4>1. /\ main'.lines = Tail(main.lines)
            /\ main'.sets = Do_Actions(main.sets, Head(main.lines))
        BY <2>2 DEF t
      <4> QED
        BY <2>1, <3>1, <4>1, InitialLine
    <3> HIDE DEF h
    <3>3. OnlyLines(record')
      BY <1>2, <2>1, <2>4, <3>2, MoreLines
    <3>4. ~(main'.i > 0)
      BY <2>2, <2>4
    <3>5. Running(main', files', shown')
      BY <2>1, <2>2, <3>1, <3>2, <3>4 DEF Running
    <3> QED
      BY <1>2, <2>1, <3>3, <3>5
  <2>5. CASE main.i # 0
    <3>0. main.i > 0
      BY <1>3, <1>5, <2>5
    <3>1. Later(main)
      BY <2>3, <3>0 DEF Running
    <3>2. OnlyLines(main.lines) /\ main.sets[2] = Second /\ main.sets[1] \in {First, Second}
      BY <3>1 DEF Later
    <3>3. /\ OnlyLines(Tail(main.lines)) /\ LineOf(h)
          /\ HasJoin(main.lines) <=> Joins(h) \/ HasJoin(Tail(main.lines))
      BY <2>1, <3>2, FewerLines
    <3> HIDE DEF h
    <3>4. t[2] = Second /\ t[1] = IF Joins(h) THEN Second ELSE main.sets[1]
      BY <1>3, <3>2, <3>3, SettledLine
    <3> HIDE DEF t
    <3>5. Later(main')
      BY <2>2, <3>2, <3>3, <3>4 DEF Later
    <3>6. ASSUME DOMAIN files # {} PROVE Known(main', files, shown)
      <4>1. Known(main, files, shown)
        BY <2>3, <3>0, <3>6 DEF Running
      <4>2. /\ main.sets[1] \in {First, Left(files)}
            /\ HasJoin(main.lines) => Left(files) = Second
            /\ main.i = 1 => main.sets[1] = Left(files) \/ HasJoin(main.lines)
            /\ main.i > 1 => main.sets[1] = Left(files)
            /\ \A k \in 1..Len(shown) : shown[k] = <<TwoPGet(Left(files)), TwoPGet(Second)>>
        BY <4>1 DEF Known
      <4>3. Joins(h) => t[1] = Left(files)
        BY <3>3, <3>4, <4>2
      <4>4. t[1] \in {First, Left(files)}
        BY <3>4, <4>2, <4>3
      <4>5. HasJoin(Tail(main.lines)) => Left(files) = Second
        BY <3>3, <4>2
      <4>6. main.i = 1 => t[1] = Left(files) \/ HasJoin(Tail(main.lines))
        BY <3>3, <3>4, <4>2, <4>3
      <4>7. main.i > 1 => t[1] = Left(files)
        BY <3>4, <4>2, <4>3
      <4> QED
        BY <2>2, <4>2, <4>4, <4>5, <4>6, <4>7 DEF Known
    <3>7. Running(main', files', shown')
      BY <2>1, <2>2, <2>5, <3>5, <3>6 DEF Running
    <3> QED
      BY <1>2, <2>1, <2>5, <3>7
  <2> QED
    BY <2>4, <2>5
<1>10. CASE NextFile
  <2> DEFINE got == <<TwoPGet(main.sets[1]), TwoPGet(main.sets[2])>>
  <2>1. /\ main.state = "run" /\ main.lines = <<>>
        /\ shown' = IF main.i \in DOMAIN files THEN Append(shown, got) ELSE shown
        /\ record' = record /\ files' = files
    BY <1>10 DEF NextFile
  <2>2. Running(main, files, shown)
    BY <1>2, <2>1
  <2>3. DOMAIN files = {} \/ DOMAIN files = DOMAIN Rows
    BY <1>2 DEF Alike
  <2>4. \A i \in DOMAIN files : i >= 1
    BY <2>3, RowsFacts
  <2>5. main.i \in Nat
    BY <1>3, <1>5
  <2>6. ASSUME main.i > 0, DOMAIN files # {}
        PROVE  /\ main.sets[1] = Left(files) /\ Later(main)
               /\ \A k \in 1..Len(shown) : shown[k] = <<TwoPGet(Left(files)), TwoPGet(Second)>>
    <3>1. Known(main, files, shown) /\ Later(main)
      BY <2>2, <2>6 DEF Running
    <3>2. ~HasJoin(main.lines)
      BY <2>1, NoLines
    <3>3. main.i = 1 \/ main.i > 1
      BY <2>5, <2>6
    <3> QED
      BY <3>1, <3>2, <3>3 DEF Known
  <2> DEFINE fin == <<TwoPGet(Left(files)), TwoPGet(Second)>>
  <2>7. /\ AllShownEqual(shown')
        /\ main.i = 0 => shown' = shown
        /\ main.i > 0 /\ DOMAIN files # {} => \A k \in 1..Len(shown') : shown'[k] = fin
    <3>1. CASE main.i \in DOMAIN files
      <4>1. main.i > 0 /\ DOMAIN files # {}
        BY <2>4, <2>5, <3>1
      <4>2. got = fin
        BY <2>6, <4>1 DEF Later
      <4>3. shown' = Append(shown, fin)
        BY <2>1, <3>1, <4>2
      <4>4. \A k \in 1..Len(shown) : shown[k] = fin
        BY <2>6, <4>1
      <4> HIDE DEF got, fin
      <4>5. IsSequence(shown)
        BY <1>2 DEF AllShownEqual
      <4>6. /\ IsSequence(shown') /\ Len(shown') = Len(shown) + 1
            /\ \A j \in 1..(Len(shown) + 1) : shown'[j] = IF j = Len(shown) + 1 THEN fin ELSE shown[j]
        BY <4>3, <4>5, LongerSequence
      <4>7. \A j \in 1..Len(shown') : shown'[j] = fin
        <5>1. Len(shown) \in Nat
          BY <4>5 DEF IsSequence
        <5>2. \A j \in 1..(Len(shown) + 1) : j = Len(shown) + 1 \/ j \in 1..Len(shown)
          BY <5>1
        <5> QED
          BY <4>4, <4>6, <5>2
      <4>8. AllShownEqual(shown')
        BY <4>6, <4>7 DEF AllShownEqual
      <4> QED
        BY <4>1, <4>7, <4>8
    <3>2. CASE main.i \notin DOMAIN files
      <4>1. shown' = shown
        BY <2>1, <3>2
      <4> HIDE DEF got
      <4> QED
        BY <1>2, <2>6, <4>1
    <3> QED
      BY <3>1, <3>2
  <2> HIDE DEF got, fin
  <2>8. CASE main.i = MaxFiles
    <3>1. main'.state # "run"
      BY <1>4, <1>10, <2>8 DEF NextFile
    <3> QED
      BY <1>2, <2>1, <2>7, <3>1
  <2>9. CASE main.i # MaxFiles
    <3> DEFINE next == IF main.i + 1 \in DOMAIN files THEN files[main.i + 1] ELSE <<>>
    <3>1. main' = [main EXCEPT !.i = @ + 1, !.lines = next]
      BY <1>10, <2>9 DEF NextFile
    <3> HIDE DEF next
    <3>2. main'.i = main.i + 1 /\ main'.lines = next /\ main'.sets = main.sets
      BY <1>3, <3>1
    <3>3. OnlyLines(next)
      BY <1>2, NoLines DEF next, Alike
    <3>4. main.sets[2] = Second /\ main.sets[1] \in {First, Second}
      <4>1. CASE main.i = 0
        <5>1. PICK k \in 0..Len(InitRun) : Len(main.lines) = Len(InitRun) - k /\ main.sets = Played[k]
          BY <2>2, <4>1 DEF Running, Initial
        <5>2. Len(main.lines) = 0
          BY <2>1
        <5>3. k = Len(InitRun)
          BY <1>5, <5>1, <5>2
        <5> QED
          BY <5>1, <5>3 DEF First, Second
      <4>2. CASE main.i # 0
        BY <2>2, <2>5, <4>2 DEF Running, Later
      <4> QED
        BY <4>1, <4>2
    <3>5. main.i = 0 => main.sets[1] = First
      <4> SUFFICES ASSUME main.i = 0 PROVE main.sets[1] = First
        OBVIOUS
      <4>1. PICK k \in 0..Len(InitRun) : Len(main.lines) = Len(InitRun) - k /\ main.sets = Played[k]
        BY <2>2 DEF Running, Initial
      <4>2. Len(main.lines) = 0
        BY <2>1
      <4>3. k = Len(InitRun)
        BY <1>5, <4>1, <4>2
      <4> QED
        BY <4>1, <4>3 DEF First
    <3>6. Later(main')
      BY <3>2, <3>3, <3>4 DEF Later
    <3>7. ASSUME DOMAIN files # {} PROVE Known(main', files, shown')
      <4>1. HasJoin(next) => Left(files) = Second
        <5>1. HasJoin(next) => next = files[main.i + 1] /\ main.i + 1 \in DOMAIN files
          BY NoLines DEF next
        <5> QED
          BY <5>1 DEF Left
      <4>2. CASE main.i = 0
        <5>1. 1 \in DOMAIN files
          BY <2>3, <3>7, RowsFacts
        <5>2. next = files[1]
          BY <4>2, <5>1 DEF next
        <5>3. Left(files) = First \/ HasJoin(next)
          <6>1. CASE HasJoin(next)
            BY <6>1
          <6>2. CASE ~HasJoin(next)
            <7>1. \A i \in DOMAIN files : ~HasJoin(files[i])
              BY <1>2, <5>1, <5>2, <6>2 DEF Alike
            <7> QED
              BY <7>1 DEF Left
          <6> QED
            BY <6>1, <6>2
        <5>4. Len(shown') = 0 /\ main'.i = 1
          BY <2>2, <2>7, <3>2, <4>2 DEF Running
        <5>5. 1..Len(shown') = {} /\ ~(main'.i > 1)
          BY <5>4
        <5> QED
          BY <3>2, <3>5, <4>1, <4>2, <5>3, <5>5 DEF Known
      <4>3. CASE main.i # 0
        <5>1. main.i > 0
          BY <2>5, <4>3
        <5>2. main.sets[1] = Left(files) /\ \A k \in 1..Len(shown') : shown'[k] = fin
          BY <2>6, <2>7, <3>7, <5>1
        <5> QED
          BY <3>2, <4>1, <5>2 DEF Known, fin
      <4> QED
        BY <4>2, <4>3
    <3>8. main'.i # 0
      BY <2>5, <3>2
    <3>9. Running(main', files', shown')
      BY <2>1, <3>6, <3>7, <3>8 DEF Running
    <3> QED
      BY <1>2, <2>1, <2>7, <3>9
  <2> QED
    BY <2>8, <2>9
<1>11. CASE UNCHANGED replayVars
  <2>1. main' = main /\ record' = record /\ files' = files /\ shown' = shown
    BY <1>11 DEF replayVars
  <2> HIDE DEF Invs
  <2> QED
    BY <1>2, <2>1
<1> QED
  BY <1>6, <1>7, <1>8, <1>9, <1>10, <1>11 DEF ReplayNext

(***************************************************************************)
(* Main plays every file on the sets that the file before it has left:     *)
(* once the first is played no other order of its events shows anything    *)
(* else. Every addition and removal of InitRun reaches the set that it     *)
(* names, and its first set ends with nothing that its second has not.     *)
(***************************************************************************)
THEOREM NothingNewCorrect == InitRunSettles => (Spec => []LaterFilesShowNothingNew)
<1> SUFFICES ASSUME InitRunSettles PROVE Spec => []LaterFilesShowNothingNew
  OBVIOUS
<1>1. Init => ErPiInv /\ ShownInv
  BY Starts, ShownStarts DEF Init
<1>2. (ErPiInv /\ ShownInv) /\ [Next]_vars => (ErPiInv /\ ShownInv)'
  <2> SUFFICES ASSUME ErPiInv, ShownInv, [Next]_vars PROVE ErPiInv' /\ ShownInv'
    OBVIOUS
  <2>1. ErPiInv'
    BY Keeps
  <2>2. [ReplayNext]_replayVars
    BY StepOfOne
  <2>3. ScriptInv
    BY DEF ErPiInv
  <2> QED
    BY <2>1, <2>2, <2>3, ShownKeeps
<1>3. ErPiInv /\ ShownInv => LaterFilesShowNothingNew
  <2> SUFFICES ASSUME ShownInv, NEW i \in DOMAIN shown PROVE shown[i] = shown[1]
    BY DEF LaterFilesShowNothingNew
  <2>1. IsSequence(shown) /\ \A k, l \in 1..Len(shown) : shown[k] = shown[l]
    BY DEF ShownInv, AllShownEqual
  <2>2. DOMAIN shown = 1..Len(shown) /\ Len(shown) \in Nat
    BY <2>1 DEF IsSequence
  <2>3. i \in 1..Len(shown) /\ 1 \in 1..Len(shown)
    BY <2>2
  <2> QED
    BY <2>1, <2>3
<1> QED
  BY <1>1, <1>2, <1>3, PTL DEF Spec
-----------------------------------------------------------------------------
(***************************************************************************)
(* The player of OrbitDB.  After k lines of a file a database has been     *)
(* created if a line says so, and its store holds the entries of Entries.  *)
(***************************************************************************)
SortKey(i) == IF i < 10 THEN 100 * i ELSE 10 * i + 1

LEMMA FiledFacts ==
    /\ Len(Ils) \in Nat /\ DOMAIN Ils = 1..Len(Ils) /\ DOMAIN Filed = DOMAIN Ils
    /\ \A n \in DOMAIN Ils : Filed[n] \in DOMAIN Ils
    /\ \A i \in DOMAIN Ils : \E n \in DOMAIN Ils : Filed[n] = i
<1> DEFINE D == DOMAIN Ils
           m == Len(Ils)
           R == {e \in D \X D : SortKey(e[1]) < SortKey(e[2])}
           rank(i) == Cardinality({j \in D : SortKey(j) < SortKey(i)})
<1>1. m \in Nat /\ D = 1..m
  BY FilesCounted
<1>2. IsFiniteSet(D) /\ Cardinality(D) = m
  <2>1. \A c \in Nat : IsFiniteSet(1..c) /\ Cardinality(1..c) = c
    BY FS_Interval
  <2> HIDE DEF D, m
  <2> QED
    BY <1>1, <2>1
<1>3. Filed = [n \in D |-> CHOOSE i \in D : rank(i) = n - 1]
  BY DEF Filed, SortKey
<1> HIDE DEF D, m
<1>4. \A i \in D : i \in Nat
  BY <1>1
<1>5. /\ \A i \in D : SortKey(i) \in Int
      /\ \A i, j \in D : i # j => SortKey(i) < SortKey(j) \/ SortKey(j) < SortKey(i)
  <2>1. \A i \in D : SortKey(i) \in Int
    BY <1>4 DEF SortKey
  <2>2. \A i, j \in D : i # j => SortKey(i) # SortKey(j)
    <3> SUFFICES ASSUME NEW i \in D, NEW j \in D, i # j PROVE SortKey(i) # SortKey(j)
      OBVIOUS
    <3>1. i \in Nat /\ j \in Nat
      BY <1>4
    <3>2. \A a, b \in Nat : 100 * a # 10 * b + 1 /\ (a # b => 100 * a # 100 * b /\ 10 * a + 1 # 10 * b + 1)
      OBVIOUS
    <3> QED
      BY <3>1, <3>2 DEF SortKey
  <2> QED
    BY <2>1, <2>2
<1>6. Ordered(D, R)
  BY <1>5 DEF Ordered
<1>7. \A i \in D : Cardinality(Below(D, R, i)) = rank(i)
  <2> SUFFICES ASSUME NEW i \in D PROVE Below(D, R, i) = {j \in D : SortKey(j) < SortKey(i)}
    OBVIOUS
  <2> QED
    BY DEF Below
<1> HIDE DEF R, rank
<1>8. \A k \in 1..m : \E i \in D : rank(i) = k - 1
  BY <1>2, <1>6, <1>7, Ranks
<1>9. \A i \in D : rank(i) \in 0..(m - 1)
  BY <1>2, <1>6, <1>7, RankBound
<1>10. \A i, j \in D : i # j => rank(i) # rank(j)
  <2> SUFFICES ASSUME NEW i \in D, NEW j \in D, i # j PROVE rank(i) # rank(j)
    OBVIOUS
  <2>1. <<i, j>> \in R \/ <<j, i>> \in R
    BY <1>6 DEF Ordered
  <2>2. rank(i) < rank(j) \/ rank(j) < rank(i)
    BY <1>2, <1>6, <1>7, <2>1, BelowGrows
  <2>3. rank(i) \in Int /\ rank(j) \in Int
    BY <1>1, <1>9
  <2> QED
    BY <2>2, <2>3
<1>11. \A n \in D : Filed[n] \in D /\ rank(Filed[n]) = n - 1
  BY <1>1, <1>3, <1>8
<1>12. \A i \in D : \E n \in D : Filed[n] = i
  <2> SUFFICES ASSUME NEW i \in D PROVE \E n \in D : Filed[n] = i
    OBVIOUS
  <2>1. rank(i) + 1 \in D /\ (rank(i) + 1) - 1 = rank(i)
    BY <1>1, <1>9
  <2> QED
    BY <1>10, <1>11, <2>1
<1> QED
  BY <1>1, <1>3, <1>11, <1>12 DEF D, m

LEMMA IlsSequences ==
    \A i \in DOMAIN Ils : IsSequence(Ils[i])
<1> SUFFICES ASSUME NEW i \in DOMAIN Ils PROVE IsSequence(Ils[i])
  OBVIOUS
<1> DEFINE row == Rows[i]
           known == Selected(row, DOMAIN Facts)
           f == replaceNumbers(row, Facts)
<1>1. i \in DOMAIN Rows /\ Ils[i] = f
  BY DEF Ils
<1>2. Events \in Nat /\ row \in Permutation(Events)
  BY <1>1, RowsFacts
<1>3. DOMAIN row = 1..Events
  BY <1>2 DEF Permutation
<1>4. \E c \in Nat : DOMAIN known = 1..c
  BY <1>2, <1>3, SelectedElements
<1>5. f = [j \in DOMAIN known |-> Facts[known[j]]]
  BY DEF replaceNumbers
<1> HIDE DEF known, f
<1>6. PICK c \in Nat : DOMAIN known = 1..c
  BY <1>4
<1>7. f = [j \in 1..c |-> f[j]]
  BY <1>5, <1>6
<1>8. IsSequence(f)
  BY <1>7, SequenceOf DEF IsSequence
<1> QED
  BY <1>1, <1>8

\* The lines among the first k that call op on the database id.
Calls(order, k, op, id) ==
    {i \in 1..k : order[i][1] = op /\ order[i][Len(order[i])] = id}

Entries(order, k, id) ==
    {i \in Calls(order, k, "add", id) :
       /\ Calls(order, i - 1, "OrbitDB", id) # {}
       /\ \A h \in Calls(order, k, "OrbitDB", id) : h < i
       /\ \A h \in Calls(order, k, "add", id) : order[h][2] = order[i][2] => h <= i}

Answer(order, j, live) ==
    <<order[j], {<<order[i][2], order[i][3]>> : i \in {a \in live :
                    order[j][1] = "get" => order[a][2] = order[j][2]}}>>

AnswersTo(order, k) ==
    {Answer(order, j, Entries(order, j - 1, order[j][Len(order[j])])) :
       j \in {i \in 1..k : /\ order[i][1] \in {"get", "iterate"}
                           /\ Calls(order, i - 1, "OrbitDB", order[i][Len(order[i])]) # {}}}

StoreOK(order, k, id, s) ==
    /\ DOMAIN s = {order[i][2] : i \in Entries(order, k, id)}
    /\ \A i \in Entries(order, k, id) : s[order[i][2]] = order[i][3]

Databases(order, k, dbs) ==
    /\ dbs = [id \in DOMAIN dbs |-> dbs[id]]
    /\ \A id : id \in DOMAIN dbs <=> Calls(order, k, "OrbitDB", id) # {}
    /\ \A id \in DOMAIN dbs : StoreOK(order, k, id, dbs[id])

LEMMA AnswersAgree ==
    ASSUME NEW order, IsSequence(order)
    PROVE  AnswersTo(order, Len(order)) = Answers(order)
<1> DEFINE id(j) == order[j][Len(order[j])]
<1>1. DOMAIN order = 1..Len(order) /\ Len(order) \in Nat
  BY DEF IsSequence
<1>2. \A j, op : Before(order, j, op) = Calls(order, j - 1, op, id(j))
  BY DEF Before, Calls
<1>3. \A j : Stored(order, j) = Entries(order, j - 1, id(j))
  <2> SUFFICES ASSUME NEW j PROVE Stored(order, j) = Entries(order, j - 1, id(j))
    OBVIOUS
  <2>1. \A i \in Calls(order, j - 1, "add", id(j)) : id(i) = id(j)
    BY DEF Calls
  <2>2. \A i \in Calls(order, j - 1, "add", id(j)) :
           Before(order, i, "OrbitDB") = Calls(order, i - 1, "OrbitDB", id(j))
    BY <1>2, <2>1
  <2>3. /\ Before(order, j, "add") = Calls(order, j - 1, "add", id(j))
        /\ Before(order, j, "OrbitDB") = Calls(order, j - 1, "OrbitDB", id(j))
    BY <1>2
  <2> HIDE DEF id
  <2> QED
    BY <2>2, <2>3, Zenon DEF Stored, Entries
<1> DEFINE reads == {j \in DOMAIN order : order[j][1] \in {"get", "iterate"}
                                             /\ Before(order, j, "OrbitDB") # {}}
<1>4. Answers(order) = {Answer(order, j, Stored(order, j)) : j \in reads}
  BY DEF Answers, Answer
<1>5. reads = {i \in 1..Len(order) : /\ order[i][1] \in {"get", "iterate"}
                                     /\ Calls(order, i - 1, "OrbitDB", id(i)) # {}}
  BY <1>1, <1>2
<1>6. \A j : Answer(order, j, Stored(order, j)) = Answer(order, j, Entries(order, j - 1, id(j)))
  BY <1>3
<1>7. AnswersTo(order, Len(order))
        = {Answer(order, j, Entries(order, j - 1, id(j))) :
             j \in {i \in 1..Len(order) : /\ order[i][1] \in {"get", "iterate"}
                                          /\ Calls(order, i - 1, "OrbitDB", id(i)) # {}}}
  BY DEF AnswersTo
<1> HIDE DEF reads, id
<1> QED
  BY <1>4, <1>5, <1>6, <1>7

Says(line, op, id) == line[1] = op /\ line[Len(line)] = id

LEMMA CallsGrow ==
    ASSUME NEW order, NEW k \in Nat, NEW op, NEW id
    PROVE  Calls(order, k + 1, op, id)
             = IF Says(order[k + 1], op, id) THEN Calls(order, k, op, id) \cup {k + 1}
               ELSE Calls(order, k, op, id)
<1>1. 1..(k + 1) = (1..k) \cup {k + 1}
  OBVIOUS
<1> QED
  BY <1>1 DEF Calls, Says

LEMMA CallsBelow ==
    ASSUME NEW order, NEW k \in Nat, NEW op, NEW id
    PROVE  \A i \in Calls(order, k, op, id) : i \in 1..k /\ i <= k /\ i \in Nat
BY DEF Calls

LEMMA EntriesSame ==
    ASSUME NEW order, NEW k \in Nat, NEW id,
           LET line == order[k + 1]
           IN  line[Len(line)] # id \/ line[1] \notin {"add", "OrbitDB"}
    PROVE  Entries(order, k + 1, id) = Entries(order, k, id)
<1>1. /\ Calls(order, k + 1, "add", id) = Calls(order, k, "add", id)
      /\ Calls(order, k + 1, "OrbitDB", id) = Calls(order, k, "OrbitDB", id)
  <2>1. ~Says(order[k + 1], "add", id) /\ ~Says(order[k + 1], "OrbitDB", id)
    BY DEF Says
  <2> QED
    BY <2>1, CallsGrow
<1> QED
  BY <1>1 DEF Entries

LEMMA EntriesCreated ==
    ASSUME NEW order, NEW k \in Nat, NEW id,
           order[k + 1][1] = "OrbitDB", order[k + 1][Len(order[k + 1])] = id
    PROVE  Entries(order, k + 1, id) = {}
<1>1. k + 1 \in Calls(order, k + 1, "OrbitDB", id)
  BY DEF Calls
<1>2. \A i \in Calls(order, k + 1, "add", id) : ~(k + 1 < i)
  BY CallsBelow
<1> QED
  BY <1>1, <1>2 DEF Entries

LEMMA EntriesAdded ==
    ASSUME NEW order, NEW k \in Nat, NEW id,
           order[k + 1][1] = "add", order[k + 1][Len(order[k + 1])] = id,
           Calls(order, k, "OrbitDB", id) # {}
    PROVE  Entries(order, k + 1, id)
             = {i \in Entries(order, k, id) : order[i][2] # order[k + 1][2]} \cup {k + 1}
<1> DEFINE A == Calls(order, k, "add", id)
           C == Calls(order, k, "OrbitDB", id)
           E == Entries(order, k, id)
           F == Entries(order, k + 1, id)
           x(i) == order[i][2]
<1>1. Calls(order, k + 1, "add", id) = A \cup {k + 1}
  <2>1. Says(order[k + 1], "add", id)
    BY DEF Says
  <2> QED
    BY <2>1, CallsGrow
<1>2. Calls(order, k + 1, "OrbitDB", id) = C
  <2>1. ~Says(order[k + 1], "OrbitDB", id)
    BY DEF Says
  <2> QED
    BY <2>1, CallsGrow
<1>3. \A i \in A \cup C : i \in Nat /\ i <= k
  BY CallsBelow
<1>4. \A i : i \in F <=> /\ i \in A \cup {k + 1}
                         /\ Calls(order, i - 1, "OrbitDB", id) # {}
                         /\ \A h \in C : h < i
                         /\ \A h \in A \cup {k + 1} : x(h) = x(i) => h <= i
  BY <1>1, <1>2 DEF Entries
<1>5. \A i : i \in E <=> /\ i \in A
                         /\ Calls(order, i - 1, "OrbitDB", id) # {}
                         /\ \A h \in C : h < i
                         /\ \A h \in A : x(h) = x(i) => h <= i
  BY DEF Entries
<1>6. (k + 1) - 1 = k /\ C # {} /\ \A i \in A : ~(k + 1 <= i)
  BY <1>3
<1>7. \A h \in A \cup C : h < k + 1 /\ h <= k + 1
  BY <1>3
<1>8. Calls(order, (k + 1) - 1, "OrbitDB", id) # {}
  BY <1>6
<1> HIDE DEF A, C, E, F, x
<1>9. k + 1 \in F
  <2>1. \A h \in A \cup {k + 1} : x(h) = x(k + 1) => h <= k + 1
    BY <1>7
  <2>2. \A h \in C : h < k + 1
    BY <1>7
  <2> QED
    BY <1>4, <1>8, <2>1, <2>2
<1>10. \A i \in A : i \in F <=> i \in E /\ x(i) # x(k + 1)
  BY <1>4, <1>5, <1>6
<1>11. \A i \in F : i \in A \cup {k + 1}
  BY <1>4
<1>12. \A i \in E : i \in A
  BY <1>5
<1>13. F = {i \in E : x(i) # x(k + 1)} \cup {k + 1}
  BY <1>9, <1>10, <1>11, <1>12
<1> QED
  BY <1>13 DEF E, F, x

\* A database is created or gets an entry.
LEMMA StorePut ==
    ASSUME NEW order, NEW k \in Nat, NEW dbs, Databases(order, k, dbs), NEW id,
           id = order[k + 1][Len(order[k + 1])], NEW s, StoreOK(order, k + 1, id, s),
           order[k + 1][1] = "OrbitDB" \/ id \in DOMAIN dbs
    PROVE  Databases(order, k + 1, Put(dbs, id, s))
<1> DEFINE new == Put(dbs, id, s)
<1>1. /\ new = [e \in DOMAIN dbs \cup {id} |-> IF e = id THEN s ELSE dbs[e]]
      /\ DOMAIN new = DOMAIN dbs \cup {id} /\ new[id] = s
      /\ \A e \in DOMAIN dbs : e # id => new[e] = dbs[e]
  BY DEF Put
<1>2. new = [e \in DOMAIN new |-> new[e]]
  BY <1>1
<1> HIDE DEF new
<1>3. \A e : e \in DOMAIN new <=> Calls(order, k + 1, "OrbitDB", e) # {}
  <2> SUFFICES ASSUME NEW e PROVE e \in DOMAIN new <=> Calls(order, k + 1, "OrbitDB", e) # {}
    OBVIOUS
  <2>1. e \in DOMAIN dbs <=> Calls(order, k, "OrbitDB", e) # {}
    BY DEF Databases
  <2>2. /\ order[k + 1][1] = "OrbitDB" /\ id = e
             => Calls(order, k + 1, "OrbitDB", e) = Calls(order, k, "OrbitDB", e) \cup {k + 1}
        /\ ~(order[k + 1][1] = "OrbitDB" /\ id = e)
             => Calls(order, k + 1, "OrbitDB", e) = Calls(order, k, "OrbitDB", e)
    <3>1. Says(order[k + 1], "OrbitDB", e) <=> order[k + 1][1] = "OrbitDB" /\ id = e
      BY DEF Says
    <3> QED
      BY <3>1, CallsGrow
  <2> QED
    BY <1>1, <2>1, <2>2
<1>4. \A e \in DOMAIN new : StoreOK(order, k + 1, e, new[e])
  <2> SUFFICES ASSUME NEW e \in DOMAIN new PROVE StoreOK(order, k + 1, e, new[e])
    OBVIOUS
  <2>1. CASE e = id
    BY <1>1, <2>1
  <2>2. CASE e # id
    <3>1. e \in DOMAIN dbs /\ new[e] = dbs[e]
      BY <1>1, <2>2
    <3>2. StoreOK(order, k, e, dbs[e])
      BY <3>1 DEF Databases
    <3>3. Entries(order, k + 1, e) = Entries(order, k, e)
      BY <2>2, EntriesSame
    <3> QED
      BY <3>1, <3>2, <3>3 DEF StoreOK
  <2> QED
    BY <2>1, <2>2
<1> QED
  BY <1>2, <1>3, <1>4 DEF Databases, new

LEMMA StoreKept ==
    ASSUME NEW order, NEW k \in Nat, NEW dbs, Databases(order, k, dbs),
           LET line == order[k + 1]
           IN  \/ line[1] \notin {"add", "OrbitDB"}
               \/ line[1] # "OrbitDB" /\ line[Len(line)] \notin DOMAIN dbs
    PROVE  Databases(order, k + 1, dbs)
<1>1. \A e : Calls(order, k + 1, "OrbitDB", e) = Calls(order, k, "OrbitDB", e)
  <2> SUFFICES ASSUME NEW e
               PROVE  Calls(order, k + 1, "OrbitDB", e) = Calls(order, k, "OrbitDB", e)
    OBVIOUS
  <2>1. ~Says(order[k + 1], "OrbitDB", e)
    BY DEF Says
  <2> QED
    BY <2>1, CallsGrow
<1>2. \A e \in DOMAIN dbs : Entries(order, k + 1, e) = Entries(order, k, e)
  BY EntriesSame
<1> QED
  BY <1>1, <1>2 DEF Databases, StoreOK

LEMMA StoreCreated ==
    ASSUME NEW order, NEW k \in Nat, NEW id,
           order[k + 1][1] = "OrbitDB", order[k + 1][Len(order[k + 1])] = id
    PROVE  StoreOK(order, k + 1, id, EmptyStore)
<1>1. Entries(order, k + 1, id) = {}
  BY EntriesCreated
<1>2. DOMAIN EmptyStore = {}
  BY DEF EmptyStore
<1> QED
  BY <1>1, <1>2 DEF StoreOK

LEMMA StoreAdded ==
    ASSUME NEW order, NEW k \in Nat, NEW id, NEW s, StoreOK(order, k, id, s),
           order[k + 1][1] = "add", order[k + 1][Len(order[k + 1])] = id,
           Calls(order, k, "OrbitDB", id) # {}
    PROVE  StoreOK(order, k + 1, id, Put(s, order[k + 1][2], order[k + 1][3]))
<1> DEFINE E == Entries(order, k, id)
           F == Entries(order, k + 1, id)
           x(i) == order[i][2]
           y(i) == order[i][3]
           new == Put(s, order[k + 1][2], order[k + 1][3])
<1>1. F = {i \in E : x(i) # x(k + 1)} \cup {k + 1}
  BY EntriesAdded
<1>2. DOMAIN s = {x(i) : i \in E} /\ \A i \in E : s[x(i)] = y(i)
  BY DEF StoreOK
<1>3. new = [e \in DOMAIN s \cup {x(k + 1)} |-> IF e = x(k + 1) THEN y(k + 1) ELSE s[e]]
  BY DEF Put
<1>4. StoreOK(order, k + 1, id, new) <=> DOMAIN new = {x(i) : i \in F} /\ \A i \in F : new[x(i)] = y(i)
  BY DEF StoreOK
<1> HIDE DEF E, F, x, y, new
<1>5. DOMAIN new = {x(i) : i \in F}
  <2>1. DOMAIN new = {x(i) : i \in E} \cup {x(k + 1)}
    BY <1>2, <1>3
  <2>2. ASSUME NEW i \in E PROVE x(i) \in {x(h) : h \in F}
    <3>1. CASE x(i) = x(k + 1)
      BY <1>1, <3>1
    <3>2. CASE x(i) # x(k + 1)
      BY <1>1, <3>2
    <3> QED
      BY <3>1, <3>2
  <2>3. x(k + 1) \in {x(h) : h \in F}
    BY <1>1
  <2>4. ASSUME NEW i \in F PROVE x(i) \in {x(h) : h \in E} \cup {x(k + 1)}
    BY <1>1
  <2> QED
    BY <2>1, <2>2, <2>3, <2>4
<1>6. \A i \in F : new[x(i)] = y(i)
  <2> SUFFICES ASSUME NEW i \in F PROVE new[x(i)] = y(i)
    OBVIOUS
  <2>1. CASE i = k + 1
    BY <1>3, <2>1
  <2>2. CASE i # k + 1
    <3>1. i \in E /\ x(i) # x(k + 1)
      BY <1>1, <2>2
    <3>2. x(i) \in DOMAIN s /\ s[x(i)] = y(i)
      BY <1>2, <3>1
    <3> QED
      BY <1>3, <3>1, <3>2
  <2> QED
    BY <2>1, <2>2
<1> QED
  BY <1>4, <1>5, <1>6 DEF new

LEMMA AnswersToGrow ==
    ASSUME NEW order, NEW k \in Nat
    PROVE  LET line == order[k + 1]
               id == line[Len(line)]
           IN  AnswersTo(order, k + 1)
                 = AnswersTo(order, k)
                     \cup (IF line[1] \in {"get", "iterate"} /\ Calls(order, k, "OrbitDB", id) # {}
                           THEN {Answer(order, k + 1, Entries(order, k, id))} ELSE {})
<1> DEFINE R(j) == /\ order[j][1] \in {"get", "iterate"}
                   /\ Calls(order, j - 1, "OrbitDB", order[j][Len(order[j])]) # {}
           a(j) == Answer(order, j, Entries(order, j - 1, order[j][Len(order[j])]))
<1>1. 1..(k + 1) = (1..k) \cup {k + 1} /\ (k + 1) - 1 = k
  OBVIOUS
<1>2. \A n : AnswersTo(order, n) = {a(j) : j \in {i \in 1..n : R(i)}}
  BY DEF AnswersTo
<1>3. /\ a(k + 1) = Answer(order, k + 1, Entries(order, k, order[k + 1][Len(order[k + 1])]))
      /\ R(k + 1) <=> /\ order[k + 1][1] \in {"get", "iterate"}
                      /\ Calls(order, k, "OrbitDB", order[k + 1][Len(order[k + 1])]) # {}
  BY <1>1
<1> HIDE DEF R, a
<1>4. AnswersTo(order, k + 1) = AnswersTo(order, k) \cup (IF R(k + 1) THEN {a(k + 1)} ELSE {})
  BY <1>1, <1>2
<1> QED
  BY <1>3, <1>4

LEMMA ShownAnswer ==
    ASSUME NEW order, NEW k \in Nat, NEW id, NEW s, StoreOK(order, k, id, s),
           order[k + 1][1] \in {"get", "iterate"}
    PROVE  Answer(order, k + 1, Entries(order, k, id)) = <<order[k + 1], Shows(order[k + 1], s)>>
<1> DEFINE E == Entries(order, k, id)
           line == order[k + 1]
           x(i) == order[i][2]
           y(i) == order[i][3]
           got == {i \in E : line[1] = "get" => x(i) = line[2]}
           keys == (IF line[1] = "get" THEN {line[2]} ELSE DOMAIN s) \cap DOMAIN s
<1>1. DOMAIN s = {x(i) : i \in E} /\ \A i \in E : s[x(i)] = y(i)
  BY DEF StoreOK
<1>2. Answer(order, k + 1, E) = <<line, {<<x(i), y(i)>> : i \in got}>>
  BY DEF Answer
<1>3. Shows(line, s) = {<<e, s[e]>> : e \in keys}
  BY DEF Shows
<1>4. \A e : e \in keys <=> e \in DOMAIN s /\ (line[1] = "get" => e = line[2])
  OBVIOUS
<1>5. \A i : i \in got <=> i \in E /\ (line[1] = "get" => x(i) = line[2])
  OBVIOUS
<1> HIDE DEF E, x, y, keys, got
<1>6. ASSUME NEW i \in got PROVE <<x(i), y(i)>> \in {<<e, s[e]>> : e \in keys}
  <2>1. x(i) \in keys /\ s[x(i)] = y(i)
    BY <1>1, <1>4, <1>5
  <2> QED
    BY <2>1
<1>7. ASSUME NEW e \in keys PROVE <<e, s[e]>> \in {<<x(i), y(i)>> : i \in got}
  <2>1. e \in DOMAIN s
    BY <1>4
  <2>2. PICK i \in E : e = x(i)
    BY <1>1, <2>1
  <2>3. i \in got /\ s[e] = y(i)
    BY <1>1, <1>4, <1>5, <2>2
  <2> QED
    BY <2>2, <2>3
<1>8. {<<x(i), y(i)>> : i \in got} = {<<e, s[e]>> : e \in keys}
  BY <1>6, <1>7
<1> QED
  BY <1>2, <1>3, <1>8 DEF E

AtLine(order, k, ls, dbs, a) ==
    /\ k \in 0..Len(order)
    /\ IsSequence(ls) /\ Len(ls) = Len(order) - k
    /\ \A j \in 1..Len(ls) : ls[j] = order[k + j]
    /\ Databases(order, k, dbs)
    /\ a = AnswersTo(order, k)

Current == Ils[Filed[player.next - 1]]

PlayerInv ==
    /\ \A n \in 1..(player.next - 2) : answers[n] = Answers(Ils[Filed[n]])
    /\ player.next = 1 => player.lines = <<>>
    /\ player.next > 1 =>
         \E k \in 0..Len(Current) :
           AtLine(Current, k, player.lines, player.instances, answers[player.next - 1])

LEMMA FirstLine ==
    ASSUME NEW order, IsSequence(order)
    PROVE  AtLine(order, 0, order, NoDatabases, {})
<1>1. Len(order) \in Nat
  BY DEF IsSequence
<1>2. 0 \in 0..Len(order) /\ Len(order) = Len(order) - 0 /\ \A j \in 1..Len(order) : 0 + j = j
  BY <1>1
<1>3. \A op, id : Calls(order, 0, op, id) = {}
  <2>1. 1..0 = {}
    OBVIOUS
  <2> QED
    BY <2>1 DEF Calls
<1>4. DOMAIN NoDatabases = {} /\ NoDatabases = [id \in DOMAIN NoDatabases |-> NoDatabases[id]]
  BY DEF NoDatabases
<1>5. Databases(order, 0, NoDatabases)
  BY <1>3, <1>4 DEF Databases
<1>6. AnswersTo(order, 0) = {}
  <2>1. 1..0 = {}
    OBVIOUS
  <2> QED
    BY <2>1 DEF AnswersTo
<1> QED
  BY <1>2, <1>5, <1>6 DEF AtLine

LEMMA LastLine ==
    ASSUME NEW order, IsSequence(order), NEW k, NEW dbs, NEW a, AtLine(order, k, <<>>, dbs, a)
    PROVE  a = Answers(order)
<1>1. Len(order) \in Nat
  BY DEF IsSequence
<1>2. k \in 0..Len(order) /\ Len(<<>>) = Len(order) - k /\ a = AnswersTo(order, k)
  BY DEF AtLine
<1>3. Len(<<>>) = 0
  OBVIOUS
<1>4. k = Len(order)
  BY <1>1, <1>2, <1>3
<1> QED
  BY <1>2, <1>4, AnswersAgree

\* A line of the file.
LEMMA OneLine ==
    ASSUME NEW order, IsSequence(order), NEW k, NEW ls, NEW dbs, NEW a,
           AtLine(order, k, ls, dbs, a), ls # <<>>, NEW new, NEW b,
           LET line == Head(ls)
               id == line[Len(line)]
               known == id \in DOMAIN dbs
               store == dbs[id]
           IN  \/ line[1] = "OrbitDB" /\ new = Put(dbs, id, EmptyStore) /\ b = a
               \/ /\ line[1] = "add" /\ known
                  /\ new = Put(dbs, id, Put(store, line[2], line[3])) /\ b = a
               \/ /\ line[1] \in {"get", "iterate"} /\ known
                  /\ new = dbs /\ b = a \cup {<<line, Shows(line, store)>>}
               \/ line[1] # "OrbitDB" /\ ~known /\ new = dbs /\ b = a
    PROVE  AtLine(order, k + 1, Tail(ls), new, b)
<1> DEFINE N == Len(order)
           L == Len(ls)
           t == Tail(ls)
           line == Head(ls)
           id == line[Len(line)]
<1>1. N \in Nat
  BY DEF IsSequence
<1>2. /\ k \in 0..N /\ IsSequence(ls) /\ L = N - k
      /\ \A j \in 1..L : ls[j] = order[k + j]
      /\ Databases(order, k, dbs) /\ a = AnswersTo(order, k)
  BY DEF AtLine
<1>3. /\ L \in Nat /\ L >= 1 /\ line = ls[1]
      /\ IsSequence(t) /\ Len(t) = L - 1
      /\ \A j \in 1..(L - 1) : t[j] = ls[j + 1]
  BY <1>2, StackTail
<1>4. k \in Nat /\ k + 1 \in 0..N
  <2> HIDE DEF N, L, t
  <2>1. k \in 0..N /\ N \in Nat /\ N - k \in Nat /\ N - k >= 1
    BY <1>1, <1>2, <1>3, SMTT(40)
  <2> QED
    BY <2>1
<1>5. line = order[k + 1]
  <2>1. 1 \in 1..L
    BY <1>3
  <2> QED
    BY <1>2, <1>3, <2>1
<1>6. Len(t) = N - (k + 1)
  <2> HIDE DEF N, L, t
  <2> QED
    BY <1>1, <1>2, <1>3
<1>7. \A j \in 1..Len(t) : t[j] = order[(k + 1) + j]
  <2> SUFFICES ASSUME NEW j \in 1..Len(t) PROVE t[j] = order[(k + 1) + j]
    OBVIOUS
  <2>0. j \in 1..(L - 1) /\ L \in Nat
    BY <1>3
  <2> HIDE DEF t, L
  <2>1. j \in 1..(L - 1) /\ j + 1 \in 1..L /\ k + (j + 1) = (k + 1) + j
    <3>1. k \in Nat
      BY <1>4
    <3> QED
      BY <2>0, <3>1, SMTT(40)
  <2> QED
    BY <1>2, <1>3, <2>1
<1>8. id = order[k + 1][Len(order[k + 1])]
  BY <1>5
<1>9. id \in DOMAIN dbs <=> Calls(order, k, "OrbitDB", id) # {}
  BY <1>2 DEF Databases
<1>10. id \in DOMAIN dbs => StoreOK(order, k, id, dbs[id])
  BY <1>2 DEF Databases
<1>11. SUFFICES Databases(order, k + 1, new) /\ b = AnswersTo(order, k + 1)
  <2>1. ASSUME Databases(order, k + 1, new) /\ b = AnswersTo(order, k + 1)
        PROVE  AtLine(order, k + 1, t, new, b)
    BY <1>3, <1>4, <1>6, <1>7, <2>1 DEF AtLine
  <2> QED
    BY <2>1
<1>12. \/ line[1] = "OrbitDB" /\ new = Put(dbs, id, EmptyStore) /\ b = a
       \/ /\ line[1] = "add" /\ id \in DOMAIN dbs
          /\ new = Put(dbs, id, Put(dbs[id], line[2], line[3])) /\ b = a
       \/ /\ line[1] \in {"get", "iterate"} /\ id \in DOMAIN dbs
          /\ new = dbs /\ b = a \cup {<<line, Shows(line, dbs[id])>>}
       \/ line[1] # "OrbitDB" /\ id \notin DOMAIN dbs /\ new = dbs /\ b = a
  OBVIOUS
<1> DEFINE reads == line[1] \in {"get", "iterate"} /\ id \in DOMAIN dbs
<1>13. AnswersTo(order, k + 1)
         = a \cup (IF reads THEN {Answer(order, k + 1, Entries(order, k, id))} ELSE {})
  BY <1>2, <1>4, <1>5, <1>8, <1>9, AnswersToGrow
<1>14. reads => Answer(order, k + 1, Entries(order, k, id)) = <<line, Shows(line, dbs[id])>>
  BY <1>4, <1>5, <1>10, ShownAnswer
<1> HIDE DEF N, L, t, line, id
<1>15. CASE line[1] = "OrbitDB" /\ new = Put(dbs, id, EmptyStore) /\ b = a
  <2>1. StoreOK(order, k + 1, id, EmptyStore)
    BY <1>4, <1>5, <1>8, <1>15, StoreCreated
  <2>2. Databases(order, k + 1, new)
    BY <1>2, <1>4, <1>5, <1>8, <1>15, <2>1, StorePut
  <2>3. ~reads
    BY <1>15
  <2> QED
    BY <1>13, <1>15, <2>2, <2>3
<1>16. CASE /\ line[1] = "add" /\ id \in DOMAIN dbs
            /\ new = Put(dbs, id, Put(dbs[id], line[2], line[3])) /\ b = a
  <2>1. StoreOK(order, k + 1, id, Put(dbs[id], line[2], line[3]))
    BY <1>4, <1>5, <1>8, <1>9, <1>10, <1>16, StoreAdded
  <2>2. Databases(order, k + 1, new)
    BY <1>2, <1>4, <1>5, <1>8, <1>16, <2>1, StorePut
  <2>3. ~reads
    BY <1>16
  <2> QED
    BY <1>13, <1>16, <2>2, <2>3
<1>17. CASE /\ line[1] \in {"get", "iterate"} /\ id \in DOMAIN dbs
            /\ new = dbs /\ b = a \cup {<<line, Shows(line, dbs[id])>>}
  <2>1. Databases(order, k + 1, new)
    BY <1>2, <1>4, <1>5, <1>17, StoreKept
  <2> QED
    BY <1>13, <1>14, <1>17, <2>1
<1>18. CASE line[1] # "OrbitDB" /\ id \notin DOMAIN dbs /\ new = dbs /\ b = a
  <2>1. Databases(order, k + 1, new)
    BY <1>2, <1>4, <1>5, <1>8, <1>18, StoreKept
  <2>2. ~reads
    BY <1>18
  <2> QED
    BY <1>13, <1>18, <2>1, <2>2
<1> QED
  BY <1>12, <1>15, <1>16, <1>17, <1>18

LEMMA PlayerStarts == OrbitInit => PlayerInv
<1> SUFFICES ASSUME OrbitInit PROVE PlayerInv
  OBVIOUS
<1>1. player.next = 1 /\ player.lines = <<>>
  BY DEF OrbitInit
<1>2. 1..(player.next - 2) = {}
  BY <1>1
<1> QED
  BY <1>1, <1>2 DEF PlayerInv

\* When a file is played its answers are those of its order.
LEMMA WholeFile ==
    ASSUME OrbitInv, PlayerInv, player.lines = <<>>
    PROVE  \A n \in 1..(player.next - 1) : answers[n] = Answers(Ils[Filed[n]])
<1>1. player.next \in 1..(Len(Ils) + 1) /\ Len(Ils) \in Nat
  BY FiledFacts DEF OrbitInv
<1>2. CASE player.next = 1
  BY <1>2
<1>3. CASE player.next > 1
  <2> DEFINE p == player.next - 1
  <2>1. p \in DOMAIN Ils
    BY <1>1, <1>3, FiledFacts
  <2>2. IsSequence(Current)
    BY <2>1, FiledFacts, IlsSequences DEF Current
  <2>3. PICK k \in 0..Len(Current) : AtLine(Current, k, <<>>, player.instances, answers[p])
    BY <1>3 DEF PlayerInv
  <2>4. answers[p] = Answers(Current)
    BY <2>2, <2>3, LastLine
  <2>5. \A n \in 1..p : n = p \/ n \in 1..(player.next - 2)
    BY <1>1
  <2> QED
    BY <2>4, <2>5 DEF PlayerInv, Current
<1> QED
  BY <1>1, <1>2, <1>3

LEMMA PlayerKeeps == OrbitInv /\ PlayerInv /\ [OrbitNext]_orbitVars => PlayerInv'
<1> SUFFICES ASSUME OrbitInv, PlayerInv, [OrbitNext]_orbitVars PROVE PlayerInv'
  OBVIOUS
<1> DEFINE File(next) == Ils[Filed[next - 1]]
           OK(next, ls, dbs, as) ==
             /\ \A n \in 1..(next - 2) : as[n] = Answers(Ils[Filed[n]])
             /\ next = 1 => ls = <<>>
             /\ next > 1 => \E k \in 0..Len(File(next)) : AtLine(File(next), k, ls, dbs, as[next - 1])
<1>1. SUFFICES OK(player'.next, player'.lines, player'.instances, answers')
  BY DEF PlayerInv, Current, AtLine, Databases, StoreOK, Entries, Calls, AnswersTo, Answer, IsSequence,
         Answers, Stored, Before, Ils, Filed, Rows
<1>2. OK(player.next, player.lines, player.instances, answers)
  BY DEF PlayerInv, Current
<1>3. /\ player = [next |-> player.next, lines |-> player.lines, instances |-> player.instances]
      /\ player.next \in 1..(Len(Ils) + 1) /\ Len(Ils) \in Nat
      /\ IsSequence(answers) /\ Len(answers) = player.next - 1
  BY FiledFacts DEF OrbitInv
<1>4. CASE Open
  <2>1. /\ player.lines = <<>> /\ player.next \in DOMAIN Ils
        /\ player' = [next |-> player.next + 1, lines |-> Ils[Filed[player.next]],
                      instances |-> NoDatabases]
        /\ answers' = Append(answers, {})
    BY <1>4 DEF Open
  <2> DEFINE p == player.next
             order == Ils[Filed[p]]
  <2>2. player'.next = p + 1 /\ player'.lines = order /\ player'.instances = NoDatabases
    BY <2>1
  <2>3. \A n \in 1..(p - 1) : answers[n] = Answers(Ils[Filed[n]])
    BY <2>1, WholeFile
  <2>4. IsSequence(order)
    BY <2>1, FiledFacts, IlsSequences
  <2>5. /\ Len(answers) + 1 = p
        /\ \A j \in 1..p : answers'[j] = IF j = p THEN {} ELSE answers[j]
    <3>1. \A j \in 1..(Len(answers) + 1) : answers'[j] = IF j = Len(answers) + 1 THEN {} ELSE answers[j]
      BY <1>3, <2>1, LongerSequence
    <3>2. Len(answers) + 1 = p
      BY <1>3
    <3> QED
      BY <3>1, <3>2
  <2>6. AtLine(order, 0, order, NoDatabases, {}) /\ 0 \in 0..Len(order)
    BY <2>4, FirstLine DEF AtLine
  <2>7. p \in Nat /\ p >= 1 /\ (p + 1) - 1 = p /\ (p + 1) - 2 = p - 1 /\ p \in 1..p
    BY <1>3
  <2>8. File(p + 1) = order
    BY <2>7
  <2> HIDE DEF p, order, File
  <2>9. answers'[p] = {}
    BY <2>5, <2>7
  <2>10. \A n \in 1..(p - 1) : answers'[n] = Answers(Ils[Filed[n]])
    <3>1. \A n \in 1..(p - 1) : n \in 1..p /\ n # p
      BY <2>7
    <3> QED
      BY <2>3, <2>5, <3>1
  <2>11. \E k \in 0..Len(File(p + 1)) : AtLine(File(p + 1), k, order, NoDatabases, answers'[(p + 1) - 1])
    BY <2>6, <2>7, <2>8, <2>9
  <2>12. p + 1 # 1
    BY <2>7
  <2> QED
    BY <2>2, <2>7, <2>10, <2>11, <2>12
<1>5. CASE Command
  <2> DEFINE line == Head(player.lines)
             id == line[Len(line)]
             known == id \in DOMAIN player.instances
             store == player.instances[id]
             p == player.next
             a == answers[Len(answers)]
  <2>1. /\ player.lines # <<>>
        /\ \/ /\ line[1] = "OrbitDB"
              /\ player' = [player EXCEPT !.lines = Tail(@), !.instances = Put(@, id, EmptyStore)]
              /\ answers' = answers
           \/ /\ line[1] = "add" /\ known
              /\ player' = [player EXCEPT !.lines = Tail(@),
                               !.instances = Put(@, id, Put(store, line[2], line[3]))]
              /\ answers' = answers
           \/ /\ line[1] \in {"get", "iterate"} /\ known
              /\ player' = [player EXCEPT !.lines = Tail(@)]
              /\ answers' = [answers EXCEPT ![Len(answers)] = a \cup {<<line, Shows(line, store)>>}]
           \/ /\ line[1] # "OrbitDB" /\ ~known
              /\ player' = [player EXCEPT !.lines = Tail(@)]
              /\ answers' = answers
    BY <1>5 DEF Command
  <2>2. p > 1 /\ p - 1 = Len(answers) /\ p \in Nat
    BY <1>2, <1>3, <2>1
  <2>3. IsSequence(File(p))
    <3>1. p - 1 \in DOMAIN Ils
      BY <1>3, <2>2, FiledFacts
    <3> QED
      BY <3>1, FiledFacts, IlsSequences
  <2>4. PICK k \in 0..Len(File(p)) : AtLine(File(p), k, player.lines, player.instances, a)
    BY <1>2, <2>2
  <2> DEFINE b == answers'[p - 1]
  <2>5. DOMAIN answers = 1..(p - 1) /\ p - 1 \in 1..(p - 1)
    BY <1>3, <2>2 DEF IsSequence
  <2>6. /\ player'.next = p /\ player'.lines = Tail(player.lines)
        /\ \/ line[1] = "OrbitDB" /\ player'.instances = Put(player.instances, id, EmptyStore) /\ b = a
           \/ /\ line[1] = "add" /\ known
              /\ player'.instances = Put(player.instances, id, Put(store, line[2], line[3])) /\ b = a
           \/ /\ line[1] \in {"get", "iterate"} /\ known
              /\ player'.instances = player.instances /\ b = a \cup {<<line, Shows(line, store)>>}
           \/ line[1] # "OrbitDB" /\ ~known /\ player'.instances = player.instances /\ b = a
        /\ \A n \in 1..(p - 2) : answers'[n] = answers[n]
    <3> HIDE DEF line, id, known, store
    <3>1. \A n \in 1..(p - 2) : n # p - 1
      BY <2>2
    <3>2. CASE line[1] = "OrbitDB" /\ answers' = answers
               /\ player' = [player EXCEPT !.lines = Tail(@), !.instances = Put(@, id, EmptyStore)]
      <4>1. player'.next = p /\ player'.lines = Tail(player.lines)
            /\ player'.instances = Put(player.instances, id, EmptyStore)
        BY <1>3, <3>2
      <4> QED
        BY <2>2, <3>2, <4>1
    <3>3. CASE /\ line[1] = "add" /\ known /\ answers' = answers
               /\ player' = [player EXCEPT !.lines = Tail(@),
                                !.instances = Put(@, id, Put(store, line[2], line[3]))]
      <4>1. player'.next = p /\ player'.lines = Tail(player.lines)
            /\ player'.instances = Put(player.instances, id, Put(store, line[2], line[3]))
        BY <1>3, <3>3
      <4> QED
        BY <2>2, <3>3, <4>1
    <3>4. CASE /\ line[1] \in {"get", "iterate"} /\ known
               /\ player' = [player EXCEPT !.lines = Tail(@)]
               /\ answers' = [answers EXCEPT ![Len(answers)] = a \cup {<<line, Shows(line, store)>>}]
      <4>1. player'.next = p /\ player'.lines = Tail(player.lines) /\ player'.instances = player.instances
        BY <1>3, <3>4
      <4>2. b = a \cup {<<line, Shows(line, store)>>} /\ \A n \in 1..(p - 2) : answers'[n] = answers[n]
        BY <2>2, <2>5, <3>1, <3>4
      <4> QED
        BY <3>4, <4>1, <4>2
    <3>5. CASE /\ line[1] # "OrbitDB" /\ ~known /\ answers' = answers
               /\ player' = [player EXCEPT !.lines = Tail(@)]
      <4>1. player'.next = p /\ player'.lines = Tail(player.lines) /\ player'.instances = player.instances
        BY <1>3, <3>5
      <4> QED
        BY <2>2, <3>5, <4>1
    <3> QED
      BY <2>1, <3>2, <3>3, <3>4, <3>5
  <2>7. AtLine(File(p), k + 1, Tail(player.lines), player'.instances, b)
    <3>1. \/ line[1] = "OrbitDB" /\ player'.instances = Put(player.instances, id, EmptyStore) /\ b = a
          \/ /\ line[1] = "add" /\ known
             /\ player'.instances = Put(player.instances, id, Put(store, line[2], line[3])) /\ b = a
          \/ /\ line[1] \in {"get", "iterate"} /\ known
             /\ player'.instances = player.instances /\ b = a \cup {<<line, Shows(line, store)>>}
          \/ line[1] # "OrbitDB" /\ ~known /\ player'.instances = player.instances /\ b = a
      BY <2>6
    <3> HIDE DEF b, a, File
    <3> QED
      BY <2>1, <2>3, <2>4, <3>1, OneLine
  <2>8. k + 1 \in 0..Len(File(p))
    BY <2>7 DEF AtLine
  <2> HIDE DEF File
  <2> QED
    BY <1>2, <2>2, <2>6, <2>7, <2>8
<1>6. CASE UNCHANGED orbitVars
  <2>1. player' = player /\ answers' = answers
    BY <1>6 DEF orbitVars
  <2> HIDE DEF OK
  <2> QED
    BY <1>2, <2>1
<1> QED
  BY <1>4, <1>5, <1>6 DEF OrbitNext

LEMMA PlayedFiles ==
    ASSUME OrbitInv, PlayerInv, player.lines = <<>>
    PROVE  /\ PlayerShowsItsFile
           /\ Len(answers) = Len(Ils) =>
                {answers[n] : n \in DOMAIN answers} = {Answers(Ils[i]) : i \in DOMAIN Ils}
<1>1. DOMAIN answers = 1..Len(answers) /\ Len(answers) = player.next - 1
  BY DEF OrbitInv, IsSequence
<1>2. \A n \in DOMAIN answers : answers[n] = Answers(Ils[Filed[n]])
  BY <1>1, WholeFile
<1>3. ASSUME Len(answers) = Len(Ils)
      PROVE  {answers[n] : n \in DOMAIN answers} = {Answers(Ils[i]) : i \in DOMAIN Ils}
  <2>1. /\ DOMAIN answers = DOMAIN Ils
        /\ \A n \in DOMAIN Ils : Filed[n] \in DOMAIN Ils
        /\ \A i \in DOMAIN Ils : \E n \in DOMAIN Ils : Filed[n] = i
    BY <1>1, <1>3, FiledFacts
  <2>2. ASSUME NEW n \in DOMAIN answers PROVE answers[n] \in {Answers(Ils[i]) : i \in DOMAIN Ils}
    BY <1>2, <2>1
  <2>3. ASSUME NEW i \in DOMAIN Ils PROVE Answers(Ils[i]) \in {answers[n] : n \in DOMAIN answers}
    <3>1. PICK n \in DOMAIN answers : Filed[n] = i
      BY <2>1
    <3> QED
      BY <1>2, <3>1
  <2> QED
    BY <2>2, <2>3
<1> QED
  BY <1>2, <1>3 DEF PlayerShowsItsFile

LEMMA PlayerInvariant == Spec => [](ErPiInv /\ PlayerInv)
<1>1. Init => ErPiInv /\ PlayerInv
  BY Starts, PlayerStarts DEF Init
<1>2. (ErPiInv /\ PlayerInv) /\ [Next]_vars => (ErPiInv /\ PlayerInv)'
  <2> SUFFICES ASSUME ErPiInv, PlayerInv, [Next]_vars PROVE ErPiInv' /\ PlayerInv'
    OBVIOUS
  <2>1. ErPiInv'
    BY Keeps
  <2>2. [OrbitNext]_orbitVars
    BY StepOfOne
  <2>3. OrbitInv
    BY DEF ErPiInv
  <2> QED
    BY <2>1, <2>2, <2>3, PlayerKeeps
<1> QED
  BY <1>1, <1>2, PTL DEF Spec

(***************************************************************************)
(* Between two files, what the player of OrbitDB has shown of each file is *)
(* decided by the order of the calls in that file alone: nothing leaks     *)
(* from one file into the next.                                            *)
(***************************************************************************)
THEOREM PlayerCorrect == Spec => [](player.lines = <<>> => PlayerShowsItsFile)
<1>1. ErPiInv /\ PlayerInv => (player.lines = <<>> => PlayerShowsItsFile)
  BY PlayedFiles DEF ErPiInv
<1> QED
  BY <1>1, PlayerInvariant, PTL

(***************************************************************************)
(* So the player's answers to the files that the rule keeps are those that *)
(* any order can show but one read, once the answers of those orders are:  *)
(* a fact of the constants, which TLC evaluates.                           *)
(***************************************************************************)
THEOREM PrunedOrdersCorrect == RuleKeepsAnswers => (Spec => []WhatPrunedOrdersShow)
<1> SUFFICES ASSUME RuleKeepsAnswers PROVE Spec => []WhatPrunedOrdersShow
  OBVIOUS
<1>1. ErPiInv /\ PlayerInv => WhatPrunedOrdersShow
  BY PlayedFiles DEF ErPiInv, WhatPrunedOrdersShow, RuleKeepsAnswers
<1> QED
  BY <1>1, PlayerInvariant, PTL
-----------------------------------------------------------------------------
(***************************************************************************)
(* The pruning programs.                                                   *)
(***************************************************************************)
Once(s) == \A i, j \in DOMAIN s : i # j => s[i] # s[j]

Place(e, il) == CHOOSE i \in DOMAIN il : il[i] = e

InOrder(es, il) == \A i \in 1..(Len(es) - 1) : Place(es[i], il) < Place(es[i + 1], il)

LEMMA IntSequence ==
    ASSUME NEW s \in Seq(Int)
    PROVE  /\ Len(s) \in Nat /\ DOMAIN s = 1..Len(s) /\ IsSequence(s)
           /\ \A i \in DOMAIN s : s[i] \in Elements(s)
<1>1. IsSequence(s)
  BY SequenceFacts
<1> QED
  BY <1>1 DEF IsSequence, Elements

LEMMA InterleavingFacts ==
    ASSUME DistinctInputs
    PROVE  /\ Interleavings \in Seq(Seq(Int)) /\ DOMAIN Interleavings = 1..Len(Interleavings)
           /\ Len(Interleavings) \in Nat
           /\ \A il \in Elements(Interleavings) : il \in Seq(Int) /\ Once(il)
           /\ \A il, k \in Elements(Interleavings) : Elements(il) = Elements(k)
<1>1. Interleavings \in Seq(Seq(Int))
  BY PruningAssumption
<1>2. DOMAIN Interleavings = 1..Len(Interleavings) /\ Len(Interleavings) \in Nat
  BY <1>1
<1>3. \A i \in DOMAIN Interleavings : Interleavings[i] \in Seq(Int)
  BY <1>1, <1>2
<1>4. \A il, k \in Elements(Interleavings) : Once(il) /\ Elements(il) = Elements(k)
  BY DEF DistinctInputs, Once
<1> QED
  BY <1>1, <1>2, <1>3, <1>4 DEF Elements

LEMMA InputFacts ==
    ASSUME DistinctInputs, NEW in \in Inputs
    PROVE  /\ in.events \in Seq(Int) /\ in.successors \in Seq(Int) /\ Once(in.events)
           /\ in.algorithm \in {"group", "independence", "failed", "replica",
                                "emulated group", "emulated replica"}
<1>1. in \in Input
  BY PruningAssumption
<1> QED
  BY <1>1 DEF Input, DistinctInputs, Once

\* Where an event is.
LEMMA PlaceOf ==
    ASSUME NEW il \in Seq(Int), Once(il), NEW e \in Elements(il)
    PROVE  /\ Place(e, il) \in DOMAIN il /\ il[Place(e, il)] = e /\ Place(e, il) \in Nat
           /\ \A i \in DOMAIN il : il[i] = e => i = Place(e, il)
<1>1. \E i \in DOMAIN il : il[i] = e
  BY DEF Elements
<1>2. Place(e, il) \in DOMAIN il /\ il[Place(e, il)] = e
  BY <1>1 DEF Place
<1>3. DOMAIN il = 1..Len(il) /\ Len(il) \in Nat
  OBVIOUS
<1> QED
  BY <1>2, <1>3 DEF Once

\* find_event_indices of events that are all there.
LEMMA FoundPlaces ==
    ASSUME NEW es \in Seq(Int), NEW il \in Seq(Int), Once(il), Elements(es) \subseteq Elements(il)
    PROVE  LET f == find_event_indices(es, il)
           IN  /\ DOMAIN f = 1..Len(es) /\ Len(f) = Len(es)
               /\ \A j \in 1..Len(es) : f[j] = Place(es[j], il) /\ f[j] \in Nat
               /\ f = <<>> <=> Len(es) = 0
<1> DEFINE f == find_event_indices(es, il)
           n == Len(es)
           found == Selected(es, Elements(il))
<1>1. n \in Nat /\ DOMAIN es = 1..n /\ \A j \in 1..n : es[j] \in Elements(il)
  BY IntSequence
<1>2. DOMAIN found = 1..n /\ \A j \in 1..n : found[j] = es[j]
  BY <1>1, SelectedAll
<1>3. f = [j \in DOMAIN found |-> CHOOSE i \in DOMAIN il :
                                     il[i] = found[j] /\ \A h \in 1..(i - 1) : il[h] # found[j]]
  BY DEF find_event_indices
<1> HIDE DEF found, f, n
<1>4. \A j \in 1..n : f[j] = Place(es[j], il) /\ f[j] \in Nat
  <2> SUFFICES ASSUME NEW j \in 1..n PROVE f[j] = Place(es[j], il) /\ f[j] \in Nat
    OBVIOUS
  <2> DEFINE e == es[j]
             p == Place(e, il)
  <2>1. f[j] = CHOOSE i \in DOMAIN il : il[i] = e /\ \A h \in 1..(i - 1) : il[h] # e
    BY <1>2, <1>3, ZenonT(40)
  <2>2. e \in Elements(il)
    BY <1>1
  <2> HIDE DEF e
  <2>3. /\ p \in DOMAIN il /\ il[p] = e /\ p \in Nat
        /\ \A i \in DOMAIN il : il[i] = e => i = p
    BY <2>2, PlaceOf
  <2> HIDE DEF p
  <2>4. DOMAIN il = 1..Len(il) /\ Len(il) \in Nat
    OBVIOUS
  <2>5. \A h \in 1..(p - 1) : h \in DOMAIN il /\ h # p
    BY <2>3, <2>4
  <2>6. \A h \in 1..(p - 1) : il[h] # e
    BY <2>3, <2>5
  <2>7. f[j] = p
    BY <2>1, <2>3, <2>6
  <2> QED
    BY <2>3, <2>7 DEF e, p
<1>5. f = [j \in 1..n |-> f[j]] /\ DOMAIN f = 1..n
  BY <1>2, <1>3
<1>6. Len(f) = n
  BY <1>1, <1>5, SequenceOf
<1>7. f = <<>> <=> n = 0
  <2>1. IsSequence(f)
    BY <1>1, <1>5, <1>6 DEF IsSequence
  <2> QED
    BY <1>6, <2>1, StackEmpty
<1> QED
  BY <1>4, <1>5, <1>6, <1>7 DEF f, n

LEMMA Increasing ==
    ASSUME NEW n \in Nat, NEW f, \A j \in 1..n : f[j] \in Nat,
           \A j \in 1..(n - 1) : f[j] < f[j + 1]
    PROVE  \A j \in 1..n : f[j] <= f[n]
<1> DEFINE Bad == {k \in Nat : k < n /\ ~(f[n - k] <= f[n])}
<1>1. SUFFICES ASSUME Bad # {} PROVE FALSE
  <2> SUFFICES ASSUME Bad = {}, NEW j \in 1..n PROVE f[j] <= f[n]
    BY <1>1
  <2>1. n - j \in Nat /\ n - j < n /\ n - (n - j) = j
    OBVIOUS
  <2> QED
    BY <2>1
<1>2. PICK k \in Bad : \A j \in Bad : k <= j
  <2>1. Bad \subseteq Nat
    OBVIOUS
  <2> HIDE DEF Bad
  <2> QED
    BY <1>1, <2>1, LeastNatural
<1>3. k \in Nat /\ k < n /\ ~(f[n - k] <= f[n])
  BY <1>2
<1>4. k # 0
  <2>1. n - 0 = n /\ n \in 1..n
    BY <1>3
  <2> QED
    BY <1>3, <2>1
<1>5. k - 1 \in Nat /\ k - 1 < n /\ k - 1 \notin Bad
  BY <1>2, <1>3, <1>4
<1>6. f[n - (k - 1)] <= f[n]
  BY <1>5
<1>7. n - k \in 1..(n - 1) /\ (n - k) + 1 = n - (k - 1) /\ n - k \in 1..n /\ n - (k - 1) \in 1..n /\ n \in 1..n
  BY <1>3, <1>4
<1>8. f[n - k] < f[n - (k - 1)]
  BY <1>7
<1>9. f[n - k] \in Nat /\ f[n - (k - 1)] \in Nat /\ f[n] \in Nat
  BY <1>7
<1> QED
  BY <1>3, <1>6, <1>8, <1>9

\* valid of failed_ops.cpp.
LEMMA ValidFacts ==
    ASSUME NEW ps \in Seq(Int), NEW ss \in Seq(Int), Len(ps) = Len(ss), Len(ps) > 0,
           NEW il \in Seq(Int), Once(il),
           Elements(ps) \cup Elements(ss) \subseteq Elements(il)
    PROVE  LET ok == InOrder(ps, il) /\ InOrder(ss, il)
                       /\ Place(ps[Len(ps)], il) < Place(ss[Len(ss)], il)
           IN  Valid(ps, ss, il) = IF ok THEN {TRUE} ELSE {FALSE}
<1> DEFINE n == Len(ps)
           p == find_event_indices(ps, il)
           s == find_event_indices(ss, il)
           past(i) == i + 1 > Len(s)
           apart(i) == p[i] < p[i + 1] /\ (past(i) \/ s[i] < s[i + 1])
           followed == \A i \in DOMAIN p : \E j \in DOMAIN s : p[i] < s[j]
           ordered == \A i \in 1..(Len(p) - 1) : apart(i)
<1>1. n \in Nat /\ n >= 1 /\ Len(ss) = n
  OBVIOUS
<1>2. /\ DOMAIN p = 1..n /\ Len(p) = n
      /\ \A j \in 1..n : p[j] = Place(ps[j], il) /\ p[j] \in Nat
  BY FoundPlaces
<1>3. /\ DOMAIN s = 1..Len(ss) /\ Len(s) = Len(ss)
      /\ \A j \in 1..Len(ss) : s[j] = Place(ss[j], il) /\ s[j] \in Nat
  BY FoundPlaces
<1>4. Valid(ps, ss, il) = IF ~followed \/ ~ordered THEN {FALSE}
                          ELSE IF \E i \in 1..(Len(p) - 1) : past(i) THEN BOOLEAN ELSE {TRUE}
  BY DEF Valid
<1> HIDE DEF p, s
<1>5. DOMAIN s = 1..n /\ Len(s) = n /\ \A j \in 1..n : s[j] = Place(ss[j], il) /\ s[j] \in Nat
  BY <1>1, <1>3
<1> HIDE DEF n
<1>6. \A i \in 1..(n - 1) : ~past(i) /\ i \in 1..n /\ i + 1 \in 1..n
  BY <1>1, <1>5
<1>7. ordered <=> (\A i \in 1..(n - 1) : p[i] < p[i + 1]) /\ (\A i \in 1..(n - 1) : s[i] < s[i + 1])
  BY <1>2, <1>6
<1>8. InOrder(ps, il) <=> \A i \in 1..(n - 1) : p[i] < p[i + 1]
  <2>1. \A i \in 1..(n - 1) : p[i] = Place(ps[i], il) /\ p[i + 1] = Place(ps[i + 1], il)
    BY <1>2, <1>6
  <2>2. InOrder(ps, il) <=> \A i \in 1..(n - 1) : Place(ps[i], il) < Place(ps[i + 1], il)
    BY DEF InOrder, n
  <2> QED
    BY <2>1, <2>2
<1>9. InOrder(ss, il) <=> \A i \in 1..(n - 1) : s[i] < s[i + 1]
  <2>1. \A i \in 1..(n - 1) : s[i] = Place(ss[i], il) /\ s[i + 1] = Place(ss[i + 1], il)
    BY <1>5, <1>6
  <2>2. InOrder(ss, il) <=> \A i \in 1..(n - 1) : Place(ss[i], il) < Place(ss[i + 1], il)
    BY <1>1 DEF InOrder
  <2> QED
    BY <2>1, <2>2
<1> HIDE DEF past
<1>10. n \in 1..n
  BY <1>1
<1>11. ordered => (followed <=> p[n] < s[n])
  <2> SUFFICES ASSUME ordered PROVE followed <=> p[n] < s[n]
    OBVIOUS
  <2>1. \A j \in 1..n : p[j] <= p[n]
    <3>1. \A i \in 1..(n - 1) : p[i] < p[i + 1]
      BY <1>7
    <3> QED
      BY <1>1, <1>2, <3>1, Increasing
  <2>2. \A j \in 1..n : s[j] <= s[n]
    <3>1. \A i \in 1..(n - 1) : s[i] < s[i + 1]
      BY <1>7
    <3> QED
      BY <1>1, <1>5, <3>1, Increasing
  <2>3. ASSUME followed PROVE p[n] < s[n]
    <3>1. PICK j \in 1..n : p[n] < s[j]
      BY <1>2, <1>5, <1>10, <2>3
    <3> QED
      BY <1>2, <1>5, <1>10, <2>2, <3>1
  <2>4. ASSUME p[n] < s[n] PROVE followed
    <3>1. \A i \in 1..n : p[i] < s[n]
      BY <1>2, <1>5, <1>10, <2>1, <2>4
    <3> QED
      BY <1>2, <1>5, <1>10, <3>1
  <2> QED
    BY <2>3, <2>4
<1>12. p[n] = Place(ps[Len(ps)], il) /\ s[n] = Place(ss[Len(ss)], il)
  BY <1>1, <1>2, <1>5, <1>10 DEF n
<1>13. ~\E i \in 1..(Len(p) - 1) : past(i)
  BY <1>2, <1>6
<1> HIDE DEF ordered, followed
<1> QED
  BY <1>4, <1>7, <1>8, <1>9, <1>11, <1>12, <1>13

\* A program has not ended, or ended as Results says.
PruneInv == input \in Inputs /\ (output.state = "none" \/ output \in Results)

LEMMA PruneStarts == Init => PruneInv
<1> SUFFICES ASSUME Init PROVE PruneInv
  OBVIOUS
<1> QED
  BY DEF Init, PruningInit, PruneInv

\* The variables of the pruning programs change by Prune only.
LEMMA PruneSteps ==
    ASSUME [Next]_vars
    PROVE  [Prune]_pruningVars
<1>1. CASE Next
  BY <1>1 DEF Next
<1>2. CASE UNCHANGED vars
  BY <1>2 DEF vars
<1> QED
  BY <1>1, <1>2

LEMMA PruneKeeps == PruneInv /\ [Next]_vars => PruneInv'
<1> SUFFICES ASSUME PruneInv, [Next]_vars PROVE PruneInv'
  OBVIOUS
<1>1. [Prune]_pruningVars
  BY PruneSteps
<1>2. input' = input /\ (UNCHANGED output \/ output' \in Results)
  BY <1>1 DEF Prune, pruningVars
<1>3. Results' = Results
  BY <1>2 DEF Results
<1> QED
  BY <1>2, <1>3 DEF PruneInv

\* What ended is of the input, and its interleavings are what the program wrote.
LEMMA Ended ==
    ASSUME PruneInv, output.state = "written"
    PROVE  /\ input \in Inputs /\ output \in Results /\ output # Crash
           /\ \A ils : output = Written(ils) => output.ils = ils
<1>1. output.state # "none" /\ output # Crash
  BY DEF Crash
<1>2. \A ils : Written(ils).ils = ils
  BY DEF Written
<1> QED
  BY <1>1, <1>2 DEF PruneInv

LEMMA WrittenOne ==
    ASSUME NEW a, NEW b
    PROVE  /\ Written(a) = Written(b) => a = b
           /\ Written(a).ils = a /\ Written(a).state = "written" /\ Written(a) # Crash
<1>1. Written(a).ils = a /\ Written(b).ils = b /\ Written(a).state = "written"
  BY DEF Written
<1>2. Crash.state = "crashed"
  BY DEF Crash
<1> QED
  BY <1>1, <1>2

LEMMA GroupKept ==
    ASSUME PruneInv, output.state = "written", input.algorithm = "group"
    PROVE  \A il \in output.ils : Len(il) = 1
<1>1. output \in {Written(permute(input.events))}
  BY Ended DEF Results
<1>2. output.ils = permute(input.events)
  BY <1>1, Ended
<1> QED
  BY <1>2 DEF permute

LEMMA ReplicaKept ==
    ASSUME DistinctInputs, PruneInv, output.state = "written", input.algorithm = "replica"
    PROVE  output.ils = {}
<1> DEFINE es == Elements(input.events)
           lines == Interleavings
           idx(n) == index_in_interleaving(es, lines[n])
           first == {n \in DOMAIN lines : \A h \in 1..(n - 1) : idx(h) # idx(n)}
           grouped == {events_after_indices(lines[n], idx(n)) : n \in first}
<1>1. output \in {Written(ReplicaSpecific(lines, es))}
  BY Ended DEF Results
<1>2. output.ils = ReplicaSpecific(lines, es)
  BY <1>1, Ended
<1>3. output.ils = {il \in Elements(lines) : \A g \in grouped : ~containsAll(il, g)}
  BY <1>2 DEF ReplicaSpecific
<1> SUFFICES ASSUME NEW il \in Elements(lines), \A g \in grouped : ~containsAll(il, g) PROVE FALSE
  BY <1>3
<1>4. DOMAIN lines = 1..Len(lines) /\ Len(lines) \in Nat
  BY InterleavingFacts
<1>5. 1 \in DOMAIN lines
  BY <1>4 DEF Elements
<1>6. 1 \in first
  BY <1>5
<1> DEFINE g1 == events_after_indices(lines[1], idx(1))
<1>7. g1 \in grouped
  BY <1>6
<1> HIDE DEF idx, first, grouped
<1>8. g1 \subseteq Elements(lines[1])
  BY DEF events_after_indices, Elements
<1>9. lines[1] \in Elements(lines)
  BY <1>5 DEF Elements
<1>10. Elements(lines[1]) = Elements(il)
  BY <1>9, InterleavingFacts
<1>11. containsAll(il, g1)
  BY <1>8, <1>10 DEF containsAll
<1> QED
  BY <1>7, <1>11

LEMMA IndependenceKept ==
    ASSUME DistinctInputs, PruneInv, output.state = "written", input.algorithm = "independence"
    PROVE  output.ils = IF Len(input.events) > 1 THEN Elements(Interleavings) ELSE {}
<1> DEFINE ps == input.events
           es == Elements(ps)
           ils == Elements(Interleavings)
           at(il) == independent_events_indices(es, il)
           all(il) == all_independent(es, il)
<1>1. output \in {Independence(ils, es)} /\ output # Crash
  BY Ended DEF Results
<1>2. /\ \A il \in ils : at(il) # {}
      /\ output = Written({il \in ils : ~all(il)})
  BY <1>1 DEF Independence
<1>3. output.ils = {il \in ils : ~all(il)}
  BY <1>2, Ended
<1>4. ps \in Seq(Int) /\ Once(ps)
  BY Ended, InputFacts
<1>5. DOMAIN ps = 1..Len(ps) /\ Len(ps) \in Nat /\ \A i \in DOMAIN ps : ps[i] \in es
  BY <1>4, IntSequence
<1>6. ASSUME NEW il \in ils
      PROVE  /\ il \in Seq(Int) /\ Once(il) /\ DOMAIN il = 1..Len(il) /\ Len(il) \in Nat
             /\ at(il) # {} /\ at(il) = {i \in DOMAIN il : il[i] \in es}
             /\ all(il) <=> \A i \in DOMAIN il :
                  (\E a, b \in at(il) : a <= i /\ i <= b) => \A e \in es : il[i] = e
  <2>1. il \in Seq(Int) /\ Once(il)
    BY InterleavingFacts
  <2> QED
    BY <1>2, <2>1, IntSequence DEF independent_events_indices, all_independent
<1> HIDE DEF at, all
<1>7. CASE Len(ps) > 1
  <2>1. ps[1] \in es /\ ps[2] \in es /\ ps[1] # ps[2]
    <3>1. 1 \in DOMAIN ps /\ 2 \in DOMAIN ps
      BY <1>5, <1>7
    <3> QED
      BY <1>4, <1>5, <3>1 DEF Once
  <2>2. ASSUME NEW il \in ils PROVE ~all(il)
    <3>1. PICK a \in at(il) : TRUE
      BY <1>6
    <3>2. a \in DOMAIN il /\ a <= a
      BY <1>6
    <3> QED
      BY <1>6, <2>1, <3>1, <3>2
  <2> QED
    BY <1>3, <1>7, <2>2
<1>8. CASE ~(Len(ps) > 1)
  <2>1. ASSUME NEW il \in ils PROVE all(il)
    <3>1. PICK a \in at(il) : TRUE
      BY <1>6
    <3>2. il[a] \in es /\ a \in DOMAIN il
      BY <1>6
    <3>3. PICK k \in DOMAIN ps : ps[k] = il[a]
      BY <3>2 DEF Elements
    <3>4. DOMAIN ps = {k}
      BY <1>5, <1>8
    <3>5. es = {il[a]}
      BY <3>3, <3>4 DEF Elements
    <3>6. at(il) = {a}
      BY <1>6, <3>2, <3>5 DEF Once
    <3>7. \A i \in DOMAIN il : (\E c, d \in at(il) : c <= i /\ i <= d) => i = a
      BY <1>6, <3>2, <3>6
    <3> QED
      BY <1>6, <3>5, <3>7
  <2> QED
    BY <1>3, <1>8, <2>1
<1> QED
  BY <1>7, <1>8

LEMMA FailedWrites ==
    ASSUME PruneInv, output.state = "written", input.algorithm = "failed"
    PROVE  LET ils == Elements(Interleavings)
               ps == input.events
               ss == input.successors
               maybe == {il \in ils : Valid(ps, ss, il) = BOOLEAN}
               out == {il \in ils : Valid(ps, ss, il) = {FALSE}}
           IN  /\ \A il \in ils : find_event_indices(ps, il) # <<>>
               /\ \E more \in SUBSET maybe : output.ils = out \cup more
<1> DEFINE ils == Elements(Interleavings)
           ps == input.events
           ss == input.successors
           maybe == {il \in ils : Valid(ps, ss, il) = BOOLEAN}
           out == {il \in ils : Valid(ps, ss, il) = {FALSE}}
           crash == \E il \in ils : find_event_indices(ps, il) = <<>>
<1>1. output \in FailedOps(ils, ps, ss) /\ output # Crash
  BY Ended DEF Results
<1>2. FailedOps(ils, ps, ss) =
        IF crash THEN {Crash} ELSE {Written(out \cup more) : more \in SUBSET maybe}
  BY DEF FailedOps
<1> HIDE DEF maybe, out
<1>3. ~crash
  BY <1>1, <1>2
<1>4. PICK more \in SUBSET maybe : output = Written(out \cup more)
  BY <1>1, <1>2, <1>3
<1>5. output.ils = out \cup more
  BY <1>4, Ended
<1> QED
  BY <1>3, <1>5 DEF maybe, out

\* Whatever the numbers of predecessors and successors.
LEMMA FailedFromThose ==
    ASSUME PruneInv, output.state = "written", input.algorithm = "failed"
    PROVE  output.ils \subseteq Elements(Interleavings)
BY FailedWrites

FailedOrder(ps, ss, il) ==
    InOrder(ps, il) /\ InOrder(ss, il) /\ Place(ps[Len(ps)], il) < Place(ss[Len(ss)], il)

LEMMA FailedKept ==
    ASSUME DistinctInputs, PruneInv, output.state = "written", input.algorithm = "failed",
           Len(input.events) = Len(input.successors)
    PROVE  Elements(Interleavings) \ output.ils
             = {il \in Elements(Interleavings) :
                  FailedOrder(input.events, input.successors, il)}
<1> DEFINE ils == Elements(Interleavings)
           ps == input.events
           ss == input.successors
           maybe == {il \in ils : Valid(ps, ss, il) = BOOLEAN}
           out == {il \in ils : Valid(ps, ss, il) = {FALSE}}
<1>1. \A il \in ils : find_event_indices(ps, il) # <<>>
  BY FailedWrites
<1>2. PICK more \in SUBSET maybe : output.ils = out \cup more
  BY FailedWrites
<1>3. ps \in Seq(Int) /\ ss \in Seq(Int) /\ Len(ps) = Len(ss)
  BY Ended, InputFacts
<1>4. ASSUME NEW il \in ils
      PROVE  Valid(ps, ss, il) = IF FailedOrder(ps, ss, il) THEN {TRUE} ELSE {FALSE}
  <2>1. il \in Seq(Int) /\ Once(il) /\ find_event_indices(ps, il) # <<>>
    BY <1>1, InterleavingFacts
  <2>2. Elements(ps) \cup Elements(ss) \subseteq Elements(il)
    BY Ended DEF DistinctInputs
  <2> HIDE DEF ps, ss, ils
  <2>3. Elements(ps) \subseteq Elements(il)
    BY <2>2
  <2>4. Len(ps) # 0
    BY <1>3, <2>1, <2>3, FoundPlaces
  <2>5. Len(ps) > 0
    BY <1>3, <2>4
  <2> QED
    BY <1>3, <2>1, <2>2, <2>5, ValidFacts, Zenon DEF FailedOrder
<1> HIDE DEF ps, ss, ils
<1>5. \A il \in ils : il \in out <=> ~FailedOrder(ps, ss, il)
  <2> SUFFICES ASSUME NEW il \in ils PROVE il \in out <=> ~FailedOrder(ps, ss, il)
    OBVIOUS
  <2>1. Valid(ps, ss, il) = IF FailedOrder(ps, ss, il) THEN {TRUE} ELSE {FALSE}
    BY <1>4
  <2>2. {TRUE} # {FALSE}
    OBVIOUS
  <2> QED
    BY <2>1, <2>2
<1>6. maybe = {}
  <2> SUFFICES ASSUME NEW il \in maybe PROVE FALSE
    OBVIOUS
  <2>1. Valid(ps, ss, il) = BOOLEAN
    OBVIOUS
  <2>2. Valid(ps, ss, il) = IF FailedOrder(ps, ss, il) THEN {TRUE} ELSE {FALSE}
    BY <1>4
  <2>3. BOOLEAN # {TRUE} /\ BOOLEAN # {FALSE}
    OBVIOUS
  <2> QED
    BY <2>1, <2>2, <2>3
<1> HIDE DEF maybe
<1>7. output.ils = out
  BY <1>2, <1>6
<1> QED
  BY <1>5, <1>7 DEF ps, ss, ils
-----------------------------------------------------------------------------
(***************************************************************************)
(* The emulator's group: FlattenSeq of the orders in which a pair is one   *)
(* item gives the orders of all items in which the pair is together.       *)
(***************************************************************************)
\* FlattenSeq of single events and one pair, at the place k.
FlatAt(v, k, a, b, j) ==
    IF j < k THEN v[j] ELSE IF j = k THEN a ELSE IF j = k + 1 THEN b ELSE v[j - 1]

Flat(v, k, a, b, n) == [j \in 1..n |-> FlatAt(v, k, a, b, j)]

\* How many events there are in the first i.
Width(k, i) == IF i < k THEN i ELSE i + 1

Flattens(f, s, m) == f = [i \in 1..m |-> IF i = 1 THEN s[i] ELSE f[i - 1] \o s[i]]

LEMMA FlattenIs ==
    ASSUME NEW s, Len(s) # 0
    PROVE  Sequence!FlattenSeq(s) = (CHOOSE f : Flattens(f, s, Len(s)))[Len(s)]
BY DEF Sequence!FlattenSeq, Flattens

LEMMA JoinedSequences ==
    ASSUME NEW f, NEW c \in Nat, f = [j \in 1..c |-> f[j]],
           NEW g, NEW d \in Nat, g = [j \in 1..d |-> g[j]]
    PROVE  f \o g = [j \in 1..(c + d) |-> IF j <= c THEN f[j] ELSE g[j - c]]
<1> DEFINE S == {f[j] : j \in 1..c} \cup {g[j] : j \in 1..d}
<1>1. f \in Seq(S) /\ Len(f) = c
  <2>1. f \in Seq({f[j] : j \in 1..c}) /\ Len(f) = c
    BY SequenceOf
  <2>2. f \in [1..c -> S]
    <3>1. \A j \in 1..c : f[j] \in S
      OBVIOUS
    <3> HIDE DEF S
    <3> QED
      BY <3>1
  <2> HIDE DEF S
  <2> QED
    BY <2>1, <2>2, SeqDef
<1>2. g \in Seq(S) /\ Len(g) = d
  <2>1. g \in Seq({g[j] : j \in 1..d}) /\ Len(g) = d
    BY SequenceOf
  <2>2. g \in [1..d -> S]
    <3>1. \A j \in 1..d : g[j] \in S
      OBVIOUS
    <3> HIDE DEF S
    <3> QED
      BY <3>1
  <2> HIDE DEF S
  <2> QED
    BY <2>1, <2>2, SeqDef
<1> HIDE DEF S
<1>3. /\ f \o g \in Seq(S) /\ Len(f \o g) = c + d
      /\ \A i \in 1..(c + d) : (f \o g)[i] = IF i <= c THEN f[i] ELSE g[i - c]
  <2>1. /\ f \o g \in Seq(S) /\ Len(f \o g) = Len(f) + Len(g)
        /\ \A i \in 1..(Len(f) + Len(g)) : (f \o g)[i] = IF i <= Len(f) THEN f[i] ELSE g[i - Len(f)]
    BY <1>1, <1>2, ConcatProperties
  <2> QED
    BY <1>1, <1>2, <2>1
<1> DEFINE h == f \o g
<1>4. h = [i \in 1..(c + d) |-> h[i]]
  <2>1. h \in Seq(S) /\ Len(h) = c + d
    BY <1>3
  <2> HIDE DEF h
  <2> QED
    BY <2>1, LenProperties
<1>5. \A i \in 1..(c + d) : h[i] = IF i <= c THEN f[i] ELSE g[i - c]
  BY <1>3
<1> HIDE DEF h
<1>6. h = [j \in 1..(c + d) |-> IF j <= c THEN f[j] ELSE g[j - c]]
  BY <1>4, <1>5
<1> QED
  BY <1>6 DEF h

\* A list of lists of one event, but for the pair at k.
OnePair(s, m, k, v, a, b) ==
    /\ s = [j \in 1..m |-> s[j]] /\ k \in 1..m /\ s[k] = <<a, b>>
    /\ \A j \in 1..m : j # k => s[j] = <<v[j]>>

Longer(f, g) == f \o g

\* One more of the lists.
LEMMA FlatGrows ==
    ASSUME NEW m \in Nat, NEW s, NEW k, NEW v, NEW a, NEW b, OnePair(s, m, k, v, a, b)
    PROVE  \A i \in 1..m :
             i # 1 => Flat(v, k, a, b, Width(k, i)) = Longer(Flat(v, k, a, b, Width(k, i - 1)), s[i])
<1> SUFFICES ASSUME NEW i \in 1..m, i # 1
             PROVE  Flat(v, k, a, b, Width(k, i)) = Flat(v, k, a, b, Width(k, i - 1)) \o s[i]
  BY DEF Longer
<1> DEFINE F(n) == Flat(v, k, a, b, n)
           c == Width(k, i - 1)
<1>1. k \in Nat /\ i \in Nat /\ k >= 1 /\ i >= 2
  BY DEF OnePair
<1>2. c \in Nat /\ F(c) = [j \in 1..c |-> F(c)[j]]
  BY <1>1 DEF Width, Flat
<1>3. CASE i # k
  <2>1. s[i] = <<v[i]>>
    BY <1>3 DEF OnePair
  <2>2. s[i] = [j \in 1..1 |-> s[i][j]] /\ s[i][1] = v[i]
    BY <2>1
  <2>3. F(c) \o s[i] = [j \in 1..(c + 1) |-> IF j <= c THEN F(c)[j] ELSE s[i][j - c]]
    <3> DEFINE f == F(c)
               g == s[i]
    <3>1. f = [j \in 1..c |-> f[j]] /\ g = [j \in 1..1 |-> g[j]]
      BY <1>2, <2>2
    <3> HIDE DEF f, g, F, c
    <3> QED
      BY <1>2, <3>1, JoinedSequences DEF f, g
  <2>4. c + 1 = Width(k, i)
    BY <1>1, <1>3 DEF Width
  <2>5. \A j \in 1..(c + 1) : (IF j <= c THEN F(c)[j] ELSE s[i][j - c]) = FlatAt(v, k, a, b, j)
    <3> SUFFICES ASSUME NEW j \in 1..(c + 1)
                 PROVE (IF j <= c THEN F(c)[j] ELSE s[i][j - c]) = FlatAt(v, k, a, b, j)
      OBVIOUS
    <3>1. CASE j <= c
      <4>1. j \in 1..c
        BY <1>2, <3>1
      <4> QED
        BY <3>1, <4>1 DEF Flat
    <3>2. CASE ~(j <= c)
      <4>1. j = c + 1 /\ j - c = 1
        BY <1>2, <3>2
      <4>2. FlatAt(v, k, a, b, c + 1) = v[i]
        BY <1>1, <1>3 DEF FlatAt, Width
      <4> QED
        BY <2>2, <3>2, <4>1, <4>2
    <3> QED
      BY <3>1, <3>2
  <2>6. F(c + 1) = [j \in 1..(c + 1) |-> FlatAt(v, k, a, b, j)]
    BY DEF Flat
  <2> HIDE DEF F, c
  <2>7. F(c) \o s[i] = F(c + 1)
    BY <2>3, <2>5, <2>6
  <2> QED
    BY <2>4, <2>7 DEF F, c
<1>4. CASE i = k
  <2>1. s[i] = <<a, b>>
    BY <1>4 DEF OnePair
  <2>2. s[i] = [j \in 1..2 |-> s[i][j]] /\ s[i][1] = a /\ s[i][2] = b
    BY <2>1
  <2>3. F(c) \o s[i] = [j \in 1..(c + 2) |-> IF j <= c THEN F(c)[j] ELSE s[i][j - c]]
    <3> DEFINE f == F(c)
               g == s[i]
    <3>1. f = [j \in 1..c |-> f[j]] /\ g = [j \in 1..2 |-> g[j]]
      BY <1>2, <2>2
    <3> HIDE DEF f, g, F, c
    <3> QED
      BY <1>2, <3>1, JoinedSequences DEF f, g
  <2>4. c + 2 = Width(k, i) /\ c = k - 1
    BY <1>1, <1>4 DEF Width
  <2>5. \A j \in 1..(c + 2) : (IF j <= c THEN F(c)[j] ELSE s[i][j - c]) = FlatAt(v, k, a, b, j)
    <3> SUFFICES ASSUME NEW j \in 1..(c + 2)
                 PROVE (IF j <= c THEN F(c)[j] ELSE s[i][j - c]) = FlatAt(v, k, a, b, j)
      OBVIOUS
    <3>1. CASE j <= c
      <4>1. j \in 1..c
        BY <1>2, <3>1
      <4> QED
        BY <3>1, <4>1 DEF Flat
    <3>2. CASE j = c + 1
      <4>1. ~(j <= c) /\ j - c = 1 /\ j = k
        BY <1>1, <1>2, <2>4, <3>2
      <4>2. FlatAt(v, k, a, b, k) = a
        BY <1>1 DEF FlatAt
      <4> QED
        BY <2>2, <4>1, <4>2
    <3>3. CASE j = c + 2
      <4>1. ~(j <= c) /\ j - c = 2 /\ j = k + 1
        BY <1>1, <1>2, <2>4, <3>3
      <4>2. FlatAt(v, k, a, b, k + 1) = b
        BY <1>1 DEF FlatAt
      <4> QED
        BY <2>2, <4>1, <4>2
    <3> QED
      BY <1>2, <3>1, <3>2, <3>3
  <2>6. F(c + 2) = [j \in 1..(c + 2) |-> FlatAt(v, k, a, b, j)]
    BY DEF Flat
  <2> HIDE DEF F, c
  <2>7. F(c) \o s[i] = F(c + 2)
    BY <2>3, <2>5, <2>6
  <2> QED
    BY <2>4, <2>7 DEF F, c
<1> QED
  BY <1>3, <1>4

LEMMA FlatBegins ==
    ASSUME NEW m \in Nat, NEW s, NEW k, NEW v, NEW a, NEW b, OnePair(s, m, k, v, a, b), m >= 1
    PROVE  Flat(v, k, a, b, Width(k, 1)) = s[1]
<1>1. k \in Nat /\ k >= 1 /\ 1 \in 1..m
  BY DEF OnePair
<1>2. CASE k = 1
  <2>1. s[1] = <<a, b>> /\ Width(k, 1) = 2
    BY <1>2 DEF OnePair, Width
  <2>2. \A j \in 1..2 : FlatAt(v, k, a, b, j) = <<a, b>>[j]
    <3>1. \A j \in 1..2 : j = 1 \/ j = 2
      OBVIOUS
    <3> QED
      BY <1>2, <3>1 DEF FlatAt
  <2>3. <<a, b>> = [j \in 1..2 |-> <<a, b>>[j]]
    OBVIOUS
  <2> QED
    BY <2>1, <2>2, <2>3 DEF Flat
<1>3. CASE k # 1
  <2>1. s[1] = <<v[1]>> /\ Width(k, 1) = 1
    BY <1>1, <1>3 DEF OnePair, Width
  <2>2. \A j \in 1..1 : FlatAt(v, k, a, b, j) = <<v[1]>>[j]
    <3>1. \A j \in 1..1 : j = 1
      OBVIOUS
    <3> QED
      BY <1>1, <1>3, <3>1 DEF FlatAt
  <2>3. <<v[1]>> = [j \in 1..1 |-> <<v[1]>>[j]]
    OBVIOUS
  <2> QED
    BY <2>1, <2>2, <2>3 DEF Flat
<1> QED
  BY <1>2, <1>3

LEMMA FlattenPair ==
    ASSUME NEW m \in Nat, NEW s, NEW k, NEW v, NEW a, NEW b, OnePair(s, m, k, v, a, b)
    PROVE  Sequence!FlattenSeq(s) = Flat(v, k, a, b, m + 1)
<1> DEFINE F(i) == Flat(v, k, a, b, Width(k, i))
           g == [i \in 1..m |-> F(i)]
<1>1. m >= 1 /\ k \in 1..m /\ Len(s) = m
  <2>1. s = [j \in 1..m |-> s[j]] /\ k \in 1..m
    BY DEF OnePair
  <2> QED
    BY <2>1, SequenceOf
<1>2. F(1) = s[1]
  BY <1>1, FlatBegins
<1>3. \A i \in 1..m : i # 1 => F(i) = F(i - 1) \o s[i]
  <2>1. \A i \in 1..m : i # 1 => F(i) = Longer(F(i - 1), s[i])
    BY FlatGrows
  <2> QED
    BY <2>1 DEF Longer
<1> HIDE DEF F
<1>4. \A i \in 1..m : g[i] = IF i = 1 THEN s[i] ELSE g[i - 1] \o s[i]
  <2>1. \A i \in 1..m : i # 1 => i - 1 \in 1..m
    OBVIOUS
  <2> QED
    BY <1>2, <1>3, <2>1
<1>5. Flattens(g, s, m)
  BY <1>4 DEF Flattens
<1> HIDE DEF g
<1> DEFINE f == CHOOSE h : Flattens(h, s, m)
<1>6. Flattens(f, s, m)
  BY <1>5
<1> HIDE DEF f
<1>7. f[m] = g[m]
  <2> DEFINE Bad == {i \in Nat : i \in 1..m /\ f[i] # g[i]}
  <2>1. SUFFICES ASSUME Bad # {} PROVE FALSE
    BY <1>1
  <2>2. PICK i \in Bad : \A j \in Bad : i <= j
    <3>1. Bad \subseteq Nat
      OBVIOUS
    <3> HIDE DEF Bad
    <3> QED
      BY <2>1, <3>1, LeastNatural
  <2>3. i \in 1..m /\ f[i] # g[i]
    BY <2>2
  <2>4. /\ f[i] = IF i = 1 THEN s[i] ELSE f[i - 1] \o s[i]
        /\ g[i] = IF i = 1 THEN s[i] ELSE g[i - 1] \o s[i]
    <3> HIDE DEF Bad
    <3> QED
      BY <1>5, <1>6, <2>3 DEF Flattens
  <2>5. i # 1
    BY <2>3, <2>4
  <2>6. i - 1 \in Nat /\ i - 1 \in 1..m /\ i - 1 \notin Bad
    BY <2>2, <2>3, <2>5
  <2> QED
    BY <2>3, <2>4, <2>5, <2>6
<1>8. g[m] = F(m) /\ Width(k, m) = m + 1
  <2>1. m \in 1..m
    BY <1>1
  <2> QED
    BY <1>1, <2>1 DEF g, Width
<1>9. Sequence!FlattenSeq(s) = f[m]
  BY <1>1, FlattenIs DEF f
<1> QED
  BY <1>7, <1>8, <1>9 DEF F

\* The orders of distinct events, without the permutation.
Listing(l, ps) == l \in [1..Len(ps) -> Elements(ps)] /\ Once(l)

LEMMA ListingPlaces ==
    ASSUME NEW ps \in Seq(Int), NEW l, Listing(l, ps)
    PROVE  /\ l \in Seq(Int) /\ DOMAIN l = 1..Len(ps) /\ Len(l) = Len(ps)
           /\ Once(l) /\ Elements(l) \subseteq Elements(ps)
<1>1. \A i \in DOMAIN ps : ps[i] \in Int
  OBVIOUS
<1>2. Elements(ps) \subseteq Int
  BY <1>1 DEF Elements
<1>3. l \in [1..Len(ps) -> Int] /\ Len(ps) \in Nat
  BY <1>2 DEF Listing
<1>4. l \in Seq(Int) /\ DOMAIN l = 1..Len(ps) /\ Len(l) = Len(ps)
  BY <1>3, SeqDef
<1>5. Elements(l) \subseteq Elements(ps)
  BY <1>4 DEF Listing, Elements
<1> QED
  BY <1>4, <1>5 DEF Listing

LEMMA ListOf ==
    ASSUME NEW ps \in Seq(Int), Once(ps), NEW l
    PROVE  l \in {Arranged(ps, p) : p \in Permutation(Len(ps))} <=> Listing(l, ps)
<1> DEFINE n == Len(ps)
<1>1. n \in Nat /\ DOMAIN ps = 1..n /\ \A i \in DOMAIN ps : ps[i] \in Elements(ps)
  BY IntSequence
<1> HIDE DEF n
<1>2. ASSUME NEW p \in Permutation(n), l = Arranged(ps, p) PROVE Listing(l, ps)
  <2>1. /\ \A j \in 1..n : p[j] \in 1..n
        /\ \A i, j \in 1..n : i # j => p[i] # p[j]
    BY <1>1, PermutationOnto
  <2>2. l = [j \in 1..n |-> ps[p[j]]]
    BY <1>1, <1>2 DEF Arranged
  <2>3. l \in [1..n -> Elements(ps)]
    BY <1>1, <2>1, <2>2
  <2>4. Once(l)
    <3>1. DOMAIN l = 1..n
      BY <2>2
    <3>2. \A i, j \in 1..n : i # j => l[i] # l[j]
      BY <1>1, <2>1, <2>2 DEF Once
    <3> QED
      BY <3>1, <3>2 DEF Once
  <2> QED
    BY <2>3, <2>4 DEF Listing, n
<1>3. ASSUME Listing(l, ps) PROVE \E p \in Permutation(n) : l = Arranged(ps, p)
  <2> DEFINE p == [j \in 1..n |-> Place(l[j], ps)]
  <2>1. l \in [1..n -> Elements(ps)] /\ Once(l) /\ DOMAIN l = 1..n
    BY <1>3 DEF Listing, n
  <2>2. \A j \in 1..n : Place(l[j], ps) \in 1..n /\ ps[Place(l[j], ps)] = l[j]
    <3> SUFFICES ASSUME NEW j \in 1..n
                 PROVE Place(l[j], ps) \in 1..n /\ ps[Place(l[j], ps)] = l[j]
      OBVIOUS
    <3> DEFINE e == l[j]
    <3>1. e \in Elements(ps)
      BY <2>1
    <3> HIDE DEF e
    <3>2. Place(e, ps) \in DOMAIN ps /\ ps[Place(e, ps)] = e
      BY <3>1, PlaceOf
    <3> QED
      BY <1>1, <3>2 DEF e
  <2>3. p \in [1..n -> 1..n]
    BY <2>2
  <2>4. \A i, j \in 1..n : i # j => p[i] # p[j]
    BY <2>1, <2>2 DEF Once
  <2>5. p \in Permutation(n)
    <3> HIDE DEF p
    <3> QED
      BY <2>3, <2>4 DEF Permutation
  <2>6. \A j \in 1..n : ps[p[j]] = l[j]
    BY <2>2
  <2> HIDE DEF p
  <2>7. l = [j \in 1..n |-> l[j]]
    BY <2>1
  <2>8. Arranged(ps, p) = [j \in 1..n |-> ps[p[j]]]
    BY <1>1 DEF Arranged
  <2>9. l = Arranged(ps, p)
    BY <2>6, <2>7, <2>8
  <2> QED
    BY <2>5, <2>9
<1> QED
  BY <1>2, <1>3 DEF n

\* The items that are not grouped, and the pair.
Others(v, ps, a, b) ==
    LET n == Len(ps)
        rest == Elements(ps) \ {a, b}
    IN  /\ v \in [1..(n - 2) -> rest]
        /\ \A h, k \in 1..(n - 2) : h # k => v[h] # v[k]
        /\ \A e \in rest : \E k \in 1..(n - 2) : v[k] = e

LEMMA OthersSelected ==
    ASSUME NEW ps \in Seq(Int), Once(ps), NEW i \in DOMAIN ps, NEW j \in DOMAIN ps, i # j
    PROVE  Others(Selected(ps, Elements(ps) \ {ps[i], ps[j]}), ps, ps[i], ps[j])
<1> DEFINE n == Len(ps)
           P == Elements(ps) \ {ps[i], ps[j]}
           v == Selected(ps, P)
           at == Places(ps, P)
<1>1. n \in Nat /\ DOMAIN ps = 1..n /\ \A h \in DOMAIN ps : ps[h] \in Elements(ps)
  BY IntSequence
<1>2. at = (1..n) \ {i, j}
  BY <1>1 DEF Places, Once
<1> HIDE DEF n, at
<1>3. Cardinality(at) = n - 2
  <2>1. IsFiniteSet(1..n) /\ Cardinality(1..n) = n /\ i \in 1..n /\ j \in 1..n
    BY <1>1, FS_Interval
  <2> DEFINE A == (1..n) \ {i}
  <2>2. IsFiniteSet(A) /\ Cardinality(A) = n - 1
    <3>1. /\ IsFiniteSet(A)
          /\ Cardinality(A) = IF i \in 1..n THEN Cardinality(1..n) - 1 ELSE Cardinality(1..n)
      BY <2>1, FS_RemoveElement
    <3> QED
      BY <2>1, <3>1
  <2>3. j \in A
    BY <2>1
  <2> HIDE DEF A
  <2>4. Cardinality(A \ {j}) = (n - 1) - 1
    BY <2>2, <2>3, FS_RemoveElement
  <2>5. at = A \ {j}
    BY <1>2 DEF A
  <2>6. (n - 1) - 1 = n - 2
    BY <1>1
  <2> QED
    BY <2>4, <2>5, <2>6
<1> HIDE DEF P
<1>4. PICK pl : Lists(pl, ps, P)
  BY <1>1, SelectedFacts
<1>5. /\ pl \in [1..(n - 2) -> at]
      /\ \A k, l \in 1..(n - 2) : k < l <=> pl[k] < pl[l]
      /\ \A h \in at : \E k \in 1..(n - 2) : pl[k] = h
      /\ v = [k \in 1..(n - 2) |-> ps[pl[k]]]
  BY <1>3, <1>4 DEF Lists, at, v
<1>6. \A h \in at : h \in 1..n /\ ps[h] \in P
  BY <1>1, <1>2 DEF Places, at
<1> HIDE DEF v
<1>7. v \in [1..(n - 2) -> P]
  BY <1>5, <1>6
<1>8. ASSUME NEW h \in 1..(n - 2), NEW k \in 1..(n - 2), h # k PROVE v[h] # v[k]
  <2>1. pl[h] \in 1..n /\ pl[k] \in 1..n
    BY <1>5, <1>6
  <2>2. h < k \/ k < h
    BY <1>8
  <2>3. pl[h] < pl[k] \/ pl[k] < pl[h]
    BY <1>5, <2>2
  <2>4. pl[h] # pl[k]
    BY <2>1, <2>3
  <2> QED
    BY <1>1, <1>5, <2>1, <2>4 DEF Once
<1>9. ASSUME NEW e \in P PROVE \E k \in 1..(n - 2) : v[k] = e
  <2>1. PICK h \in 1..n : ps[h] = e
    BY <1>1 DEF P, Elements
  <2>2. h \in at
    BY <1>1, <2>1 DEF at, Places
  <2>3. PICK k \in 1..(n - 2) : pl[k] = h
    BY <1>5, <2>2
  <2> QED
    BY <1>5, <2>1, <2>3
<1> QED
  BY <1>7, <1>8, <1>9 DEF Others, n, P, v

\* modified_items.
Modified(v, a, b) == Append([j \in DOMAIN v |-> <<v[j]>>], <<a, b>>)

LEMMA ModifiedFacts ==
    ASSUME NEW ps \in Seq(Int), NEW a, NEW b, NEW v, Others(v, ps, a, b), Len(ps) >= 2
    PROVE  LET n == Len(ps)
               M == Modified(v, a, b)
           IN  /\ Len(M) = n - 1 /\ DOMAIN M = 1..(n - 1) /\ M[n - 1] = <<a, b>>
               /\ \A j \in 1..(n - 2) : M[j] = <<v[j]>>
<1> DEFINE n == Len(ps)
           s == [j \in DOMAIN v |-> <<v[j]>>]
           c == n - 2
<1>1. n \in Nat /\ c \in Nat
  OBVIOUS
<1>2. DOMAIN v = 1..c
  BY DEF Others
<1> HIDE DEF n, c
<1>3. s = [j \in 1..c |-> s[j]] /\ \A j \in 1..c : s[j] = <<v[j]>>
  BY <1>2
<1> HIDE DEF s
<1>4. IsSequence(s) /\ Len(s) = c
  <2>1. Len(s) = c
    BY <1>1, <1>3, SequenceOf
  <2> QED
    BY <1>1, <1>3, <2>1 DEF IsSequence
<1> DEFINE M == Append(s, <<a, b>>)
<1>5. /\ IsSequence(M) /\ Len(M) = c + 1
      /\ \A j \in 1..(c + 1) : M[j] = IF j = c + 1 THEN <<a, b>> ELSE s[j]
  BY <1>4, LongerSequence
<1> HIDE DEF M
<1>6. DOMAIN M = 1..(c + 1)
  BY <1>5 DEF IsSequence
<1>7. M[c + 1] = <<a, b>>
  BY <1>1, <1>5
<1>8. \A j \in 1..c : M[j] = <<v[j]>>
  <2>1. \A j \in 1..c : j \in 1..(c + 1) /\ j # c + 1
    BY <1>1
  <2> QED
    BY <1>3, <1>5, <2>1
<1>9. M = Modified(v, a, b) /\ c + 1 = n - 1 /\ c = n - 2
  BY <1>1 DEF M, s, Modified, c
<1> QED
  BY <1>5, <1>6, <1>7, <1>8, <1>9 DEF n

Taken(v, p, m) == [j \in 1..m |-> v[p[j]]]

\* The pair at k in an order of the modified items.
LEMMA PairAt ==
    ASSUME NEW ps \in Seq(Int), NEW a, NEW b, NEW v, Others(v, ps, a, b), Len(ps) >= 2,
           NEW p \in Permutation(Len(ps) - 1), NEW k \in 1..(Len(ps) - 1), p[k] = Len(ps) - 1
    PROVE  Sequence!FlattenSeq(Arranged(Modified(v, a, b), p))
             = Flat(Taken(v, p, Len(ps) - 1), k, a, b, Len(ps))
<1> DEFINE n == Len(ps)
           m == n - 1
           M == Modified(v, a, b)
           s == Arranged(M, p)
           w == [j \in 1..m |-> v[p[j]]]
<1>1. n \in Nat /\ m \in Nat /\ m + 1 = n /\ m >= 1 /\ n - 2 = m - 1
  OBVIOUS
<1>2. DOMAIN M = 1..m /\ M[m] = <<a, b>> /\ \A j \in 1..(n - 2) : M[j] = <<v[j]>>
  BY ModifiedFacts, SMTT(40)
<1>3. /\ \A j \in 1..m : p[j] \in 1..m
      /\ \A i, j \in 1..m : i # j => p[i] # p[j]
  BY <1>1, PermutationOnto
<1>4. p[k] = m /\ k \in 1..m
  OBVIOUS
<1> HIDE DEF M, m, n
<1>5. s = [j \in 1..m |-> M[p[j]]]
  BY <1>2 DEF Arranged
<1> HIDE DEF s
<1>6. s = [j \in 1..m |-> s[j]] /\ s[k] = <<a, b>>
  BY <1>2, <1>4, <1>5
<1>7. ASSUME NEW j \in 1..m, j # k PROVE s[j] = <<w[j]>>
  <2>1. p[j] \in 1..m /\ p[j] # m
    BY <1>3, <1>4, <1>7
  <2>2. p[j] \in 1..(n - 2)
    BY <1>1, <2>1, SMTT(40)
  <2> QED
    BY <1>2, <1>5, <2>2
<1> HIDE DEF w
<1>8. OnePair(s, m, k, w, a, b)
  BY <1>4, <1>6, <1>7 DEF OnePair
<1>9. Sequence!FlattenSeq(s) = Flat(w, k, a, b, m + 1)
  BY <1>1, <1>8, FlattenPair
<1> QED
  BY <1>1, <1>9 DEF s, w, m, n, M, Taken

\* An order of the modified items is one of the items, with the pair together.
LEMMA PairTogether ==
    ASSUME NEW ps \in Seq(Int), NEW a \in Elements(ps), NEW b \in Elements(ps), a # b,
           NEW v, Others(v, ps, a, b), Len(ps) >= 2,
           NEW p \in Permutation(Len(ps) - 1), NEW k \in 1..(Len(ps) - 1), p[k] = Len(ps) - 1,
           NEW l, l = Flat(Taken(v, p, Len(ps) - 1), k, a, b, Len(ps))
    PROVE  Listing(l, ps) /\ Place(b, l) = Place(a, l) + 1
<1> DEFINE n == Len(ps)
           m == n - 1
           w == [j \in 1..m |-> v[p[j]]]
           E == Elements(ps)
<1>1. /\ n \in Nat /\ m \in Nat /\ m + 1 = n /\ k \in 1..m /\ k \in Nat
      /\ n - 2 = m - 1 /\ k \in 1..n /\ k + 1 \in 1..n
  OBVIOUS
<1>2. /\ \A j \in 1..m : p[j] \in 1..m
      /\ \A i, j \in 1..m : i # j => p[i] # p[j]
  BY <1>1, PermutationOnto
<1>3. /\ \A j \in 1..(n - 2) : v[j] \in E /\ v[j] # a /\ v[j] # b
      /\ \A i, j \in 1..(n - 2) : i # j => v[i] # v[j]
  BY DEF Others
<1>4. p[k] = m /\ a \in E /\ b \in E /\ a # b
  OBVIOUS
<1>5. l = Flat(w, k, a, b, n)
  BY DEF Taken
<1> HIDE DEF n, m, E
<1>6. ASSUME NEW j \in 1..m, j # k
      PROVE  w[j] = v[p[j]] /\ p[j] \in 1..(n - 2) /\ w[j] \in E /\ w[j] # a /\ w[j] # b
  <2>1. p[j] \in 1..m /\ p[j] # m
    BY <1>1, <1>2, <1>4, <1>6
  <2>2. p[j] \in 1..(n - 2)
    BY <1>1, <2>1, SMTT(40)
  <2> QED
    BY <1>3, <2>2
<1>7. \A i, j \in 1..m : i # k /\ j # k /\ i # j => w[i] # w[j]
  <2> SUFFICES ASSUME NEW i \in 1..m, NEW j \in 1..m, i # k, j # k, i # j PROVE w[i] # w[j]
    OBVIOUS
  <2>1. w[i] = v[p[i]] /\ w[j] = v[p[j]] /\ p[i] \in 1..(n - 2) /\ p[j] \in 1..(n - 2)
    BY <1>6
  <2>2. p[i] # p[j]
    BY <1>2
  <2> QED
    BY <1>3, <2>1, <2>2
<1> HIDE DEF w
<1>8. DOMAIN l = 1..n /\ \A j \in 1..n : l[j] = FlatAt(w, k, a, b, j)
  BY <1>5 DEF Flat
<1> DEFINE src(j) == IF j < k THEN j ELSE j - 1
<1>9. /\ \A j \in 1..n : j # k /\ j # k + 1 => l[j] = w[src(j)] /\ src(j) \in 1..m /\ src(j) # k
      /\ k \in 1..n /\ k + 1 \in 1..n /\ l[k] = a /\ l[k + 1] = b
  <2>1. k \in 1..n /\ k + 1 \in 1..n /\ l[k] = a /\ l[k + 1] = b
    <3>1. FlatAt(w, k, a, b, k) = a /\ FlatAt(w, k, a, b, k + 1) = b
      BY <1>1 DEF FlatAt
    <3> QED
      BY <1>1, <1>8, <3>1
  <2>2. ASSUME NEW j \in 1..n, j # k, j # k + 1
        PROVE  l[j] = w[src(j)] /\ src(j) \in 1..m /\ src(j) # k
    <3>1. FlatAt(w, k, a, b, j) = w[src(j)]
      BY <1>1, <2>2 DEF FlatAt
    <3>2. src(j) \in 1..m /\ src(j) # k
      BY <1>1, <2>2
    <3> QED
      BY <1>8, <3>1, <3>2
  <2> QED
    BY <2>1, <2>2
<1>10. \A i, j \in 1..n : /\ i # k /\ i # k + 1 /\ j # k /\ j # k + 1 /\ i # j
                          => src(i) # src(j)
  BY <1>1
<1> HIDE DEF src
<1>11. \A j \in 1..n : l[j] \in E
  <2>1. \A j \in 1..n : j # k /\ j # k + 1 => l[j] \in E
    BY <1>6, <1>9
  <2> QED
    BY <1>4, <1>9, <2>1
<1>12. \A i, j \in 1..n : i # j => l[i] # l[j]
  <2> SUFFICES ASSUME NEW i \in 1..n, NEW j \in 1..n, i # j PROVE l[i] # l[j]
    OBVIOUS
  <2>1. \A h \in 1..n : h # k /\ h # k + 1 => l[h] # a /\ l[h] # b
    BY <1>6, <1>9
  <2>2. CASE i \in {k, k + 1} \/ j \in {k, k + 1}
    BY <1>1, <1>4, <1>9, <2>1, <2>2
  <2>3. CASE i \notin {k, k + 1} /\ j \notin {k, k + 1}
    BY <1>7, <1>9, <1>10, <2>3
  <2> QED
    BY <2>2, <2>3
<1>13. l \in [1..n -> E]
  BY <1>5, <1>8, <1>11 DEF Flat
<1>14. Once(l)
  BY <1>8, <1>12 DEF Once
<1>15. Place(a, l) = k /\ Place(b, l) = k + 1
  BY <1>8, <1>9, <1>12 DEF Place
<1> QED
  BY <1>13, <1>14, <1>15 DEF Listing, n, E

\* And every such order of the items is made.
LEMMA TogetherMade ==
    ASSUME NEW ps \in Seq(Int), NEW a \in Elements(ps), NEW b \in Elements(ps), a # b,
           NEW v, Others(v, ps, a, b), Len(ps) >= 2,
           NEW l, Listing(l, ps), NEW k \in 1..(Len(ps) - 1), l[k] = a, l[k + 1] = b
    PROVE  \E p \in Permutation(Len(ps) - 1) :
             /\ p[k] = Len(ps) - 1
             /\ l = Flat(Taken(v, p, Len(ps) - 1), k, a, b, Len(ps))
<1> DEFINE n == Len(ps)
           m == n - 1
           E == Elements(ps)
           dst(j) == IF j < k THEN j ELSE j + 1
           at(j) == CHOOSE r \in 1..(n - 2) : v[r] = l[dst(j)]
           p == [j \in 1..m |-> IF j = k THEN m ELSE at(j)]
<1>1. n \in Nat /\ m \in Nat /\ m + 1 = n /\ k \in 1..m /\ k \in Nat /\ k + 1 \in 1..n /\ k \in 1..n
      /\ n - 2 = m - 1
  OBVIOUS
<1>2. l \in [1..n -> E] /\ \A i, j \in 1..n : i # j => l[i] # l[j]
  BY DEF Listing, Once
<1>3. \A e \in E \ {a, b} : \E r \in 1..(n - 2) : v[r] = e
  BY DEF Others
<1>4. l[k] = a /\ l[k + 1] = b
  OBVIOUS
<1> HIDE DEF n, m, E
<1>5. \A j \in 1..m : j # k => dst(j) \in 1..n /\ dst(j) # k /\ dst(j) # k + 1
  BY <1>1
<1>6. \A i, j \in 1..m : i # k /\ j # k /\ i # j => dst(i) # dst(j)
  BY <1>1
<1>7. \A j \in 1..n : j < k => j \in 1..m /\ dst(j) = j
  BY <1>1
<1>8. \A j \in 1..n : j > k + 1 => j - 1 \in 1..m /\ j - 1 # k /\ dst(j - 1) = j
  BY <1>1
<1> HIDE DEF dst
<1>9. \A j \in 1..m : j # k => l[dst(j)] \in E \ {a, b}
  BY <1>1, <1>2, <1>4, <1>5
<1>10. \A j \in 1..m : j # k => at(j) \in 1..(n - 2) /\ v[at(j)] = l[dst(j)]
  BY <1>3, <1>9
<1> HIDE DEF at
<1>11. \A j \in 1..m : /\ p[j] \in 1..m /\ (j = k <=> p[j] = m)
                       /\ j # k => p[j] = at(j) /\ v[p[j]] = l[dst(j)]
  <2> SUFFICES ASSUME NEW j \in 1..m
               PROVE  /\ p[j] \in 1..m /\ (j = k <=> p[j] = m)
                      /\ j # k => p[j] = at(j) /\ v[p[j]] = l[dst(j)]
    OBVIOUS
  <2>1. p[j] = IF j = k THEN m ELSE at(j)
    OBVIOUS
  <2> HIDE DEF p
  <2>2. CASE j = k
    BY <1>1, <2>1, <2>2
  <2>3. CASE j # k
    <3>1. at(j) \in 1..(n - 2) /\ v[at(j)] = l[dst(j)]
      BY <1>10, <2>3
    <3>2. at(j) \in 1..m /\ at(j) # m
      BY <1>1, <3>1
    <3> QED
      BY <2>1, <2>3, <3>1, <3>2
  <2> QED
    BY <2>2, <2>3
<1>12. p \in [1..m -> 1..m]
  <2>1. p = [j \in 1..m |-> p[j]]
    OBVIOUS
  <2> HIDE DEF p
  <2> QED
    BY <1>11, <2>1
<1> HIDE DEF p
<1>13. ASSUME NEW i \in 1..m, NEW j \in 1..m, i # j PROVE p[i] # p[j]
  <2>1. CASE i = k \/ j = k
    BY <1>11, <1>13, <2>1
  <2>2. CASE i # k /\ j # k
    <3>1. v[p[i]] = l[dst(i)] /\ v[p[j]] = l[dst(j)]
      BY <1>11, <2>2
    <3>2. dst(i) # dst(j) /\ dst(i) \in 1..n /\ dst(j) \in 1..n
      BY <1>5, <1>6, <1>13, <2>2
    <3> QED
      BY <1>2, <3>1, <3>2
  <2> QED
    BY <2>1, <2>2
<1>14. p \in Permutation(m)
  BY <1>12, <1>13 DEF Permutation
<1> DEFINE w == [j \in 1..m |-> v[p[j]]]
<1>15. \A j \in 1..n : l[j] = FlatAt(w, k, a, b, j)
  <2> SUFFICES ASSUME NEW j \in 1..n PROVE l[j] = FlatAt(w, k, a, b, j)
    OBVIOUS
  <2>1. CASE j < k
    <3>1. j \in 1..m /\ j # k /\ dst(j) = j
      BY <1>7, <2>1
    <3>2. w[j] = l[j]
      BY <1>11, <3>1
    <3> HIDE DEF w
    <3> QED
      BY <2>1, <3>2 DEF FlatAt
  <2>2. CASE j > k + 1
    <3>1. j - 1 \in 1..m /\ j - 1 # k /\ dst(j - 1) = j
      BY <1>8, <2>2
    <3>2. w[j - 1] = l[j]
      BY <1>11, <3>1
    <3>3. ~(j < k) /\ j # k /\ j # k + 1
      BY <1>1, <2>2
    <3> HIDE DEF w
    <3> QED
      BY <3>2, <3>3 DEF FlatAt
  <2>3. CASE j = k \/ j = k + 1
    <3> HIDE DEF w
    <3> QED
      BY <1>1, <1>4, <2>3 DEF FlatAt
  <2> QED
    BY <1>1, <2>1, <2>2, <2>3
<1> HIDE DEF w
<1>16. l = Flat(w, k, a, b, n)
  <2>1. l = [j \in 1..n |-> l[j]]
    BY <1>2
  <2> QED
    BY <1>15, <2>1 DEF Flat
<1>17. p[k] = m
  BY <1>1, <1>11
<1> QED
  BY <1>14, <1>16, <1>17 DEF w, m, n, Taken

OrdersOf(ps) == {Arranged(ps, p) : p \in Permutation(Len(ps))}

LEMMA PairElements ==
    ASSUME NEW a, NEW b
    PROVE  Elements(<<a, b>>) = {a, b}
<1> DEFINE g == <<a, b>>
<1>1. DOMAIN g = {1, 2} /\ g[1] = a /\ g[2] = b
  OBVIOUS
<1> HIDE DEF g
<1>2. Elements(g) = {a, b}
  BY <1>1 DEF Elements
<1> QED
  BY <1>2 DEF g

LEMMA GroupedOrders ==
    ASSUME NEW ps \in Seq(Int), Once(ps), NEW i \in DOMAIN ps, NEW j \in DOMAIN ps, i # j
    PROVE  generate_permutations_with_grouping(ps, <<ps[i], ps[j]>>)
             = {l \in OrdersOf(ps) : Place(ps[j], l) = Place(ps[i], l) + 1}
<1> DEFINE a == ps[i]
           b == ps[j]
           n == Len(ps)
           g == <<a, b>>
           v == Selected(ps, Elements(ps) \ {a, b})
           M == Modified(v, a, b)
           made == {Sequence!FlattenSeq(Arranged(M, p)) : p \in Permutation(n - 1)}
           meant == {l \in OrdersOf(ps) : Place(b, l) = Place(a, l) + 1}
<1>1. Elements(g) = {a, b}
  BY PairElements
<1>2. /\ a \in Elements(ps) /\ b \in Elements(ps) /\ a # b
      /\ n \in Nat /\ n >= 2 /\ DOMAIN ps = 1..n
  <2>1. DOMAIN ps = 1..n /\ n \in Nat /\ ps[i] \in Elements(ps) /\ ps[j] \in Elements(ps)
    BY IntSequence
  <2>2. ps[i] # ps[j]
    BY DEF Once
  <2>3. i \in 1..n /\ j \in 1..n /\ i # j
    BY <2>1
  <2>4. n >= 2
    BY <2>1, <2>3
  <2> QED
    BY <2>1, <2>2, <2>4
<1>3. Others(v, ps, a, b)
  BY OthersSelected
<1>4. generate_permutations_with_grouping(ps, g)
        = {Sequence!FlattenSeq(Arranged(M, p)) : p \in Permutation(Len(M))}
  BY <1>1 DEF generate_permutations_with_grouping, Modified
<1> HIDE DEF v, a, b
<1>5. Len(M) = n - 1
  BY <1>2, <1>3, ModifiedFacts
<1>6. generate_permutations_with_grouping(ps, g) = made
  BY <1>4, <1>5
<1>7. ASSUME NEW p \in Permutation(n - 1) PROVE Sequence!FlattenSeq(Arranged(M, p)) \in meant
  <2>1. n - 1 \in Nat /\ n - 1 \in 1..(n - 1)
    BY <1>2
  <2>2. PICK k \in 1..(n - 1) : p[k] = n - 1
    BY <2>1, PermutationOnto
  <2> DEFINE l == Flat(Taken(v, p, n - 1), k, a, b, n)
  <2>3. Sequence!FlattenSeq(Arranged(M, p)) = l
    BY <1>2, <1>3, <2>2, PairAt
  <2>4. Listing(l, ps) /\ Place(b, l) = Place(a, l) + 1
    BY <1>2, <1>3, <2>2, PairTogether, SMTT(40)
  <2> HIDE DEF l, M
  <2>5. l \in OrdersOf(ps)
    BY <2>4, ListOf DEF OrdersOf
  <2> QED
    BY <2>3, <2>4, <2>5
<1>8. ASSUME NEW l \in meant PROVE \E p \in Permutation(n - 1) : l = Sequence!FlattenSeq(Arranged(M, p))
  <2>1. Listing(l, ps) /\ Place(b, l) = Place(a, l) + 1
    BY ListOf DEF OrdersOf
  <2>2. /\ l \in Seq(Int) /\ DOMAIN l = 1..n /\ Once(l)
        /\ \E h \in 1..n : l[h] = a
        /\ \E h \in 1..n : l[h] = b
    <3>1. l \in Seq(Int) /\ DOMAIN l = 1..n /\ Once(l)
      BY <2>1, ListingPlaces
    <3>2. PICK p \in Permutation(n) : l = Arranged(ps, p)
      BY DEF OrdersOf
    <3>3. \A x \in 1..n : \E h \in 1..n : p[h] = x
      BY <1>2, PermutationOnto
    <3>4. \A h \in 1..n : l[h] = ps[p[h]]
      BY <1>2, <3>2 DEF Arranged
    <3>5. i \in 1..n /\ j \in 1..n
      BY <1>2
    <3> HIDE DEF meant, made, M, n
    <3>6. (\E h \in 1..n : l[h] = ps[i]) /\ (\E h \in 1..n : l[h] = ps[j])
      <4>1. PICK h \in 1..n : p[h] = i
        BY <3>3, <3>5
      <4>2. PICK h2 \in 1..n : p[h2] = j
        BY <3>3, <3>5
      <4>3. l[h] = ps[i] /\ l[h2] = ps[j]
        BY <3>4, <4>1, <4>2
      <4> QED
        BY <4>3
    <3> QED
      BY <3>1, <3>6 DEF a, b
  <2> DEFINE k == Place(a, l)
  <2>3. k \in 1..n /\ k + 1 \in 1..n /\ l[k] = a /\ l[k + 1] = b
    <3>1. a \in Elements(l) /\ b \in Elements(l)
      BY <2>2 DEF Elements
    <3>2. Place(a, l) \in DOMAIN l /\ l[Place(a, l)] = a
      BY <2>2, <3>1, PlaceOf
    <3>3. Place(b, l) \in DOMAIN l /\ l[Place(b, l)] = b
      BY <2>2, <3>1, PlaceOf
    <3> QED
      BY <2>1, <2>2, <3>2, <3>3
  <2> HIDE DEF k, meant, M, made
  <2>4. k \in 1..(n - 1)
    BY <1>2, <2>3
  <2>5. PICK p \in Permutation(n - 1) :
          p[k] = n - 1 /\ l = Flat(Taken(v, p, n - 1), k, a, b, n)
    BY <1>2, <1>3, <2>1, <2>3, <2>4, TogetherMade, SMTT(40)
  <2>6. Sequence!FlattenSeq(Arranged(M, p)) = l
    BY <1>2, <1>3, <2>4, <2>5, PairAt DEF M
  <2> QED
    BY <2>6
<1>9. made = meant
  <2> HIDE DEF meant
  <2> QED
    BY <1>7, <1>8
<1> QED
  BY <1>6, <1>9 DEF a, b

LEMMA GroupedKept ==
    ASSUME DistinctInputs, PruneInv, output.state = "written", input.algorithm = "emulated group"
    PROVE  output.ils = {l \in OrdersOf(input.events) :
                           Place(input.successors[2], l) = Place(input.successors[1], l) + 1}
<1> DEFINE ps == input.events
           ss == input.successors
<1>1. output \in {Written(generate_permutations_with_grouping(ps, ss))}
  BY Ended DEF Results
<1>2. output.ils = generate_permutations_with_grouping(ps, ss)
  BY <1>1, Ended
<1>3. ps \in Seq(Int) /\ Once(ps)
  BY Ended, InputFacts
<1>4. PICK i \in DOMAIN ps, j \in DOMAIN ps : i # j /\ ss = <<ps[i], ps[j]>>
  BY Ended DEF DistinctInputs
<1> HIDE DEF ps, ss
<1>5. ss[1] = ps[i] /\ ss[2] = ps[j]
  BY <1>4
<1>6. generate_permutations_with_grouping(ps, ss)
        = {l \in OrdersOf(ps) : Place(ps[j], l) = Place(ps[i], l) + 1}
  BY <1>3, <1>4, GroupedOrders
<1> QED
  BY <1>2, <1>5, <1>6 DEF ps, ss
-----------------------------------------------------------------------------
(***************************************************************************)
(* The emulator's replica: the orders that are alike up to the last item   *)
(* of replica B follow each other in its group, and there are as many of   *)
(* them as the rule steps over, so it keeps one.                           *)
(***************************************************************************)
\* group_b_indices and the second of them.
BsAt(items, bs, p) == {i \in DOMAIN p : items[p[i]] \in bs}

LastB(items, bs, p) == CHOOSE i \in BsAt(items, bs, p) : \A h \in BsAt(items, bs, p) : h <= i

\* Five distinct items, two of them of replica B.
TwoOf(items, bs) ==
    /\ items \in Seq(Int) /\ Once(items) /\ Len(items) = 5
    /\ \E i, j \in 1..5 : i # j /\ bs = {items[i], items[j]}

LEMMA FiveFacts ==
    ASSUME NEW items, NEW bs, TwoOf(items, bs), NEW p \in Permutation(5)
    PROVE  /\ DOMAIN items = 1..5 /\ DOMAIN p = 1..5
           /\ \A i, j \in 1..5 : i # j => items[i] # items[j]
           /\ \A j \in 1..5 : p[j] \in 1..5
           /\ \A i, j \in 1..5 : i # j => p[i] # p[j]
           /\ \A x \in 1..5 : \E j \in 1..5 : p[j] = x
           /\ BsAt(items, bs, p) \subseteq 1..5
           /\ \A i \in 1..5 : i \in BsAt(items, bs, p) <=> items[p[i]] \in bs
<1>1. DOMAIN items = 1..5 /\ \A i, j \in 1..5 : i # j => items[i] # items[j]
  BY DEF TwoOf, Once
<1>2. DOMAIN p = 1..5
  BY DEF Permutation
<1>3. /\ \A j \in 1..5 : p[j] \in 1..5
      /\ \A i, j \in 1..5 : i # j => p[i] # p[j]
      /\ \A x \in 1..5 : \E j \in 1..5 : p[j] = x
  BY PermutationOnto
<1> QED
  BY <1>1, <1>2, <1>3 DEF BsAt

LEMMA LastBFacts ==
    ASSUME NEW items, NEW bs, TwoOf(items, bs), NEW p \in Permutation(5)
    PROVE  LET s == LastB(items, bs, p)
           IN  /\ s \in 2..5 /\ items[p[s]] \in bs
               /\ \A h \in 1..5 : items[p[h]] \in bs => h <= s
<1> DEFINE at == BsAt(items, bs, p)
           s == LastB(items, bs, p)
<1>1. at \subseteq 1..5 /\ \A i \in 1..5 : i \in at <=> items[p[i]] \in bs
  BY FiveFacts
<1>2. \E x, y \in at : x # y
  <2>1. PICK i \in 1..5, j \in 1..5 : i # j /\ bs = {items[i], items[j]}
    BY DEF TwoOf
  <2>2. (\E x \in 1..5 : p[x] = i) /\ (\E y \in 1..5 : p[y] = j)
    BY FiveFacts
  <2>3. PICK x \in 1..5, y \in 1..5 : p[x] = i /\ p[y] = j
    BY <2>2
  <2> HIDE DEF at
  <2>4. x \in at /\ y \in at /\ x # y
    BY <1>1, <2>1, <2>3
  <2> QED
    BY <2>4
<1>3. s = CHOOSE i \in at : \A h \in at : h <= i
  BY DEF LastB
<1> HIDE DEF at, s
<1>4. \E i \in at : \A h \in at : h <= i
  <2>1. \A X : X \subseteq 1..5 /\ X # {} => \E i \in X : \A h \in X : h <= i
    <3> SUFFICES ASSUME NEW X, X \subseteq 1..5, X # {} PROVE \E i \in X : \A h \in X : h <= i
      OBVIOUS
    <3> DEFINE Y == {d \in Nat : 5 - d \in X}
    <3>1. PICK x \in X : TRUE
      OBVIOUS
    <3>2. 5 - x \in Y
      OBVIOUS
    <3>3. Y \subseteq Nat /\ Y # {}
      BY <3>2
    <3> HIDE DEF Y
    <3>4. PICK d \in Y : \A e \in Y : d <= e
      BY <3>3, LeastNatural
    <3>5. d \in Nat /\ 5 - d \in X
      BY <3>4 DEF Y
    <3>6. \A h \in X : h \in 1..5 /\ 5 - h \in Nat /\ 5 - (5 - h) = h
      OBVIOUS
    <3>7. \A h \in X : 5 - h \in Y
      BY <3>6 DEF Y
    <3>8. \A h \in X : h <= 5 - d
      BY <3>4, <3>5, <3>6, <3>7
    <3> QED
      BY <3>5, <3>8
  <2> QED
    BY <1>1, <1>2, <2>1
<1>5. s \in at /\ \A h \in at : h <= s
  BY <1>3, <1>4
<1>6. s \in 1..5 /\ items[p[s]] \in bs
  BY <1>1, <1>5
<1>7. s >= 2
  <2>1. PICK x \in at, y \in at : x # y
    BY <1>2
  <2>2. x \in 1..5 /\ y \in 1..5 /\ x <= s /\ y <= s
    BY <1>1, <1>5, <2>1
  <2> QED
    BY <1>6, <2>1, <2>2
<1>8. \A h \in 1..5 : items[p[h]] \in bs => h <= s
  BY <1>1, <1>5
<1> QED
  BY <1>6, <1>7, <1>8 DEF s

\* The last of the two is where no other comes after.
LEMMA LastBIs ==
    ASSUME NEW items, NEW bs, TwoOf(items, bs), NEW p \in Permutation(5),
           NEW i \in 1..5, items[p[i]] \in bs, \A h \in 1..5 : h > i => items[p[h]] \notin bs
    PROVE  LastB(items, bs, p) = i
<1> DEFINE s == LastB(items, bs, p)
<1>1. s \in 2..5 /\ items[p[s]] \in bs /\ \A h \in 1..5 : items[p[h]] \in bs => h <= s
  BY LastBFacts
<1> HIDE DEF s
<1>2. s \in 1..5 /\ ~(s > i) /\ i <= s
  BY <1>1
<1> QED
  BY <1>2 DEF s

\* The permutations that begin as p does, up to there.
Class(p, s) == {q \in Permutation(5) : \A h \in 1..s : q[h] = p[h]}

LEMMA ClassAlike ==
    ASSUME NEW items, NEW bs, TwoOf(items, bs), NEW p \in Permutation(5),
           NEW q \in Class(p, LastB(items, bs, p))
    PROVE  /\ LastB(items, bs, q) = LastB(items, bs, p)
           /\ BsAt(items, bs, q) = BsAt(items, bs, p)
<1> DEFINE s == LastB(items, bs, p)
<1>1. s \in 2..5 /\ items[p[s]] \in bs /\ \A h \in 1..5 : items[p[h]] \in bs => h <= s
  BY LastBFacts
<1>2. q \in Permutation(5) /\ \A h \in 1..s : q[h] = p[h]
  BY DEF Class
<1> HIDE DEF s
<1>3. /\ \A j \in 1..5 : p[j] \in 1..5 /\ q[j] \in 1..5
      /\ \A i, j \in 1..5 : i # j => q[i] # q[j]
      /\ \A x \in 1..5 : \E j \in 1..5 : p[j] = x
  BY <1>2, FiveFacts
<1>4. ASSUME NEW h \in 1..5, h > s PROVE items[q[h]] \notin bs
  <2> SUFFICES ASSUME items[q[h]] \in bs PROVE FALSE
    OBVIOUS
  <2>1. q[h] \in 1..5
    BY <1>3
  <2>2. PICK x \in 1..5 : p[x] = q[h]
    BY <1>3, <2>1
  <2>3. x <= s
    BY <1>1, <2>2
  <2>4. x \in 1..s /\ x # h
    BY <1>1, <1>4, <2>3
  <2>5. q[x] = q[h]
    BY <1>2, <2>2, <2>4
  <2> QED
    BY <1>3, <2>4, <2>5
<1>5. s \in 1..5 /\ s \in 1..s /\ items[q[s]] \in bs
  <2>1. s \in 1..5 /\ s \in 1..s
    BY <1>1
  <2> QED
    BY <1>1, <1>2, <2>1
<1>6. LastB(items, bs, q) = s
  BY <1>2, <1>4, <1>5, LastBIs
<1>7. \A i \in 1..5 : items[q[i]] \in bs <=> items[p[i]] \in bs
  <2> SUFFICES ASSUME NEW i \in 1..5 PROVE items[q[i]] \in bs <=> items[p[i]] \in bs
    OBVIOUS
  <2>1. CASE i <= s
    <3>1. i \in 1..s
      BY <1>1, <2>1
    <3> QED
      BY <1>2, <3>1
  <2>2. CASE ~(i <= s)
    <3>1. i > s
      BY <1>1, <2>2
    <3> QED
      BY <1>1, <1>4, <2>2, <3>1
  <2> QED
    BY <2>1, <2>2
<1>8. /\ BsAt(items, bs, p) \subseteq 1..5 /\ \A i \in 1..5 : i \in BsAt(items, bs, p) <=> items[p[i]] \in bs
      /\ BsAt(items, bs, q) \subseteq 1..5 /\ \A i \in 1..5 : i \in BsAt(items, bs, q) <=> items[q[i]] \in bs
  BY <1>2, FiveFacts
<1> QED
  BY <1>6, <1>7, <1>8 DEF s

UpTo(il, es) == SubSeq(il, 1, CHOOSE i \in DOMAIN il : il[i] \in es
                                 /\ \A j \in (i + 1)..Len(il) : il[j] \notin es)

LEMMA UpToIs ==
    ASSUME NEW items, NEW bs, TwoOf(items, bs), NEW p \in Permutation(5)
    PROVE  LET l == Arranged(items, p)
               s == LastB(items, bs, p)
           IN  /\ UpTo(l, bs) = [h \in 1..s |-> items[p[h]]]
               /\ DOMAIN l = 1..5 /\ \A h \in 1..5 : l[h] = items[p[h]]
<1> DEFINE l == Arranged(items, p)
           s == LastB(items, bs, p)
           last(i) == l[i] \in bs /\ \A j \in (i + 1)..Len(l) : l[j] \notin bs
<1>1. l = [h \in 1..5 |-> items[p[h]]]
  BY FiveFacts DEF Arranged
<1> HIDE DEF l
<1>2. DOMAIN l = 1..5 /\ Len(l) = 5 /\ \A h \in 1..5 : l[h] = items[p[h]]
  <2>1. l = [h \in 1..5 |-> l[h]]
    BY <1>1
  <2>2. Len(l) = 5
    BY <2>1, SequenceOf
  <2> QED
    BY <1>1, <2>2
<1>3. s \in 2..5 /\ items[p[s]] \in bs /\ \A h \in 1..5 : items[p[h]] \in bs => h <= s
  BY LastBFacts
<1> HIDE DEF s
<1>4. s \in 1..5 /\ last(s)
  <2>1. \A j \in (s + 1)..5 : j \in 1..5 /\ ~(j <= s)
    BY <1>3
  <2>2. s \in 1..5
    BY <1>3
  <2> QED
    BY <1>2, <1>3, <2>1, <2>2
<1>5. ASSUME NEW i \in 1..5, last(i) PROVE i = s
  <2>1. items[p[i]] \in bs
    BY <1>2, <1>5
  <2>2. \A h \in 1..5 : h > i => h \in (i + 1)..5
    OBVIOUS
  <2>3. \A h \in 1..5 : h > i => items[p[h]] \notin bs
    BY <1>2, <1>5, <2>2
  <2> QED
    BY <2>1, <2>3, LastBIs DEF s
<1>6. (CHOOSE i \in DOMAIN l : last(i)) = s
  BY <1>2, <1>4, <1>5
<1>7. UpTo(l, bs) = SubSeq(l, 1, s)
  BY <1>6 DEF UpTo
<1>8. SubSeq(l, 1, s) = [h \in 1..s |-> l[h]]
  <2> DEFINE S == {l[h] : h \in 1..s}
             u == SubSeq(l, 1, s)
  <2>1. s \in Int /\ 1 <= s /\ s - 1 + 1 = s
    BY <1>4
  <2>2. \A h \in 1..s : l[h] \in S /\ 1 + h - 1 = h
    OBVIOUS
  <2> HIDE DEF S
  <2>3. /\ u \in Seq(S) /\ Len(u) = s - 1 + 1
        /\ \A h \in 1..(s - 1 + 1) : u[h] = l[1 + h - 1]
    BY <2>1, <2>2, SubSeqProperties
  <2> HIDE DEF u
  <2>4. Len(u) = s /\ \A h \in 1..s : u[h] = l[h]
    BY <2>1, <2>2, <2>3
  <2>5. u \in [1..Len(u) -> S]
    BY <2>3, LenProperties
  <2> QED
    BY <2>4, <2>5 DEF u
<1>9. \A h \in 1..s : h \in 1..5
  BY <1>4
<1>10. UpTo(l, bs) = [h \in 1..s |-> items[p[h]]]
  BY <1>2, <1>7, <1>8, <1>9
<1> QED
  BY <1>2, <1>10 DEF l, s

\* Alike up to the last item of the replica.
LEMMA SamePrefix ==
    ASSUME NEW items, NEW bs, TwoOf(items, bs), NEW p \in Permutation(5), NEW q \in Permutation(5)
    PROVE  UpTo(Arranged(items, q), bs) = UpTo(Arranged(items, p), bs)
             <=> q \in Class(p, LastB(items, bs, p))
<1> DEFINE s == LastB(items, bs, p)
           t == LastB(items, bs, q)
           f == [h \in 1..s |-> items[p[h]]]
           g == [h \in 1..t |-> items[q[h]]]
<1>1. s \in 2..5 /\ t \in 2..5
  BY LastBFacts
<1>2. UpTo(Arranged(items, p), bs) = f /\ UpTo(Arranged(items, q), bs) = g
  BY UpToIs
<1>3. /\ \A j \in 1..5 : p[j] \in 1..5 /\ q[j] \in 1..5
      /\ \A i, j \in 1..5 : i # j => items[i] # items[j]
  BY FiveFacts
<1>4. ASSUME f = g PROVE q \in Class(p, s)
  <2>1. DOMAIN f = 1..s /\ DOMAIN g = 1..t
    OBVIOUS
  <2>2. 1..s = 1..t
    BY <1>4, <2>1
  <2>3. \A h \in 1..s : f[h] = items[p[h]] /\ g[h] = items[q[h]]
    BY <2>2
  <2> HIDE DEF f, g, s, t
  <2>4. \A h \in 1..s : items[p[h]] = items[q[h]] /\ h \in 1..5
    BY <1>1, <1>4, <2>3
  <2>5. \A h \in 1..s : q[h] = p[h]
    BY <1>3, <2>4
  <2> QED
    BY <2>5 DEF Class
<1>5. ASSUME q \in Class(p, s) PROVE f = g
  <2>1. s = t
    BY <1>5, ClassAlike
  <2>2. \A h \in 1..s : q[h] = p[h]
    BY <1>5 DEF Class
  <2> HIDE DEF s, t
  <2> QED
    BY <2>1, <2>2
<1> HIDE DEF f, g
<1> QED
  BY <1>2, <1>4, <1>5 DEF s

\* With four places or more the permutation is decided.
LEMMA ClassOne ==
    ASSUME NEW p \in Permutation(5), NEW s \in 4..5
    PROVE  Class(p, s) = {p}
<1>1. p \in Class(p, s)
  BY DEF Class
<1>2. ASSUME NEW q \in Class(p, s) PROVE q = p
  <2>1. q \in Permutation(5) /\ \A h \in 1..s : q[h] = p[h]
    BY DEF Class
  <2>2. \A h \in 1..4 : q[h] = p[h]
    <3>1. \A h \in 1..4 : h \in 1..s
      OBVIOUS
    <3> QED
      BY <2>1, <3>1
  <2>3. /\ \A j \in 1..5 : q[j] \in 1..5
        /\ \A i, j \in 1..5 : i # j => q[i] # q[j]
        /\ \A x \in 1..5 : \E j \in 1..5 : p[j] = x
    <3>1. 5 \in Nat
      OBVIOUS
    <3>2. \A x \in 1..5 : \E j \in 1..5 : p[j] = x
      BY <3>1, PermutationOnto
    <3> QED
      BY <2>1, <3>1, <3>2, PermutationOnto
  <2>4. PICK x \in 1..5 : p[x] = q[5]
    BY <2>3
  <2>5. x = 5
    <3>1. x \in 1..4 => q[x] = q[5] /\ x # 5
      BY <2>2, <2>4
    <3>2. x \notin 1..4
      BY <2>3, <3>1
    <3> QED
      BY <3>2
  <2>6. \A h \in 1..5 : h \in 1..4 \/ h = 5
    OBVIOUS
  <2>7. \A h \in 1..5 : q[h] = p[h]
    BY <2>2, <2>4, <2>5, <2>6
  <2>8. q \in [1..5 -> 1..5] /\ p \in [1..5 -> 1..5]
    BY <2>1 DEF Permutation
  <2> QED
    BY <2>7, <2>8
<1> QED
  BY <1>1, <1>2

\* With fewer, they permute what p has behind.
Behind(p, s, r) == [h \in 1..5 |-> IF h <= s THEN p[h] ELSE p[s + r[h - s]]]

LEMMA ClassCounted ==
    ASSUME NEW p \in Permutation(5), NEW s \in 2..3
    PROVE  /\ IsFiniteSet(Class(p, s))
           /\ Cardinality(Class(p, s)) = Cardinality(Permutation(5 - s))
<1> DEFINE d == 5 - s
           P == Permutation(d)
           C == Class(p, s)
           f == [r \in P |-> Behind(p, s, r)]
<1>1. d \in Nat /\ s \in Nat /\ s + d = 5 /\ d >= 1
  OBVIOUS
<1>2. /\ p \in [1..5 -> 1..5]
      /\ \A i, j \in 1..5 : i # j => p[i] # p[j]
      /\ \A x \in 1..5 : \E j \in 1..5 : p[j] = x
  BY PermutationOnto DEF Permutation
<1> HIDE DEF d
<1>3. \A h \in 1..5 : ~(h <= s) => h - s \in 1..d
  BY <1>1
<1>4. \A h \in 1..d : s + h \in 1..5 /\ ~(s + h <= s) /\ (s + h) - s = h
  BY <1>1
<1>5. \A h \in 1..s : h \in 1..5 /\ h <= s
  BY <1>1
<1>6. ASSUME NEW r \in P PROVE Behind(p, s, r) \in C
  <2> DEFINE q == Behind(p, s, r)
  <2>1. (\A h \in 1..d : r[h] \in 1..d) /\ \A i, j \in 1..d : i # j => r[i] # r[j]
    BY <1>1, PermutationOnto
  <2>2. /\ \A h \in 1..5 : q[h] = IF h <= s THEN p[h] ELSE p[s + r[h - s]]
        /\ q = [h \in 1..5 |-> q[h]]
    BY DEF Behind
  <2> HIDE DEF q
  <2> DEFINE src(h) == IF h <= s THEN h ELSE s + r[h - s]
  <2>3. \A h \in 1..5 : q[h] = p[src(h)] /\ src(h) \in 1..5
    BY <1>3, <1>4, <2>1, <2>2
  <2>4. ASSUME NEW i \in 1..5, NEW j \in 1..5, i # j PROVE src(i) # src(j)
    <3>1. CASE i <= s /\ j <= s
      BY <2>4, <3>1
    <3>2. CASE i <= s /\ ~(j <= s)
      <4>1. j - s \in 1..d
        BY <1>3, <3>2
      <4>2. ~(s + r[j - s] <= s)
        BY <1>4, <2>1, <4>1
      <4> QED
        BY <3>2, <4>2
    <3>3. CASE j <= s /\ ~(i <= s)
      <4>1. i - s \in 1..d
        BY <1>3, <3>3
      <4>2. ~(s + r[i - s] <= s)
        BY <1>4, <2>1, <4>1
      <4> QED
        BY <3>3, <4>2
    <3>4. CASE ~(i <= s) /\ ~(j <= s)
      <4>1. i - s \in 1..d /\ j - s \in 1..d /\ i - s # j - s
        BY <1>1, <1>3, <2>4, <3>4
      <4>2. r[i - s] \in 1..d /\ r[j - s] \in 1..d /\ r[i - s] # r[j - s]
        BY <2>1, <4>1
      <4>3. s + r[i - s] # s + r[j - s]
        BY <1>1, <4>2
      <4> QED
        BY <3>4, <4>3
    <3> QED
      BY <3>1, <3>2, <3>3, <3>4
  <2>5. \A h \in 1..s : q[h] = p[h]
    BY <1>5, <2>2
  <2> HIDE DEF src
  <2>6. q \in [1..5 -> 1..5]
    BY <1>2, <2>2, <2>3
  <2>7. \A i, j \in 1..5 : i # j => q[i] # q[j]
    BY <1>2, <2>3, <2>4
  <2>8. q \in Permutation(5)
    BY <2>6, <2>7 DEF Permutation
  <2> QED
    BY <2>5, <2>8 DEF Class, q
<1>7. \A r \in P : \A h \in 1..d : Behind(p, s, r)[s + h] = p[s + r[h]]
  BY <1>4 DEF Behind
<1>8. ASSUME NEW r \in P, NEW t \in P, Behind(p, s, r) = Behind(p, s, t) PROVE r = t
  <2>1. r \in [1..d -> 1..d] /\ t \in [1..d -> 1..d]
    BY DEF Permutation
  <2>2. \A h \in 1..d : p[s + r[h]] = p[s + t[h]]
    BY <1>7, <1>8
  <2>3. \A h \in 1..d : /\ s + r[h] \in 1..5 /\ s + t[h] \in 1..5
                        /\ r[h] \in 1..d /\ t[h] \in 1..d
    BY <1>4, <2>1
  <2>4. \A h \in 1..d : s + r[h] = s + t[h]
    BY <1>2, <2>2, <2>3
  <2>5. \A h \in 1..d : r[h] = t[h]
    BY <1>1, <2>3, <2>4
  <2>6. r = [h \in 1..d |-> r[h]] /\ t = [h \in 1..d |-> t[h]]
    BY <2>1
  <2> QED
    BY <2>5, <2>6
<1>9. ASSUME NEW q \in C PROVE \E r \in P : q = Behind(p, s, r)
  <2>1. /\ q \in [1..5 -> 1..5] /\ \A h \in 1..s : q[h] = p[h]
        /\ \A i, j \in 1..5 : i # j => q[i] # q[j]
    BY DEF Class, Permutation
  <2> DEFINE from(h) == CHOOSE x \in 1..d : p[s + x] = q[s + h]
             r == [h \in 1..d |-> from(h)]
  <2>2. ASSUME NEW h \in 1..d PROVE \E x \in 1..d : p[s + x] = q[s + h]
    <3>1. s + h \in 1..5 /\ q[s + h] \in 1..5
      BY <1>4, <2>1
    <3>2. PICK y \in 1..5 : p[y] = q[s + h]
      BY <1>2, <3>1
    <3>3. ~(y <= s)
      <4> SUFFICES ASSUME y <= s PROVE FALSE
        OBVIOUS
      <4>1. y \in 1..s
        BY <1>1
      <4>2. q[y] = q[s + h] /\ y # s + h
        BY <1>4, <2>1, <3>2, <4>1
      <4> QED
        BY <2>1, <3>1, <4>2
    <3>4. y - s \in 1..d /\ s + (y - s) = y
      BY <1>1, <1>3, <3>3
    <3> QED
      BY <3>2, <3>4
  <2>3. \A h \in 1..d : from(h) \in 1..d /\ p[s + from(h)] = q[s + h]
    BY <2>2
  <2> HIDE DEF from
  <2>4. r \in [1..d -> 1..d] /\ \A h \in 1..d : p[s + r[h]] = q[s + h]
    BY <2>3
  <2> HIDE DEF r
  <2>5. \A i, j \in 1..d : i # j => r[i] # r[j]
    <3> SUFFICES ASSUME NEW i \in 1..d, NEW j \in 1..d, i # j, r[i] = r[j] PROVE FALSE
      OBVIOUS
    <3>1. q[s + i] = q[s + j]
      BY <2>4
    <3>2. s + i \in 1..5 /\ s + j \in 1..5 /\ s + i # s + j
      BY <1>1, <1>4
    <3> QED
      BY <2>1, <3>1, <3>2
  <2>6. r \in P
    BY <2>4, <2>5 DEF Permutation
  <2>7. \A h \in 1..5 : q[h] = IF h <= s THEN p[h] ELSE p[s + r[h - s]]
    <3> SUFFICES ASSUME NEW h \in 1..5 PROVE q[h] = IF h <= s THEN p[h] ELSE p[s + r[h - s]]
      OBVIOUS
    <3>1. CASE h <= s
      <4>1. h \in 1..s
        BY <1>1, <3>1
      <4> QED
        BY <2>1, <3>1, <4>1
    <3>2. CASE ~(h <= s)
      <4>1. h - s \in 1..d /\ s + (h - s) = h
        BY <1>1, <1>3, <3>2
      <4> QED
        BY <2>4, <3>2, <4>1
    <3> QED
      BY <3>1, <3>2
  <2>8. q = Behind(p, s, r)
    BY <2>1, <2>7 DEF Behind
  <2> QED
    BY <2>6, <2>8
<1> HIDE DEF C, P
<1>10. f \in [P -> C] /\ (\A r, t \in P : f[r] = f[t] => r = t) /\ \A q \in C : \E r \in P : f[r] = q
  BY <1>6, <1>8, <1>9
<1> HIDE DEF f
<1>11. f \in Bijection(P, C)
  BY <1>10 DEF Bijection, Injection, IsInjective, Surjection
<1>12. ExistsBijection(P, C)
  BY <1>11 DEF ExistsBijection
<1>13. IsFiniteSet(P)
  BY <1>1, PermutationsCounted DEF P
<1>14. IsFiniteSet(C) /\ Cardinality(C) = Cardinality(P)
  BY <1>12, <1>13, FS_Bijection
<1> QED
  BY <1>14 DEF C, P, d
-----------------------------------------------------------------------------
(***************************************************************************)
(* How many orders are alike, and how many of their group come before.     *)
(***************************************************************************)
LEMMA SmallFactorials == Factorial[1] = 1 /\ Factorial[2] = 2 /\ Factorial[3] = 6
<1>1. Factorial[0] = 1 /\ \A n \in Nat : Factorial[n + 1] = (n + 1) * Factorial[n]
  BY FactorialEquation
<1>2. Factorial[0 + 1] = (0 + 1) * Factorial[0]
  BY <1>1
<1>3. Factorial[1] = 1
  BY <1>1, <1>2
<1>4. Factorial[1 + 1] = (1 + 1) * Factorial[1]
  BY <1>1
<1>5. Factorial[2] = 2
  BY <1>3, <1>4
<1>6. Factorial[2 + 1] = (2 + 1) * Factorial[2]
  BY <1>1
<1> QED
  BY <1>3, <1>5, <1>6

LEMMA TwoPermutations == Cardinality(Permutation(2)) = 2
<1> DEFINE a == <<1, 2>>
           b == <<2, 1>>
<1>1. a \in Permutation(2) /\ b \in Permutation(2)
  <2>1. \A i \in 1..2 : i = 1 \/ i = 2
    OBVIOUS
  <2>2. a \in [1..2 -> 1..2] /\ b \in [1..2 -> 1..2]
    OBVIOUS
  <2> QED
    BY <2>1, <2>2 DEF Permutation
<1>2. a # b
  OBVIOUS
<1> HIDE DEF a, b
<1>3. IsFiniteSet({a}) /\ Cardinality({a}) = 1
  BY FS_Singleton
<1>4. IsFiniteSet({a} \cup {b}) /\ Cardinality({a} \cup {b}) = 2
  BY <1>2, <1>3, FS_AddElement
<1>5. IsFiniteSet(Permutation(2)) /\ Cardinality(Permutation(2)) \in Nat /\ Cardinality(Permutation(2)) <= 2
  BY PermutationsCounted, SmallFactorials
<1>6. {a} \cup {b} \subseteq Permutation(2)
  BY <1>1
<1>7. Cardinality({a} \cup {b}) <= Cardinality(Permutation(2))
  BY <1>5, <1>6, FS_Subset
<1> QED
  BY <1>4, <1>5, <1>7

LEMMA ThreePermutations == Cardinality(Permutation(3)) = 6
<1> DEFINE a == <<1, 2, 3>>
           b == <<1, 3, 2>>
           c == <<2, 1, 3>>
           d == <<2, 3, 1>>
           e == <<3, 1, 2>>
           f == <<3, 2, 1>>
<1>1. /\ a \in Permutation(3) /\ b \in Permutation(3) /\ c \in Permutation(3)
      /\ d \in Permutation(3) /\ e \in Permutation(3) /\ f \in Permutation(3)
  <2>1. \A i \in 1..3 : i = 1 \/ i = 2 \/ i = 3
    OBVIOUS
  <2>2. /\ a \in [1..3 -> 1..3] /\ b \in [1..3 -> 1..3] /\ c \in [1..3 -> 1..3]
        /\ d \in [1..3 -> 1..3] /\ e \in [1..3 -> 1..3] /\ f \in [1..3 -> 1..3]
    OBVIOUS
  <2>3. ASSUME NEW x \in [1..3 -> 1..3], x[1] # x[2], x[1] # x[3], x[2] # x[3]
        PROVE  x \in Permutation(3)
    <3>1. \A i, j \in 1..3 : i # j => x[i] # x[j]
      BY <2>1, <2>3
    <3> QED
      BY <3>1 DEF Permutation
  <2>4. \A x \in [1..3 -> 1..3] : x[1] # x[2] /\ x[1] # x[3] /\ x[2] # x[3] => x \in Permutation(3)
    BY <2>3
  <2>5. /\ a[1] # a[2] /\ a[1] # a[3] /\ a[2] # a[3] /\ b[1] # b[2] /\ b[1] # b[3] /\ b[2] # b[3]
        /\ c[1] # c[2] /\ c[1] # c[3] /\ c[2] # c[3] /\ d[1] # d[2] /\ d[1] # d[3] /\ d[2] # d[3]
        /\ e[1] # e[2] /\ e[1] # e[3] /\ e[2] # e[3] /\ f[1] # f[2] /\ f[1] # f[3] /\ f[2] # f[3]
    OBVIOUS
  <2> HIDE DEF a, b, c, d, e, f
  <2> QED
    BY <2>2, <2>4, <2>5
<1>2. /\ b # a /\ c \notin {a, b} /\ d \notin {a, b, c} /\ e \notin {a, b, c, d}
      /\ f \notin {a, b, c, d, e}
  OBVIOUS
<1> HIDE DEF a, b, c, d, e, f
<1>3. IsFiniteSet({a}) /\ Cardinality({a}) = 1
  BY FS_Singleton
<1>4. IsFiniteSet({a} \cup {b}) /\ Cardinality({a} \cup {b}) = 2
  BY <1>2, <1>3, FS_AddElement
<1>5. IsFiniteSet({a, b} \cup {c}) /\ Cardinality({a, b} \cup {c}) = 3
  <2>1. {a} \cup {b} = {a, b}
    OBVIOUS
  <2> QED
    BY <1>2, <1>4, <2>1, FS_AddElement
<1>6. IsFiniteSet({a, b, c} \cup {d}) /\ Cardinality({a, b, c} \cup {d}) = 4
  <2>1. {a, b} \cup {c} = {a, b, c}
    OBVIOUS
  <2> QED
    BY <1>2, <1>5, <2>1, FS_AddElement
<1>7. IsFiniteSet({a, b, c, d} \cup {e}) /\ Cardinality({a, b, c, d} \cup {e}) = 5
  <2>1. {a, b, c} \cup {d} = {a, b, c, d}
    OBVIOUS
  <2> QED
    BY <1>2, <1>6, <2>1, FS_AddElement
<1>8. IsFiniteSet({a, b, c, d, e} \cup {f}) /\ Cardinality({a, b, c, d, e} \cup {f}) = 6
  <2>1. {a, b, c, d} \cup {e} = {a, b, c, d, e}
    OBVIOUS
  <2> QED
    BY <1>2, <1>7, <2>1, FS_AddElement
<1>9. IsFiniteSet(Permutation(3)) /\ Cardinality(Permutation(3)) \in Nat /\ Cardinality(Permutation(3)) <= 6
  BY PermutationsCounted, SmallFactorials
<1>10. {a, b, c, d, e} \cup {f} \subseteq Permutation(3)
  BY <1>1
<1>11. Cardinality({a, b, c, d, e} \cup {f}) <= Cardinality(Permutation(3))
  BY <1>9, <1>10, FS_Subset
<1> QED
  BY <1>8, <1>9, <1>11

\* before.
Earlier(items, bs, p) == {q \in Permutation(5) : /\ BsAt(items, bs, q) = BsAt(items, bs, p)
                                                 /\ Lexicographic(q, p)}

\* The orders of a class have the same orders of other classes before them.
LEMMA EarlierOthers ==
    ASSUME NEW items, NEW bs, TwoOf(items, bs), NEW p \in Permutation(5), NEW s,
           s = LastB(items, bs, p), NEW q \in Class(p, s)
    PROVE  Earlier(items, bs, q)
             = (Earlier(items, bs, p) \ Class(p, s)) \cup Below(Class(p, s), Follows(Class(p, s)), q)
<1> DEFINE C == Class(p, s)
           E(x) == Earlier(items, bs, x)
<1>1. s \in 2..5
  BY LastBFacts
<1>2. \A r \in C : r \in Permutation(5) /\ BsAt(items, bs, r) = BsAt(items, bs, p) /\ \A h \in 1..s : r[h] = p[h]
  BY ClassAlike DEF Class
<1>3. \A r \in C : r \in Below(C, Follows(C), q) <=> Lexicographic(r, q)
  BY DEF Below, Follows
<1>4. Below(C, Follows(C), q) \subseteq C
  BY DEF Below
<1>5. \A x \in Permutation(5) : DOMAIN x = 1..5
  BY DEF Permutation
<1>6. ASSUME NEW r \in Permutation(5), r \notin C, NEW x \in C, NEW y \in C, Lexicographic(r, x)
      PROVE  Lexicographic(r, y)
  <2>1. PICK j \in 1..5 : r[j] < x[j] /\ \A h \in 1..(j - 1) : r[h] = x[h]
    BY <1>5, <1>6 DEF Lexicographic
  <2>2. /\ \A h \in 1..s : x[h] = p[h] /\ y[h] = p[h]
    BY <1>2
  <2>3. j <= s
    <3> SUFFICES ASSUME ~(j <= s) PROVE FALSE
      OBVIOUS
    <3>1. \A h \in 1..s : h \in 1..(j - 1)
      BY <1>1
    <3>2. \A h \in 1..s : r[h] = p[h]
      BY <2>1, <2>2, <3>1
    <3> QED
      BY <1>6, <3>2 DEF Class
  <2>4. j \in 1..s /\ \A h \in 1..(j - 1) : h \in 1..s
    BY <1>1, <2>3
  <2>5. r[j] < y[j] /\ \A h \in 1..(j - 1) : r[h] = y[h]
    BY <2>1, <2>2, <2>4
  <2> QED
    BY <1>5, <2>1, <2>5 DEF Lexicographic
<1>7. p \in C /\ q \in C
  BY DEF Class
<1>8. \A x \in C : \A r : r \in E(x) <=> /\ r \in Permutation(5)
                                         /\ BsAt(items, bs, r) = BsAt(items, bs, p)
                                         /\ Lexicographic(r, x)
  BY <1>2 DEF Earlier
<1> HIDE DEF C, E
<1>9. \A r : r \notin C => (r \in E(q) <=> r \in E(p))
  BY <1>6, <1>7, <1>8
<1>10. \A r \in C : r \in E(q) <=> r \in Below(C, Follows(C), q)
  BY <1>2, <1>3, <1>7, <1>8
<1>11. E(q) = (E(p) \ C) \cup Below(C, Follows(C), q)
  BY <1>4, <1>9, <1>10
<1> QED
  BY <1>11 DEF E, C

LEMMA EarlierCounted ==
    ASSUME NEW items, NEW bs, TwoOf(items, bs), NEW p \in Permutation(5), NEW s,
           s = LastB(items, bs, p)
    PROVE  LET C == Class(p, s)
           IN  \E c \in Nat : \A q \in C :
                 Cardinality(Earlier(items, bs, q)) = c + Cardinality(Below(C, Follows(C), q))
<1> DEFINE C == Class(p, s)
           B == Earlier(items, bs, p) \ C
           A(q) == Below(C, Follows(C), q)
<1>1. C \subseteq Permutation(5) /\ B \subseteq Permutation(5)
  BY DEF Class, Earlier
<1>2. IsFiniteSet(Permutation(5))
  BY PermutationsCounted
<1>3. B \cap C = {}
  OBVIOUS
<1>4. \A q \in C : Earlier(items, bs, q) = B \cup A(q)
  BY EarlierOthers
<1>5. \A q : A(q) \subseteq C
  BY DEF Below
<1> HIDE DEF A, B, C
<1>6. IsFiniteSet(B) /\ IsFiniteSet(C)
  BY <1>1, <1>2, FS_Subset
<1>7. Cardinality(B) \in Nat
  BY <1>6, FS_CardinalityType
<1>8. ASSUME NEW q \in C PROVE Cardinality(Earlier(items, bs, q)) = Cardinality(B) + Cardinality(A(q))
  <2> DEFINE D == A(q)
  <2>1. D \subseteq C /\ Earlier(items, bs, q) = B \cup D
    BY <1>4, <1>5
  <2> HIDE DEF D
  <2>2. IsFiniteSet(D) /\ B \cap D = {}
    BY <1>3, <1>6, <2>1, FS_Subset
  <2>3. Cardinality({}) = 0
    BY FS_EmptySet
  <2>4. Cardinality(B \cup D) = Cardinality(B) + Cardinality(D) - 0
    BY <1>6, <2>2, <2>3, FS_Union
  <2>5. Cardinality(D) \in Nat
    BY <2>2, FS_CardinalityType
  <2> QED
    BY <1>7, <2>1, <2>4, <2>5 DEF D
<1>9. \E c \in Nat : \A q \in C : Cardinality(Earlier(items, bs, q)) = c + Cardinality(A(q))
  BY <1>7, <1>8
<1> QED
  BY <1>9 DEF A, C

\* Of two or six numbers in a row one is divided by two or six.
LEMMA OneOfTwo ==
    ASSUME NEW c \in Nat
    PROVE  \E k \in 0..1 : (c + k) % 2 = 0 /\ \A j \in 0..1 : (c + j) % 2 = 0 => j = k
<1>1. c % 2 = 0 \/ c % 2 = 1
  OBVIOUS
<1>2. CASE c % 2 = 0
  <2>1. (c + 0) % 2 = 0 /\ (c + 1) % 2 = 1
    BY <1>2
  <2>2. \A j \in 0..1 : j = 0 \/ j = 1
    OBVIOUS
  <2> QED
    BY <2>1, <2>2
<1>3. CASE c % 2 = 1
  <2>1. (c + 0) % 2 = 1 /\ (c + 1) % 2 = 0
    BY <1>3
  <2>2. \A j \in 0..1 : j = 0 \/ j = 1
    OBVIOUS
  <2> QED
    BY <2>1, <2>2
<1> QED
  BY <1>1, <1>2, <1>3

LEMMA OneOfSix ==
    ASSUME NEW c \in Nat
    PROVE  \E k \in 0..5 : (c + k) % 6 = 0 /\ \A j \in 0..5 : (c + j) % 6 = 0 => j = k
<1> DEFINE r == c % 6
           d == c \div 6
           k == IF r = 0 THEN 0 ELSE 6 - r
<1>1. r \in 0..5 /\ d \in Nat /\ c = 6 * d + r
  OBVIOUS
<1>2. \A j \in 0..5 : (c + j) % 6 = IF r + j < 6 THEN r + j ELSE r + j - 6
  OBVIOUS
<1> HIDE DEF r, d
<1>3. k \in 0..5
  BY <1>1
<1> QED
  BY <1>1, <1>2, <1>3

Filtered(items, bs) ==
    {q \in Permutation(5) : \/ LastB(items, bs, q) > 3
                            \/ Cardinality(Earlier(items, bs, q))
                                 % Factorial[5 - LastB(items, bs, q)] = 0}

LEMMA OneOfClass ==
    ASSUME NEW items, NEW bs, TwoOf(items, bs), NEW p \in Permutation(5)
    PROVE  \E q \in Permutation(5) : Class(p, LastB(items, bs, p)) \cap Filtered(items, bs) = {q}
<1> DEFINE s == LastB(items, bs, p)
           C == Class(p, s)
           K == Filtered(items, bs)
           rank(q) == Cardinality(Below(C, Follows(C), q))
<1>1. s \in 2..5
  BY LastBFacts
<1>2. p \in C /\ C \subseteq Permutation(5)
  BY DEF Class
<1>3. \A q \in C : LastB(items, bs, q) = s
  BY ClassAlike
<1>4. CASE s \in 4..5
  <2>1. C = {p}
    BY <1>4, ClassOne
  <2>2. s > 3
    BY <1>4
  <2> HIDE DEF s, C
  <2>3. p \in K
    BY <1>2, <1>3, <2>2 DEF Filtered
  <2> HIDE DEF K
  <2>4. C \cap K = {p}
    BY <2>1, <2>3
  <2> QED
    BY <2>4 DEF s, C, K
<1>5. CASE s \in 2..3
  <2> DEFINE F == Factorial[5 - s]
  <2>1. F = Cardinality(C) /\ IsFiniteSet(C) /\ F \in {2, 6}
    <3>1. IsFiniteSet(C) /\ Cardinality(C) = Cardinality(Permutation(5 - s))
      BY <1>5, ClassCounted
    <3> HIDE DEF s, C
    <3>2. 5 - s = 2 \/ 5 - s = 3
      BY <1>5
    <3> QED
      BY <3>1, <3>2, SmallFactorials, TwoPermutations, ThreePermutations
  <2>2. \A q \in C : q \in K <=> Cardinality(Earlier(items, bs, q)) % F = 0
    <3>1. ~(s > 3)
      BY <1>5
    <3> HIDE DEF s, C
    <3> QED
      BY <1>2, <1>3, <3>1 DEF Filtered
  <2>3. PICK c \in Nat : \A q \in C : Cardinality(Earlier(items, bs, q)) = c + rank(q)
    BY EarlierCounted
  <2> HIDE DEF F, K
  <2>4. Ordered(C, Follows(C))
    <3>1. 5 \in Nat /\ C \subseteq [1..5 -> 1..5]
      BY <1>2 DEF Permutation
    <3> HIDE DEF C
    <3> QED
      BY <3>1, LexicographicOrders
  <2>5. \A q \in C : rank(q) \in 0..(F - 1)
    <3> HIDE DEF C
    <3> QED
      BY <2>1, <2>4, RankBound
  <2>6. \A k \in 1..F : \E q \in C : rank(q) = k - 1
    <3> HIDE DEF C
    <3> QED
      BY <2>1, <2>4, Ranks
  <2>7. \A x, y \in C : x # y => rank(x) # rank(y)
    <3> HIDE DEF C
    <3> SUFFICES ASSUME NEW x \in C, NEW y \in C, x # y PROVE rank(x) # rank(y)
      OBVIOUS
    <3>1. <<x, y>> \in Follows(C) \/ <<y, x>> \in Follows(C)
      BY <2>4 DEF Ordered
    <3>2. rank(x) < rank(y) \/ rank(y) < rank(x)
      BY <2>1, <2>4, <3>1, BelowGrows
    <3>3. rank(x) \in 0..(F - 1) /\ rank(y) \in 0..(F - 1)
      BY <2>5
    <3> HIDE DEF rank
    <3> QED
      BY <2>1, <3>2, <3>3
  <2> HIDE DEF rank, C
  <2>8. PICK k \in 0..(F - 1) : /\ (c + k) % F = 0
                                /\ \A j \in 0..(F - 1) : (c + j) % F = 0 => j = k
    <3>1. CASE F = 2
      BY <3>1, OneOfTwo
    <3>2. CASE F = 6
      BY <3>2, OneOfSix
    <3> QED
      BY <2>1, <3>1, <3>2
  <2>9. PICK q \in C : rank(q) = k
    <3>1. k + 1 \in 1..F /\ (k + 1) - 1 = k
      BY <2>1, <2>8
    <3> QED
      BY <2>6, <3>1
  <2>10. q \in K
    BY <2>2, <2>3, <2>8, <2>9
  <2>11. ASSUME NEW x \in C, x \in K PROVE x = q
    <3>1. (c + rank(x)) % F = 0 /\ rank(x) \in 0..(F - 1)
      BY <2>2, <2>3, <2>5, <2>11
    <3>2. rank(x) = k
      BY <2>8, <3>1
    <3> QED
      BY <2>7, <2>9, <3>2
  <2>12. C \cap K = {q}
    BY <2>9, <2>10, <2>11
  <2> QED
    BY <1>2, <2>9, <2>12 DEF C, K, s
<1> QED
  BY <1>1, <1>4, <1>5

\* The orders that are kept and alike up to the last item of the replica.
KeptAlike(kept, bs, l) == {k \in kept : UpTo(k, bs) = UpTo(l, bs)}

LEMMA OneKept ==
    ASSUME NEW items, NEW bs, TwoOf(items, bs), NEW p \in Permutation(5)
    PROVE  Cardinality(KeptAlike({Arranged(items, q) : q \in Filtered(items, bs)}, bs,
                                 Arranged(items, p))) = 1
<1> DEFINE K == Filtered(items, bs)
           kept == {Arranged(items, q) : q \in K}
           C == Class(p, LastB(items, bs, p))
           S == {k \in kept : UpTo(k, bs) = UpTo(Arranged(items, p), bs)}
<1>1. PICK q \in Permutation(5) : C \cap K = {q}
  BY OneOfClass
<1>2. \A x \in Permutation(5) : UpTo(Arranged(items, x), bs) = UpTo(Arranged(items, p), bs) <=> x \in C
  BY SamePrefix
<1>3. K \subseteq Permutation(5)
  BY DEF Filtered
<1> HIDE DEF C, K
<1>4. S = {Arranged(items, q)}
  <2>1. Arranged(items, q) \in S
    BY <1>1, <1>2
  <2>2. ASSUME NEW k \in S PROVE k = Arranged(items, q)
    <3>1. PICK x \in K : k = Arranged(items, x)
      OBVIOUS
    <3>2. x \in C
      BY <1>2, <1>3, <3>1
    <3> QED
      BY <1>1, <3>1, <3>2
  <2> HIDE DEF S
  <2> QED
    BY <2>1, <2>2
<1>5. Cardinality(S) = 1
  BY <1>4, FS_Singleton
<1> QED
  BY <1>5 DEF K, KeptAlike

LEMMA FinalInterleavings ==
    ASSUME NEW items, NEW bs, TwoOf(items, bs)
    PROVE  final_interleavings(items, bs) = {Arranged(items, q) : q \in Filtered(items, bs)}
<1> DEFINE all_list == Permutation(Len(items))
           group_b_indices(p) == {i \in DOMAIN p : items[p[i]] \in bs}
           second(p) == CHOOSE i \in group_b_indices(p) : \A h \in group_b_indices(p) : h <= i
           before(p) == {q \in all_list : group_b_indices(q) = group_b_indices(p)
                                             /\ Lexicographic(q, p)}
           jump(p) == Factorial[Len(items) - second(p)]
           filtered == {p \in all_list : second(p) > 3 \/ Cardinality(before(p)) % jump(p) = 0}
<1>1. final_interleavings(items, bs) = {Arranged(items, p) : p \in filtered}
  BY DEF final_interleavings
<1>2. Len(items) = 5
  BY DEF TwoOf
<1>3. \A p : group_b_indices(p) = BsAt(items, bs, p)
  BY DEF BsAt
<1>4. \A p : second(p) = LastB(items, bs, p)
  BY DEF LastB, BsAt
<1>5. \A p : before(p) = Earlier(items, bs, p)
  BY <1>2 DEF Earlier, BsAt
<1> HIDE DEF group_b_indices, second, before
<1>6. filtered = Filtered(items, bs)
  BY <1>2, <1>4, <1>5 DEF Filtered
<1> QED
  BY <1>1, <1>6

LEMMA EmulatedReplicaKept ==
    ASSUME DistinctInputs, PruneInv, output.state = "written", input.algorithm = "emulated replica"
    PROVE  \A l \in OrdersOf(input.events) :
             Cardinality(KeptAlike(output.ils, Elements(input.successors), l)) = 1
<1> DEFINE ps == input.events
           bs == Elements(input.successors)
<1>1. output \in {Written(final_interleavings(ps, bs))}
  BY Ended DEF Results
<1>2. output.ils = final_interleavings(ps, bs)
  BY <1>1, Ended
<1>3. ps \in Seq(Int) /\ Once(ps) /\ Len(ps) = 5 /\ DOMAIN ps = 1..5
  <2>1. ps \in Seq(Int) /\ Once(ps)
    BY Ended, InputFacts
  <2>2. Len(ps) = 5
    BY Ended DEF DistinctInputs
  <2> QED
    BY <2>1, <2>2, IntSequence
<1>4. PICK i \in DOMAIN ps, j \in DOMAIN ps : i # j /\ input.successors = <<ps[i], ps[j]>>
  BY Ended DEF DistinctInputs
<1>5. bs = {ps[i], ps[j]}
  BY <1>4, PairElements
<1>6. TwoOf(ps, bs)
  <2> HIDE DEF ps, bs
  <2> QED
    BY <1>3, <1>4, <1>5 DEF TwoOf
<1> HIDE DEF ps, bs
<1>7. output.ils = {Arranged(ps, q) : q \in Filtered(ps, bs)}
  BY <1>2, <1>6, FinalInterleavings
<1>8. \A p \in Permutation(5) :
        Cardinality(KeptAlike(output.ils, bs, Arranged(ps, p))) = 1
  BY <1>6, <1>7, OneKept
<1>9. \A l \in OrdersOf(ps) : \E p \in Permutation(5) : l = Arranged(ps, p)
  BY <1>3 DEF OrdersOf
<1> QED
  BY <1>8, <1>9 DEF ps, bs

-----------------------------------------------------------------------------
(***************************************************************************)
(* Crashes.                                                                *)
(***************************************************************************)
WrittenOnly(results) == \A o \in results : o.state = "written"

LEMMA IndependenceCrashes ==
    ASSUME NEW ils, NEW ies
    PROVE  LET c == \E il \in ils : ies \cap Elements(il) = {}
           IN  /\ c => Independence(ils, ies) = Crash
               /\ ~c => Independence(ils, ies).state = "written"
<1> DEFINE none(il) == independent_events_indices(ies, il) = {}
           left == {il \in ils : ~all_independent(ies, il)}
<1>1. \A il \in ils : none(il) <=> ies \cap Elements(il) = {}
  BY DEF independent_events_indices, Elements
<1>2. Independence(ils, ies) = IF \E il \in ils : none(il) THEN Crash ELSE Written(left)
  BY DEF Independence
<1>3. Written(left).state = "written"
  BY WrittenOne
<1> HIDE DEF none, left
<1> QED
  BY <1>1, <1>2, <1>3

LEMMA FailedCrashes ==
    ASSUME DistinctInputs, input \in Inputs, input.algorithm = "failed"
    PROVE  LET ils == Elements(Interleavings)
               ps == input.events
               results == FailedOps(ils, ps, input.successors)
               c == \E il \in ils : Elements(ps) \cap Elements(il) = {}
           IN  /\ c => results = {Crash}
               /\ ~c => WrittenOnly(results)
<1> DEFINE ils == Elements(Interleavings)
           ps == input.events
           ss == input.successors
           maybe == {il \in ils : Valid(ps, ss, il) = BOOLEAN}
           out == {il \in ils : Valid(ps, ss, il) = {FALSE}}
           crash == \E il \in ils : find_event_indices(ps, il) = <<>>
<1>1. ps \in Seq(Int)
  BY InputFacts
<1>2. ASSUME NEW il \in ils
      PROVE  find_event_indices(ps, il) = <<>> <=> Elements(ps) \cap Elements(il) = {}
  <2>1. Elements(ps) \subseteq Elements(il)
    BY DEF DistinctInputs
  <2>2. il \in Seq(Int) /\ Once(il)
    BY InterleavingFacts
  <2> HIDE DEF ps, ils
  <2>3. find_event_indices(ps, il) = <<>> <=> Len(ps) = 0
    BY <1>1, <2>1, <2>2, FoundPlaces
  <2>4. Len(ps) \in Nat /\ DOMAIN ps = 1..Len(ps)
    BY <1>1, IntSequence
  <2>5. Len(ps) = 0 => Elements(ps) = {}
    BY <2>4 DEF Elements
  <2>6. Len(ps) # 0 => ps[1] \in Elements(ps)
    BY <2>4 DEF Elements
  <2> QED
    BY <2>1, <2>3, <2>5, <2>6
<1>3. FailedOps(ils, ps, ss) =
        IF crash THEN {Crash} ELSE {Written(out \cup more) : more \in SUBSET maybe}
  BY DEF FailedOps
<1> HIDE DEF maybe, out, ps, ss, ils
<1>4. WrittenOnly({Written(out \cup more) : more \in SUBSET maybe})
  <2>1. \A more : Written(out \cup more).state = "written"
    BY DEF Written
  <2> QED
    BY <2>1 DEF WrittenOnly
<1> QED
  BY <1>2, <1>3, <1>4 DEF ps, ss, ils

LEMMA CrashesAsMeant ==
    ASSUME DistinctInputs, PruneInv, output.state # "none"
    PROVE  output.state = "crashed" <=> Crashes
<1> DEFINE ils == Elements(Interleavings)
           es == Elements(input.events)
           c == \E il \in ils : es \cap Elements(il) = {}
<1>1. input \in Inputs /\ output \in Results
  BY DEF PruneInv
<1>2. Crash.state = "crashed" /\ \A kept : Written(kept).state = "written"
  BY DEF Crash, Written
<1>3. CASE input.algorithm = "independence"
  <2>1. output = Independence(ils, es)
    BY <1>1, <1>3 DEF Results
  <2>2. (c => Independence(ils, es) = Crash) /\ (~c => Independence(ils, es).state = "written")
    BY IndependenceCrashes
  <2>3. Crashes <=> c
    BY <1>3 DEF Crashes
  <2> HIDE DEF c
  <2> QED
    BY <1>2, <2>1, <2>2, <2>3
<1>4. CASE input.algorithm = "failed"
  <2>1. output \in FailedOps(ils, input.events, input.successors)
    BY <1>1, <1>4 DEF Results
  <2>2. /\ c => output = Crash
        /\ ~c => output.state = "written"
    BY <1>1, <1>4, <2>1, FailedCrashes DEF WrittenOnly
  <2>3. Crashes <=> c
    BY <1>4 DEF Crashes
  <2> HIDE DEF c
  <2> QED
    BY <1>2, <2>2, <2>3
<1>5. CASE input.algorithm \in {"group", "replica", "emulated group", "emulated replica"}
  <2>1. \E kept : output = Written(kept)
    BY <1>1, <1>5 DEF Results
  <2>2. ~Crashes
    BY <1>5 DEF Crashes
  <2> QED
    BY <1>2, <2>1, <2>2
<1>6. input.algorithm \in {"group", "independence", "failed", "replica",
                           "emulated group", "emulated replica"}
  BY <1>1, InputFacts
<1> QED
  BY <1>3, <1>4, <1>5, <1>6
-----------------------------------------------------------------------------
LEMMA PrunedAsMeant ==
    ASSUME DistinctInputs, PruneInv
    PROVE  WhatPruningKeeps
<1> SUFFICES ASSUME output.state = "written" PROVE KeptOrders
  BY CrashesAsMeant DEF WhatPruningKeeps
<1> DEFINE kept == output.ils
           ils == Elements(Interleavings)
           ps == input.events
           ss == input.successors
<1>1. CASE input.algorithm = "group"
  <2>1. \A il \in kept : Len(il) = 1
    BY <1>1, GroupKept
  <2> QED
    BY <1>1, <2>1 DEF KeptOrders
<1>2. CASE input.algorithm = "independence"
  <2>1. kept = IF Len(ps) > 1 THEN ils ELSE {}
    BY <1>2, IndependenceKept
  <2> QED
    BY <1>2, <2>1 DEF KeptOrders
<1>3. CASE input.algorithm = "failed"
  <2>1. kept \subseteq ils
    BY <1>3, FailedFromThose
  <2>2. ASSUME Len(ps) = Len(ss)
        PROVE  ils \ kept = {il \in ils : FailedOrder(ps, ss, il)}
    BY <1>3, <2>2, FailedKept
  <2> QED
    BY <1>3, <2>1, <2>2 DEF KeptOrders, FailedOrder, InOrder, Place
<1>4. CASE input.algorithm = "replica"
  <2>1. kept = {}
    BY <1>4, ReplicaKept
  <2> QED
    BY <1>4, <2>1 DEF KeptOrders
<1>5. CASE input.algorithm = "emulated group"
  <2>1. kept = {l \in OrdersOf(ps) : Place(ss[2], l) = Place(ss[1], l) + 1}
    BY <1>5, GroupedKept
  <2> QED
    BY <1>5, <2>1 DEF KeptOrders, OrdersOf, Place
<1>6. CASE input.algorithm = "emulated replica"
  <2>1. \A l \in OrdersOf(ps) : Cardinality(KeptAlike(kept, Elements(ss), l)) = 1
    BY <1>6, EmulatedReplicaKept
  <2> QED
    BY <1>6, <2>1 DEF KeptOrders, OrdersOf, KeptAlike, UpTo
<1>7. input.algorithm \in {"group", "independence", "failed", "replica",
                           "emulated group", "emulated replica"}
  BY Ended, InputFacts
<1> QED
  BY <1>1, <1>2, <1>3, <1>4, <1>5, <1>6, <1>7

(***************************************************************************)
(* What each pruning program and emulator leaves of the interleavings of   *)
(* distinct events, for any number and length of them. That replica.py     *)
(* keeps one order of those that are alike is proved for the five items it *)
(* is written for.                                                         *)
(***************************************************************************)
THEOREM PruningCorrect == DistinctInputs => (Spec => []WhatPruningKeeps)
<1> SUFFICES ASSUME DistinctInputs PROVE Spec => []WhatPruningKeeps
  OBVIOUS
<1>1. Init => PruneInv
  BY PruneStarts
<1>2. PruneInv /\ [Next]_vars => PruneInv'
  BY PruneKeeps
<1>3. PruneInv => WhatPruningKeeps
  BY PrunedAsMeant
<1> QED
  BY <1>1, <1>2, <1>3, PTL DEF Spec
=============================================================================
