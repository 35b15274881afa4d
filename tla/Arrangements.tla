---------------------------- MODULE Arrangements ----------------------------
(***************************************************************************)
(* Orderings of a list, which all generators of interleavings produce.     *)
(***************************************************************************)
EXTENDS Integers, Sequences, FiniteSets

Factorial[n \in Nat] == IF n = 0 THEN 1 ELSE n * Factorial[n - 1]

Permutation(n) == {p \in [1..n -> 1..n] : \A i, j \in 1..n : i # j => p[i] # p[j]}

\* s in the order p.
Arranged(s, p) == [j \in DOMAIN s |-> s[p[j]]]

\* The elements of s that are in P, in their order.
Selected(s, P) ==
    LET at == {i \in DOMAIN s : s[i] \in P}
        place(k) == CHOOSE i \in at : Cardinality({h \in at : h < i}) = k - 1
    IN  [k \in 1..Cardinality(at) |-> s[place(k)]]

Lexicographic(a, b) == \E j \in DOMAIN a :
                          /\ a[j] < b[j]
                          /\ \A h \in 1..(j - 1) : a[h] = b[h]

Sorted(orders) == [i \in 1..Cardinality(orders) |->
                     CHOOSE o \in orders :
                        Cardinality({p \in orders : Lexicographic(p, o)}) = i - 1]
=============================================================================
