---------------------------- MODULE ReplayProofs ----------------------------
(***************************************************************************)
(* The turn kept in Redis orders the replicas: for any replicas, any       *)
(* recorded events, any number of interleavings and any files.  Types hold *)
(* whatever happened before (BaseInv).  The order holds while no           *)
(* interleaving that a replica has left behind has a misplaced event       *)
(* (Undisturbed): behind such a one a goroutine stays, acts in a later     *)
(* interleaving, and the turn orders nothing any more.  No assumption is   *)
(* made on the files: the theorems say what happens with each.             *)
(*                                                                         *)
(* ReplayInv is inductive while Undisturbed.  At its heart is that a turn  *)
(* waits for its own event: in the interleaving under way, a replica has   *)
(* executed exactly those of its events that are before the turn (Placed,  *)
(* Asleep), so one replica at most is acting, the one whose event the turn *)
(* is, and the lock is free when it gets there (LockOK).  No event before  *)
(* the turn is misplaced (InOrder), so the turn stops at the first that    *)
(* is.  The rest says how the interleavings follow each other: if a file   *)
(* has no misplaced event, all of its interleaving is over before a        *)
(* replica starts the next; nobody goes on before all have started         *)
(* (RoundsOK).                                                             *)
(***************************************************************************)
EXTENDS Replay, FiniteSetTheorems, FunctionTheorems, SequenceTheorems,
        WellFoundedInduction, TLAPS

\* Where a goroutine can be.
Places == {"none", "sleep", "spin", "lock", "work", "set", "release", "pass", "done"}

\* A goroutine that is awake woke when all replicas had begun, and is at a line.
Begun ==
    \A g \in Goroutine :
      /\ pc[g] \notin {"none", "sleep"} => \A r \in Replicas : run[r] >= 0
      /\ pc[g] \notin {"none", "sleep", "done"} => idx[g] \in 1..N

\* What is under way: the operation begun is no Broadcast, an update being merged is
\* not forgotten, and nothing is sent before the first interleaving.
UnderWay ==
    /\ \A g \in Goroutine : pc[g] = "set" => tmp[g] # <<>> /\ Op(g) # "Broadcast"
    /\ \A q, r \in Replicas : merge[q][r].new # <<>> => merge[q][r].todo # <<>>
    /\ \A q, r \in Replicas : run[q] = -1 => wire[r][q] = <<>>

\* What holds whatever the files.
BaseInv == TypeOK /\ Begun /\ UnderWay

\* Each file has each event once.
Distinct == \A k \in 0..Last : \A i, j \in 1..N : order[k][i] = order[k][j] => i = j

Acting == {"lock", "work", "set", "release", "pass"}

\* Line j of g's file is an event of g's replica.
Own(g, j) == Actions[order[g[2]][j]].id = g[1]

\* All replicas are in the same interleaving or about to enter it; what is before
\* is over, what is after has not begun.
RoundsOK ==
    /\ \A r, q \in Replicas : run[r] <= run[q] + 1
    /\ \A g \in Goroutine : pc[g] = "none" <=> g[2] > run[g[1]]
    /\ \A g \in Goroutine, r \in Replicas : g[2] < run[r] => pc[g] = "done"
    /\ \A g \in Goroutine, r \in Replicas : pc[g] \notin {"none", "sleep"} => run[r] >= g[2]
    /\ \A r, q \in Replicas : run[r] > run[q] => attr = 1
    /\ \A r \in Replicas : run[r] >= 0 => attr >= 1

\* The latest interleaving is k.
Latest(k) == \A r \in Replicas : run[r] <= k

\* An awake replica has executed its events before the turn, which are those on the
\* lines before its own; if it acts, its event is the turn's.
Placed ==
    \A g \in Goroutine :
      pc[g] \notin {"none", "sleep"} /\ Latest(g[2]) =>
        /\ idx[g] \in 1..(N + 1)
        /\ \A j \in 1..N : Own(g, j) => (j < idx[g] <=> order[g[2]][j] < attr)
        /\ pc[g] = "done" => idx[g] = N + 1
        /\ pc[g] # "done" => idx[g] \in 1..N /\ Own(g, idx[g])
        /\ pc[g] \in Acting => order[g[2]][idx[g]] = attr

\* A sleeping replica has executed nothing, and the turn has not passed it.
Asleep == \A g \in Goroutine : pc[g] = "sleep" =>
            \A j \in 1..N : Own(g, j) => order[g[2]][j] >= attr

\* No event before the turn is misplaced.
InOrder ==
    \A k \in 0..Last : (\A r \in Replicas : run[r] = k) =>
      \A t \in 1..N : t < attr => ~Misplaced(k, t)

\* The lock is set only by a replica that acts.
LockOK == lock => \E g \in Goroutine : pc[g] \in {"work", "set", "release"}

\* The events executed are those before the turn, and the turn's own one between
\* its execution and the end of the turn.
LogOK ==
    /\ \A k \in 0..Last : (\A r \in Replicas : run[r] < k) => log[k] = <<>>
    /\ \A g \in Goroutine : run[g[1]] = g[2] /\ Latest(g[2]) =>
         /\ (\E h \in Goroutine : h[2] = g[2] /\ pc[h] \in {"release", "pass"})
              => Len(log[g[2]]) = attr
         /\ (\A h \in Goroutine : h[2] = g[2] => pc[h] \notin {"release", "pass"})
              => Len(log[g[2]]) = attr - 1

\* What has been executed is the beginning of the recorded run.
Beginning == \A k \in 0..Last : \A i \in 1..Len(log[k]) : log[k][i] = i

ReplayInv == /\ BaseInv /\ Distinct /\ RoundsOK /\ Placed /\ Asleep /\ InOrder
             /\ LockOK /\ LogOK /\ Beginning

\* ReplayInv holds until an interleaving with a misplaced event is left behind.
ReplayInvWhile == BaseInv /\ (Undisturbed => ReplayInv)
-----------------------------------------------------------------------------
(***************************************************************************)
(* The files.                                                              *)
(***************************************************************************)
\* A set of natural numbers has a least one.
LEMMA LeastNumber ==
    ASSUME NEW T, T \subseteq Nat, T # {}
    PROVE  \E n \in T : \A k \in T : n <= k
<1> DEFINE R == {ss \in Nat \X Nat : ss[1] < ss[2]}
<1>1. IsWellFoundedOn(R, Nat)
  BY NatLessThanWellFounded DEF OpToRel
<1>2. PICK n \in T : \A k \in T : <<k, n>> \notin R
  <2> HIDE DEF R
  <2> QED
    BY <1>1, WFMin
<1>3. \A k \in T : ~(k < n)
  BY <1>2
<1> QED
  BY <1>3

\* What Actions.txt holds.
LEMMA ActionsFacts ==
    /\ N \in Nat /\ Last \in Nat
    /\ \A t \in 1..N : /\ Actions[t].op \in {"Inc", "Dec", "Broadcast"}
                       /\ Actions[t].id \in Replicas /\ Actions[t].times = <<t>>
                       /\ Actions[t] = [op |-> Actions[t].op, id |-> Actions[t].id,
                                        times |-> Actions[t].times]
<1> DEFINE Event == [op : {"Inc", "Dec", "Broadcast"}, id : Replicas, times : Seq(Nat)]
<1>1. Actions \in Seq(Event) /\ Last \in Nat /\ \A t \in 1..N : Actions[t].times = <<t>>
  BY ReplayAssumption
<1>2. \A e \in Event : /\ e.op \in {"Inc", "Dec", "Broadcast"} /\ e.id \in Replicas
                       /\ e = [op |-> e.op, id |-> e.id, times |-> e.times]
  OBVIOUS
<1> HIDE DEF Event
<1>3. N \in Nat /\ \A t \in 1..N : Actions[t] \in Event
  BY <1>1, ElementOfSeq, LenProperties DEF N
<1> QED
  BY <1>1, <1>2, <1>3

\* What a line of a file says: the number and the replica of its event.
LEMMA LineFacts ==
    ASSUME TypeOK, NEW k \in 0..Last, NEW i \in 1..N
    PROVE  /\ order[k][i] \in 1..N
           /\ Lamport(k, i) = order[k][i]
           /\ Line(k, i).id = Actions[order[k][i]].id
           /\ Line(k, i).op = Actions[order[k][i]].op
           /\ Line(k, i).op \in {"Inc", "Dec", "Broadcast"}
           /\ Line(k, i).id \in Replicas
<1>1. N \in Nat /\ order[k] \in [1..N -> 1..N]
  BY ActionsFacts DEF TypeOK
<1>2. order[k][i] \in 1..N
  BY <1>1
<1> DEFINE e == Actions[order[k][i]]
<1>3. /\ e.op \in {"Inc", "Dec", "Broadcast"} /\ e.id \in Replicas
      /\ e = [op |-> e.op, id |-> e.id, times |-> <<order[k][i]>>]
  <2> DEFINE t == order[k][i]
  <2> HIDE DEF t
  <2>1. t \in 1..N
    BY <1>2 DEF t
  <2>2. /\ Actions[t].op \in {"Inc", "Dec", "Broadcast"} /\ Actions[t].id \in Replicas
        /\ Actions[t].times = <<t>>
        /\ Actions[t] = [op |-> Actions[t].op, id |-> Actions[t].id,
                         times |-> Actions[t].times]
    BY <2>1, ActionsFacts
  <2> QED
    BY <2>2 DEF t
<1>4. Line(k, i) = e \/ Line(k, i) = [e EXCEPT !.times = Append(@, i)]
  BY DEF Line
<1>5. Append(<<order[k][i]>>, i)[1] = order[k][i]
  BY <1>2
<1> HIDE DEF e
<1>6. /\ Line(k, i).times[1] = order[k][i]
      /\ Line(k, i).op = e.op /\ Line(k, i).id = e.id
  BY <1>3, <1>4, <1>5
<1> QED
  BY <1>2, <1>3, <1>6 DEF Lamport, e

\* NextOwn goes to the first of the replica's own events from i on.
LEMMA NextOwnFacts ==
    ASSUME TypeOK, NEW g \in Goroutine, NEW i \in 1..(N + 1)
    PROVE  /\ NextOwn(g, i) \in i..(N + 1)
           /\ NextOwn(g, i) \in 1..(N + 1)
           /\ NextOwn(g, i) <= N => Own(g, NextOwn(g, i))
           /\ \A j \in i..N : Own(g, j) => NextOwn(g, i) <= j
<1> DEFINE own == {j \in i..N : Line(g[2], j).id = g[1]}
<1>1. N \in Nat /\ g[2] \in 0..Last
  BY ActionsFacts DEF Goroutine
<1>2. \A j \in i..N : j \in own <=> Own(g, j)
  BY <1>1, LineFacts DEF Own
<1>3. own \subseteq Nat /\ own \subseteq i..N
  BY <1>1
<1> HIDE DEF own
<1>4. CASE own = {}
  BY <1>1, <1>2, <1>4 DEF NextOwn, own
<1>5. CASE own # {}
  <2>1. \E j \in own : \A x \in own : j <= x
    BY <1>3, <1>5, LeastNumber
  <2>2. NextOwn(g, i) = CHOOSE j \in own : \A x \in own : j <= x
    BY <1>5 DEF NextOwn, own
  <2>3. NextOwn(g, i) \in own /\ \A x \in own : NextOwn(g, i) <= x
    BY <2>1, <2>2
  <2>4. /\ NextOwn(g, i) \in i..N /\ Own(g, NextOwn(g, i))
        /\ \A j \in i..N : Own(g, j) => NextOwn(g, i) <= j
    BY <1>2, <1>3, <2>3
  <2>5. i..N \subseteq i..(N + 1) /\ i..N \subseteq 1..(N + 1)
    BY <1>1
  <2> QED
    BY <2>4, <2>5
<1> QED
  BY <1>4, <1>5

\* Every event of the recorded run has its line in every file.
LEMMA EveryEventHasALine ==
    ASSUME TypeOK, Distinct, NEW k \in 0..Last, NEW t \in 1..N
    PROVE  \E j \in 1..N : order[k][j] = t
<1>1. N \in Nat /\ order[k] \in [1..N -> 1..N]
  BY ActionsFacts DEF TypeOK
<1>2. IsFiniteSet(1..N)
  BY <1>1, FS_Interval
<1>3. order[k] \in Injection(1..N, 1..N)
  BY <1>1 DEF Distinct, Injection, IsInjective
<1>4. order[k] \in Surjection(1..N, 1..N)
  BY <1>2, <1>3, FS_Injection
<1> QED
  BY <1>4 DEF Surjection
-----------------------------------------------------------------------------
(***************************************************************************)
(* Types, whatever the files: one lemma per action.                        *)
(***************************************************************************)
LEMMA InitBase == Init => BaseInv
<1> SUFFICES ASSUME Init PROVE BaseInv
  OBVIOUS
<1>1. N \in Nat /\ Last \in Nat /\ Permuted \subseteq [1..N -> 1..N]
  BY ActionsFacts, ReplayAssumption
<1>2. /\ order \in [0..Last -> Permuted \cup {[i \in 1..N |-> i]}]
      /\ order[0] = [i \in 1..N |-> i] /\ \A k \in 1..Last : order[k] \in Permuted
  BY DEF Init
<1>3. \A k \in 0..Last : order[k] \in [1..N -> 1..N]
  BY <1>1, <1>2
<1>4. order \in [0..Last -> [1..N -> 1..N]]
  BY <1>2, <1>3
<1>5. NoMerge \in [todo : Seq(Update), of : 0..Last, new : Seq(Int)]
  BY <1>1 DEF NoMerge
<1>6. TypeOK
  <2>1. /\ attr = 0 /\ lock = FALSE
        /\ run = [r \in Replicas |-> -1] /\ pc = [g \in Goroutine |-> "none"]
        /\ idx = [g \in Goroutine |-> 0] /\ tmp = [g \in Goroutine |-> <<>>]
        /\ value = [g \in Goroutine |-> 0]
    BY DEF Init
  <2>2. attr \in 0..(N + 1)
    BY <1>1, <2>1
  <2>3. lock \in BOOLEAN
    BY <2>1
  <2>4. pc \in [Goroutine -> Places] /\ value \in [Goroutine -> Int]
    BY <2>1 DEF Places
  <2>5. tmp \in [Goroutine -> {<<>>} \cup (Goroutine \X Int)]
    BY <2>1, Zenon
  <2>6. run \in [Replicas -> -1..Last] /\ idx \in [Goroutine -> 0..(N + 1)]
    <3>1. -1 \in -1..Last /\ 0 \in 0..(N + 1)
      BY <1>1
    <3> QED
      BY <2>1, <3>1
  <2>7. /\ updates \in [Goroutine -> Seq(Update)]
        /\ wire \in [Replicas -> [Replicas -> Seq(Seq(Update))]]
        /\ log \in [0..Last -> Seq(1..N)]
    BY DEF Init
  <2>8. merge \in [Replicas -> [Replicas -> [todo : Seq(Update), of : 0..Last,
                                             new : Seq(Int)]]]
    BY <1>5 DEF Init
  <2> QED
    BY <1>4, <2>2, <2>3, <2>4, <2>5, <2>6, <2>7, <2>8 DEF TypeOK, Places
<1>7. Begun
  BY DEF Init, Begun
<1>8. UnderWay
  BY DEF Init, UnderWay, NoMerge
<1> QED
  BY <1>6, <1>7, <1>8 DEF BaseInv

\* A goroutine that is awake goes on at its line.
LEMMA GoesOn ==
    ASSUME BaseInv, NEW g \in Goroutine, pc[g] \notin {"none", "sleep", "done"},
           NEW p \in Acting, pc' = [pc EXCEPT ![g] = p], UNCHANGED <<run, idx>>
    PROVE  /\ pc' \in [Goroutine -> Places]
           /\ \A h \in Goroutine : pc'[h] = IF h = g THEN p ELSE pc[h]
           /\ Begun'
<1>1. /\ pc' \in [Goroutine -> Places]
      /\ \A h \in Goroutine : pc'[h] = IF h = g THEN p ELSE pc[h]
  BY DEF BaseInv, TypeOK, Places, Acting
<1>2. Begun'
  BY <1>1 DEF BaseInv, Begun
<1> QED
  BY <1>1, <1>2

\* A goroutine goes to its next own line.
LEMMA Continues ==
    ASSUME BaseInv, NEW g \in Goroutine, pc[g] # "none", NEW i \in 1..(N + 1),
           Continue(g, i), \A r \in Replicas : run[r] >= 0, UNCHANGED run
    PROVE  /\ pc' \in [Goroutine -> Places]
           /\ idx' \in [Goroutine -> 0..(N + 1)]
           /\ pc'[g] = IF NextOwn(g, i) > N THEN "done" ELSE "spin"
           /\ idx'[g] = NextOwn(g, i)
           /\ \A h \in Goroutine : h # g => pc'[h] = pc[h] /\ idx'[h] = idx[h]
           /\ Begun'
<1>1. TypeOK /\ Begun /\ N \in Nat
  BY ActionsFacts DEF BaseInv
<1> DEFINE n == NextOwn(g, i)
<1>2. n \in 1..(N + 1)
  BY <1>1, NextOwnFacts
<1>3. /\ idx' = [idx EXCEPT ![g] = n]
      /\ pc' = [pc EXCEPT ![g] = IF n > N THEN "done" ELSE "spin"]
  BY DEF Continue
<1> HIDE DEF n
<1>4. /\ pc' \in [Goroutine -> Places]
      /\ pc'[g] = IF n > N THEN "done" ELSE "spin"
      /\ \A h \in Goroutine : h # g => pc'[h] = pc[h]
  BY <1>1, <1>3 DEF TypeOK, Places
<1>5. /\ idx' \in [Goroutine -> 0..(N + 1)]
      /\ idx'[g] = n
      /\ \A h \in Goroutine : h # g => idx'[h] = idx[h]
  <2>1. n \in 0..(N + 1)
    BY <1>1, <1>2
  <2> QED
    BY <1>1, <1>3, <2>1 DEF TypeOK
<1>6. Begun'
  <2> SUFFICES ASSUME NEW h \in Goroutine
               PROVE  /\ pc'[h] \notin {"none", "sleep"} => \A r \in Replicas : run[r] >= 0
                      /\ pc'[h] \notin {"none", "sleep", "done"} => idx'[h] \in 1..N
    BY DEF Begun
  <2>1. CASE h = g
    BY <1>1, <1>2, <1>4, <1>5, <2>1
  <2>2. CASE h # g
    BY <1>1, <1>4, <1>5, <2>2 DEF Begun
  <2> QED
    BY <2>1, <2>2
<1> QED
  BY <1>4, <1>5, <1>6 DEF n

LEMMA StartBase == ASSUME BaseInv, NEW r \in Replicas, Start(r) PROVE BaseInv'
<1> DEFINE k == run[r] + 1
<1>1. TypeOK /\ Begun /\ UnderWay /\ N \in Nat /\ Last \in Nat
  BY ActionsFacts DEF BaseInv
<1>2. \A q \in Replicas : run[q] \in -1..Last
  BY <1>1 DEF TypeOK
<1>3. /\ k \in 0..Last /\ run' = [run EXCEPT ![r] = k]
      /\ attr' = 1 /\ pc' = [pc EXCEPT ![<<r, k>>] = "sleep"]
      /\ UNCHANGED <<order, lock, idx, tmp, value, updates, wire, merge, log>>
  BY <1>1, <1>2 DEF Start
<1> HIDE DEF k
<1>4. <<r, k>> \in Goroutine
  BY <1>3 DEF Goroutine
<1>5. /\ run' \in [Replicas -> -1..Last]
      /\ \A q \in Replicas : run'[q] = IF q = r THEN k ELSE run[q]
  <2>1. k \in -1..Last
    BY <1>1, <1>3
  <2> QED
    BY <1>1, <1>3, <2>1 DEF TypeOK
<1>6. /\ pc' \in [Goroutine -> Places]
      /\ \A g \in Goroutine : pc'[g] = IF g = <<r, k>> THEN "sleep" ELSE pc[g]
  BY <1>1, <1>3, <1>4 DEF TypeOK, Places
<1>7. attr' \in 0..(N + 1)
  BY <1>1, <1>3
<1>8. TypeOK'
  BY <1>1, <1>3, <1>5, <1>6, <1>7 DEF TypeOK, Places
<1>9. Begun'
  <2>1. \A q \in Replicas : run[q] >= 0 => run'[q] >= 0
    BY <1>3, <1>5
  <2> QED
    BY <1>1, <1>3, <1>6, <2>1 DEF Begun
<1>10. UnderWay'
  <2>1. \A g \in Goroutine : pc'[g] = "set" => tmp'[g] # <<>> /\ Op(g)' # "Broadcast"
    BY <1>1, <1>3, <1>6 DEF UnderWay, Op, Line
  <2>2. \A q, s \in Replicas : run'[q] = -1 => wire'[s][q] = <<>>
    BY <1>1, <1>3, <1>5 DEF UnderWay
  <2> QED
    BY <1>1, <1>3, <2>1, <2>2 DEF UnderWay
<1> QED
  BY <1>8, <1>9, <1>10 DEF BaseInv

LEMMA WakeBase == ASSUME BaseInv, NEW g \in Goroutine, Wake(g) PROVE BaseInv'
<1>1. TypeOK /\ UnderWay /\ N \in Nat /\ g[2] \in 0..Last
  BY ActionsFacts DEF BaseInv, Goroutine
<1>2. /\ pc[g] = "sleep" /\ \A r \in Replicas : run[r] >= g[2]
      /\ Continue(g, 1)
      /\ UNCHANGED <<order, attr, lock, run, tmp, value, updates, wire, merge, log>>
  BY DEF Wake
<1>3. \A r \in Replicas : run[r] >= 0
  <2>1. \A r \in Replicas : run[r] \in -1..Last
    BY <1>1 DEF TypeOK
  <2> QED
    BY <1>1, <1>2, <2>1, ActionsFacts
<1>4. /\ pc' \in [Goroutine -> Places] /\ idx' \in [Goroutine -> 0..(N + 1)]
      /\ pc'[g] # "set"
      /\ \A h \in Goroutine : h # g => pc'[h] = pc[h] /\ idx'[h] = idx[h]
      /\ Begun'
  <2>1. 1 \in 1..(N + 1) /\ pc[g] # "none" /\ UNCHANGED run
    BY <1>1, <1>2
  <2> QED
    BY <1>2, <1>3, <2>1, Continues
<1>5. TypeOK'
  BY <1>1, <1>2, <1>4 DEF TypeOK, Places
<1>6. UnderWay'
  BY <1>1, <1>2, <1>4 DEF UnderWay, Op, Line
<1> QED
  BY <1>4, <1>5, <1>6 DEF BaseInv

LEMMA SeeTurnBase == ASSUME BaseInv, NEW g \in Goroutine, SeeTurn(g) PROVE BaseInv'
<1>1. TypeOK /\ UnderWay
  BY DEF BaseInv
<1>2. /\ pc[g] = "spin" /\ pc' = [pc EXCEPT ![g] = "lock"]
      /\ UNCHANGED <<order, attr, lock, run, idx, tmp, value, updates, wire, merge, log>>
  BY DEF SeeTurn
<1>3. /\ pc' \in [Goroutine -> Places]
      /\ \A h \in Goroutine : pc'[h] = IF h = g THEN "lock" ELSE pc[h]
      /\ Begun'
  <2>1. "lock" \in Acting
    BY DEF Acting
  <2> QED
    BY <1>2, <2>1, GoesOn
<1>4. TypeOK'
  BY <1>1, <1>2, <1>3 DEF TypeOK, Places
<1>5. UnderWay'
  BY <1>1, <1>2, <1>3 DEF UnderWay, Op, Line
<1> QED
  BY <1>3, <1>4, <1>5 DEF BaseInv

\* Also when the lock is taken and the event is skipped.
LEMMA AcquireLockBase == ASSUME BaseInv, NEW g \in Goroutine, AcquireLock(g) PROVE BaseInv'
<1>1. TypeOK /\ Begun /\ UnderWay /\ N \in Nat
  BY ActionsFacts DEF BaseInv
<1>2. /\ pc[g] = "lock" /\ lock' = TRUE
      /\ UNCHANGED <<order, attr, run, tmp, value, updates, wire, merge, log>>
  BY DEF AcquireLock
<1>3. /\ pc' \in [Goroutine -> Places] /\ idx' \in [Goroutine -> 0..(N + 1)]
      /\ pc'[g] # "set"
      /\ \A h \in Goroutine : h # g => pc'[h] = pc[h] /\ idx'[h] = idx[h]
      /\ Begun'
  <2>1. CASE lock
    <3>1. idx[g] + 1 \in 1..(N + 1) /\ \A r \in Replicas : run[r] >= 0
      BY <1>1, <1>2 DEF Begun
    <3>2. Continue(g, idx[g] + 1) /\ UNCHANGED run /\ pc[g] # "none"
      BY <1>2, <2>1 DEF AcquireLock
    <3> QED
      BY <3>1, <3>2, Continues
  <2>2. CASE ~lock
    <3>1. "work" \in Acting /\ UNCHANGED <<run, idx>> /\ pc' = [pc EXCEPT ![g] = "work"]
      BY <1>2, <2>2 DEF AcquireLock, Acting
    <3>2. /\ pc' \in [Goroutine -> Places] /\ Begun'
          /\ \A h \in Goroutine : pc'[h] = IF h = g THEN "work" ELSE pc[h]
      BY <1>2, <3>1, GoesOn
    <3> QED
      BY <1>1, <3>1, <3>2 DEF TypeOK
  <2> QED
    BY <2>1, <2>2
<1>4. TypeOK'
  BY <1>1, <1>2, <1>3 DEF TypeOK, Places
<1>5. UnderWay'
  BY <1>1, <1>2, <1>3 DEF UnderWay, Op, Line
<1> QED
  BY <1>3, <1>4, <1>5 DEF BaseInv

\* An awake goroutine's replica has a current counter.
LEMMA CurrentCounter ==
    ASSUME BaseInv, NEW g \in Goroutine, pc[g] \notin {"none", "sleep"}
    PROVE  /\ <<g[1], run[g[1]]>> \in Goroutine
           /\ g[1] \in Replicas /\ g[2] \in 0..Last
           /\ \A q \in Replicas : run[q] # -1
<1>1. TypeOK /\ Begun /\ g[1] \in Replicas /\ g[2] \in 0..Last /\ Last \in Nat
  BY ActionsFacts DEF BaseInv, Goroutine
<1>2. \A q \in Replicas : run[q] \in -1..Last /\ run[q] >= 0
  BY <1>1 DEF TypeOK, Begun
<1> QED
  BY <1>1, <1>2 DEF Goroutine

LEMMA ReadBase == ASSUME BaseInv, NEW g \in Goroutine, Read(g) PROVE BaseInv'
<1>1. TypeOK /\ UnderWay
  BY DEF BaseInv
<1> DEFINE c == <<g[1], run[g[1]]>>
<1>2. /\ pc[g] = "work" /\ Op(g) # "Broadcast"
      /\ tmp' = [tmp EXCEPT ![g] = <<c, value[c] + Delta(Op(g))>>]
      /\ pc' = [pc EXCEPT ![g] = "set"]
      /\ UNCHANGED <<order, attr, lock, run, idx, value, updates, wire, merge, log>>
  BY DEF Read
<1>3. /\ pc' \in [Goroutine -> Places]
      /\ \A h \in Goroutine : pc'[h] = IF h = g THEN "set" ELSE pc[h]
      /\ Begun'
  <2>1. "set" \in Acting
    BY DEF Acting
  <2> QED
    BY <1>2, <2>1, GoesOn
<1>4. c \in Goroutine
  BY <1>2, CurrentCounter
<1>5. value[c] + Delta(Op(g)) \in Int
  BY <1>1, <1>4, SMTT(40) DEF TypeOK, Delta
<1> HIDE DEF c
<1>6. /\ tmp' \in [Goroutine -> {<<>>} \cup (Goroutine \X Int)]
      /\ tmp'[g] # <<>> /\ \A h \in Goroutine : h # g => tmp'[h] = tmp[h]
  <2> DEFINE e == <<c, value[c] + Delta(Op(g))>>
  <2>1. e \in Goroutine \X Int /\ e # <<>>
    BY <1>4, <1>5
  <2> HIDE DEF e
  <2>2. tmp' = [tmp EXCEPT ![g] = e] /\ tmp \in [Goroutine -> {<<>>} \cup (Goroutine \X Int)]
    BY <1>1, <1>2 DEF TypeOK, e
  <2> QED
    BY <2>1, <2>2
<1>7. TypeOK'
  BY <1>1, <1>2, <1>3, <1>6 DEF TypeOK, Places
<1>8. UnderWay'
  <2>1. \A h \in Goroutine : pc'[h] = "set" => tmp'[h] # <<>> /\ Op(h) # "Broadcast"
    BY <1>1, <1>2, <1>3, <1>6 DEF UnderWay
  <2> QED
    BY <1>1, <1>2, <2>1 DEF UnderWay, Op, Line
<1> QED
  BY <1>3, <1>7, <1>8 DEF BaseInv

\* What an executed event adds to the history is an event.
LEMMA LogBase ==
    ASSUME BaseInv, NEW g \in Goroutine, pc[g] \in {"work", "set"},
           log' = [log EXCEPT ![g[2]] = Append(@, order[g[2]][idx[g]])]
    PROVE  log' \in [0..Last -> Seq(1..N)]
<1>1. TypeOK /\ Begun /\ g[2] \in 0..Last
  BY DEF BaseInv, Goroutine
<1>2. idx[g] \in 1..N
  BY <1>1 DEF Begun
<1>3. order[g[2]][idx[g]] \in 1..N
  BY <1>1, <1>2, LineFacts
<1>4. Append(log[g[2]], order[g[2]][idx[g]]) \in Seq(1..N)
  BY <1>1, <1>3, AppendProperties DEF TypeOK
<1> QED
  BY <1>1, <1>4 DEF TypeOK

LEMMA SetValBase == ASSUME BaseInv, NEW g \in Goroutine, SetVal(g) PROVE BaseInv'
<1>1. TypeOK /\ Begun /\ UnderWay /\ g[2] \in 0..Last
  BY DEF BaseInv, Goroutine
<1> DEFINE c == tmp[g][1]
<1>2. /\ pc[g] = "set"
      /\ value' = [value EXCEPT ![c] = tmp[g][2]]
      /\ updates' = [updates EXCEPT ![c] = Append(@, Op(g))]
      /\ tmp' = [tmp EXCEPT ![g] = <<>>]
      /\ pc' = [pc EXCEPT ![g] = "release"]
      /\ log' = [log EXCEPT ![g[2]] = Append(@, order[g[2]][idx[g]])]
      /\ UNCHANGED <<order, attr, lock, run, idx, wire, merge>>
  BY DEF SetVal
<1>3. /\ pc' \in [Goroutine -> Places]
      /\ \A h \in Goroutine : pc'[h] = IF h = g THEN "release" ELSE pc[h]
      /\ Begun'
  <2>1. "release" \in Acting
    BY DEF Acting
  <2> QED
    BY <1>2, <2>1, GoesOn
<1>4. log' \in [0..Last -> Seq(1..N)]
  BY <1>2, LogBase
<1>5. c \in Goroutine /\ tmp[g][2] \in Int
  <2>1. tmp[g] \in {<<>>} \cup (Goroutine \X Int) /\ tmp[g] # <<>>
    BY <1>1, <1>2 DEF TypeOK, UnderWay
  <2> QED
    BY <2>1
<1>6. Op(g) \in Update
  <2>1. idx[g] \in 1..N
    BY <1>1, <1>2 DEF Begun
  <2>2. Op(g) \in {"Inc", "Dec", "Broadcast"}
    BY <1>1, <2>1, LineFacts DEF Op
  <2> QED
    BY <1>1, <1>2, <2>2 DEF UnderWay, Update
<1> HIDE DEF c
<1>7. value' \in [Goroutine -> Int] /\ updates' \in [Goroutine -> Seq(Update)]
  <2>1. Append(updates[c], Op(g)) \in Seq(Update)
    BY <1>1, <1>5, <1>6, AppendProperties DEF TypeOK
  <2> QED
    BY <1>1, <1>2, <1>5, <2>1 DEF TypeOK
<1>8. /\ tmp' \in [Goroutine -> {<<>>} \cup (Goroutine \X Int)]
      /\ \A h \in Goroutine : h # g => tmp'[h] = tmp[h]
  <2>1. tmp \in [Goroutine -> {<<>>} \cup (Goroutine \X Int)]
    BY <1>1 DEF TypeOK
  <2> QED
    BY <1>2, <2>1, Zenon
<1>9. TypeOK'
  BY <1>1, <1>2, <1>3, <1>4, <1>7, <1>8 DEF TypeOK, Places
<1>10. UnderWay'
  <2>1. \A h \in Goroutine : pc'[h] = "set" => tmp'[h] # <<>> /\ Op(h) # "Broadcast"
    BY <1>1, <1>3, <1>8 DEF UnderWay
  <2> QED
    BY <1>1, <1>2, <2>1 DEF UnderWay, Op, Line
<1> QED
  BY <1>3, <1>9, <1>10 DEF BaseInv

LEMMA BroadcastBase == ASSUME BaseInv, NEW g \in Goroutine, Broadcast(g) PROVE BaseInv'
<1>1. TypeOK /\ UnderWay
  BY DEF BaseInv
<1> DEFINE r == g[1]
           c == <<r, run[r]>>
           out == [q \in Replicas |-> IF q = r THEN wire[r][q] ELSE Append(wire[r][q], updates[c])]
<1>2. /\ pc[g] = "work"
      /\ wire' = [wire EXCEPT ![r] = [q \in Replicas |->
                     IF q = r THEN @[q] ELSE Append(@[q], updates[c])]]
      /\ updates' = [updates EXCEPT ![c] = <<>>]
      /\ pc' = [pc EXCEPT ![g] = "release"]
      /\ log' = [log EXCEPT ![g[2]] = Append(@, order[g[2]][idx[g]])]
      /\ UNCHANGED <<order, attr, lock, run, idx, tmp, value, merge>>
  BY DEF Broadcast
<1>3. /\ pc' \in [Goroutine -> Places]
      /\ \A h \in Goroutine : pc'[h] = IF h = g THEN "release" ELSE pc[h]
      /\ Begun'
  <2>1. "release" \in Acting
    BY DEF Acting
  <2> QED
    BY <1>2, <2>1, GoesOn
<1>4. log' \in [0..Last -> Seq(1..N)]
  BY <1>2, LogBase
<1>5. c \in Goroutine /\ r \in Replicas /\ \A q \in Replicas : run[q] # -1
  BY <1>2, CurrentCounter
<1>6. wire' = [wire EXCEPT ![r] = out]
  BY <1>2
<1>7. out \in [Replicas -> Seq(Seq(Update))]
  <2> SUFFICES ASSUME NEW q \in Replicas
               PROVE  (IF q = r THEN wire[r][q] ELSE Append(wire[r][q], updates[c]))
                        \in Seq(Seq(Update))
    OBVIOUS
  <2>1. wire[r][q] \in Seq(Seq(Update)) /\ updates[c] \in Seq(Update)
    BY <1>1, <1>5, SMTT(40) DEF TypeOK
  <2>2. Append(wire[r][q], updates[c]) \in Seq(Seq(Update))
    BY <2>1, AppendProperties
  <2> QED
    BY <2>1, <2>2
<1> HIDE DEF r, c, out
<1>8. wire' \in [Replicas -> [Replicas -> Seq(Seq(Update))]]
  BY <1>1, <1>5, <1>6, <1>7 DEF TypeOK
<1>9. updates' \in [Goroutine -> Seq(Update)]
  BY <1>1, <1>2, <1>5 DEF TypeOK
<1>10. TypeOK'
  BY <1>1, <1>2, <1>3, <1>4, <1>8, <1>9 DEF TypeOK, Places
<1>11. UnderWay'
  <2>1. \A h \in Goroutine : pc'[h] = "set" => tmp'[h] # <<>> /\ Op(h) # "Broadcast"
    BY <1>1, <1>2, <1>3 DEF UnderWay
  <2> QED
    BY <1>1, <1>2, <1>5, <2>1 DEF UnderWay, Op, Line
<1> QED
  BY <1>3, <1>10, <1>11 DEF BaseInv

LEMMA ReleaseLockBase == ASSUME BaseInv, NEW g \in Goroutine, ReleaseLock(g) PROVE BaseInv'
<1>1. TypeOK /\ UnderWay
  BY DEF BaseInv
<1>2. /\ pc[g] = "release" /\ lock' = FALSE /\ pc' = [pc EXCEPT ![g] = "pass"]
      /\ UNCHANGED <<order, attr, run, idx, tmp, value, updates, wire, merge, log>>
  BY DEF ReleaseLock
<1>3. /\ pc' \in [Goroutine -> Places]
      /\ \A h \in Goroutine : pc'[h] = IF h = g THEN "pass" ELSE pc[h]
      /\ Begun'
  <2>1. "pass" \in Acting
    BY DEF Acting
  <2> QED
    BY <1>2, <2>1, GoesOn
<1>4. TypeOK'
  BY <1>1, <1>2, <1>3 DEF TypeOK, Places
<1>5. UnderWay'
  BY <1>1, <1>2, <1>3 DEF UnderWay, Op, Line
<1> QED
  BY <1>3, <1>4, <1>5 DEF BaseInv

\* The turn passed on is at most one past the last event.
LEMMA PassTurnBase == ASSUME BaseInv, NEW g \in Goroutine, PassTurn(g) PROVE BaseInv'
<1>1. TypeOK /\ Begun /\ UnderWay /\ N \in Nat /\ g[2] \in 0..Last
  BY ActionsFacts DEF BaseInv, Goroutine
<1>2. /\ pc[g] = "pass" /\ attr' = Lamport(g[2], idx[g]) + 1 /\ Continue(g, idx[g] + 1)
      /\ UNCHANGED <<order, lock, run, tmp, value, updates, wire, merge, log>>
  BY DEF PassTurn
<1>3. idx[g] \in 1..N /\ \A r \in Replicas : run[r] >= 0
  BY <1>1, <1>2 DEF Begun
<1>4. attr' \in 0..(N + 1)
  <2>1. Lamport(g[2], idx[g]) \in 1..N
    BY <1>1, <1>3, LineFacts
  <2> QED
    BY <1>1, <1>2, <2>1
<1>5. /\ pc' \in [Goroutine -> Places] /\ idx' \in [Goroutine -> 0..(N + 1)]
      /\ pc'[g] # "set"
      /\ \A h \in Goroutine : h # g => pc'[h] = pc[h] /\ idx'[h] = idx[h]
      /\ Begun'
  <2>1. idx[g] + 1 \in 1..(N + 1) /\ pc[g] # "none" /\ UNCHANGED run
    BY <1>1, <1>2, <1>3
  <2> QED
    BY <1>2, <1>3, <2>1, Continues
<1>6. TypeOK'
  BY <1>1, <1>2, <1>4, <1>5 DEF TypeOK, Places
<1>7. UnderWay'
  BY <1>1, <1>2, <1>5 DEF UnderWay, Op, Line
<1> QED
  BY <1>5, <1>6, <1>7 DEF BaseInv

LEMMA ExpireBase == ASSUME BaseInv, Expire PROVE BaseInv'
<1>1. TypeOK /\ Begun /\ UnderWay
  BY DEF BaseInv
<1>2. /\ UNCHANGED <<order, attr, run, pc, idx, log>>
      /\ UNCHANGED <<tmp, value, updates, wire, merge>> /\ lock' = FALSE
  BY DEF Expire
<1>3. TypeOK'
  BY <1>1, <1>2 DEF TypeOK
<1>4. Begun'
  BY <1>1, <1>2 DEF Begun
<1>5. UnderWay'
  BY <1>1, <1>2 DEF UnderWay, Op, Line
<1> QED
  BY <1>3, <1>4, <1>5 DEF BaseInv

\* What the handler of a connection keeps.
Handling == [todo : Seq(Update), of : 0..Last, new : Seq(Int)]

LEMMA ReceiveBase ==
    ASSUME BaseInv, NEW q \in Replicas, NEW r \in Replicas, Receive(q, r) PROVE BaseInv'
<1>1. TypeOK /\ Begun /\ UnderWay
  BY DEF BaseInv
<1>2. N \in Nat /\ Last \in Nat
  BY ActionsFacts
<1> DEFINE line == Head(wire[r][q])
           h == [todo |-> line, of |-> run[q], new |-> <<>>]
<1>3. PICK n \in 1..Len(wire[r][q]) :
        wire' = [wire EXCEPT ![r][q] = SubSeq(@, n + 1, Len(@))]
  BY DEF Receive
<1>4. /\ merge' = [merge EXCEPT ![q][r] = IF line = <<>> THEN NoMerge ELSE h]
      /\ UNCHANGED <<order, attr, lock, run, pc, idx, tmp, value, updates, log>>
  BY DEF Receive
<1>5. wire[r][q] \in Seq(Seq(Update)) /\ wire[r][q] # <<>>
  BY <1>1, <1>3 DEF TypeOK
<1>6. line \in Seq(Update)
  BY <1>5, HeadTailProperties
<1>7. run[q] \in 0..Last
  <2>1. run[q] \in -1..Last
    BY <1>1 DEF TypeOK
  <2>2. run[q] # -1
    BY <1>1, <1>5 DEF UnderWay
  <2> QED
    BY <1>2, <2>1, <2>2
<1>8. wire' \in [Replicas -> [Replicas -> Seq(Seq(Update))]]
  <2>1. SubSeq(wire[r][q], n + 1, Len(wire[r][q])) \in Seq(Seq(Update))
    <3>1. \A i \in (n + 1)..Len(wire[r][q]) : wire[r][q][i] \in Seq(Update)
      BY <1>5, LenProperties, ElementOfSeq
    <3>2. Len(wire[r][q]) \in Nat /\ n + 1 \in Int
      BY <1>5, LenProperties
    <3> QED
      BY <1>5, <3>1, <3>2, SubSeqProperties
  <2> DEFINE s == SubSeq(wire[r][q], n + 1, Len(wire[r][q]))
  <2>2. wire' = [wire EXCEPT ![r][q] = s]
    BY <1>3
  <2> HIDE DEF s
  <2>3. s \in Seq(Seq(Update))
    BY <2>1 DEF s
  <2> QED
    BY <1>1, <2>2, <2>3 DEF TypeOK
<1>9. NoMerge \in Handling /\ h \in Handling
  BY <1>2, <1>6, <1>7 DEF NoMerge, Handling
<1>10. NoMerge.new = <<>> /\ h.new = <<>>
  BY DEF NoMerge
<1> DEFINE m == IF line = <<>> THEN NoMerge ELSE h
<1>11. m \in Handling /\ m.new = <<>>
  BY <1>9, <1>10
<1> HIDE DEF m, h, line
<1>12. merge' = [merge EXCEPT ![q][r] = m] /\ merge \in [Replicas -> [Replicas -> Handling]]
  BY <1>1, <1>4 DEF TypeOK, m, Handling
<1>13. /\ merge' \in [Replicas -> [Replicas -> Handling]]
       /\ merge'[q][r] = m
       /\ \A s, t \in Replicas : s # q \/ t # r => merge'[s][t] = merge[s][t]
  BY <1>11, <1>12
<1>14. TypeOK'
  BY <1>1, <1>4, <1>8, <1>13 DEF TypeOK, Handling
<1>15. UnderWay'
  <2>1. \A s, t \in Replicas : merge'[s][t].new # <<>> => merge'[s][t].todo # <<>>
    BY <1>1, <1>11, <1>13 DEF UnderWay
  <2>2. \A s, t \in Replicas : run[s] = -1 => wire'[t][s] = <<>>
    <3>1. \A s, t \in Replicas : s # q \/ t # r => wire'[t][s] = wire[t][s]
      BY <1>1, <1>3 DEF TypeOK
    <3> QED
      BY <1>1, <1>7, <3>1 DEF UnderWay
  <2> QED
    BY <1>1, <1>4, <2>1, <2>2 DEF UnderWay, Op, Line
<1>16. Begun'
  BY <1>1, <1>4 DEF Begun
<1> QED
  BY <1>14, <1>15, <1>16 DEF BaseInv

LEMMA MergeReadBase ==
    ASSUME BaseInv, NEW q \in Replicas, NEW r \in Replicas, MergeRead(q, r) PROVE BaseInv'
<1>1. TypeOK /\ Begun /\ UnderWay
  BY DEF BaseInv
<1> DEFINE h == merge[q][r]
           v == value[<<q, h.of>>] + Delta(Head(h.todo))
<1>2. /\ h.todo # <<>>
      /\ merge' = [merge EXCEPT ![q][r].new = <<v>>]
      /\ UNCHANGED <<order, attr, lock, run, pc, idx, tmp, value, updates, wire, log>>
  BY DEF MergeRead
<1>3. merge \in [Replicas -> [Replicas -> Handling]] /\ h \in Handling
  BY <1>1 DEF TypeOK, Handling
<1>4. v \in Int
  <2>1. <<q, h.of>> \in Goroutine
    BY <1>3 DEF Handling, Goroutine
  <2>2. value[<<q, h.of>>] \in Int
    BY <1>1, <2>1 DEF TypeOK
  <2>3. Delta(Head(h.todo)) \in Int
    BY DEF Delta
  <2> HIDE DEF h
  <2> QED
    BY <2>2, <2>3
<1> HIDE DEF v
<1> DEFINE m == [h EXCEPT !.new = <<v>>]
<1>5. m \in Handling /\ m.todo # <<>>
  <2> HIDE DEF h
  <2>1. <<v>> \in Seq(Int)
    BY <1>4
  <2> QED
    BY <1>2, <1>3, <2>1 DEF Handling
<1>6. merge' = [merge EXCEPT ![q][r] = m]
  BY <1>2
<1> HIDE DEF m, h
<1>7. /\ merge' \in [Replicas -> [Replicas -> Handling]]
      /\ merge'[q][r] = m
      /\ \A s, t \in Replicas : s # q \/ t # r => merge'[s][t] = merge[s][t]
  BY <1>3, <1>5, <1>6
<1>8. TypeOK'
  BY <1>1, <1>2, <1>7 DEF TypeOK, Handling
<1>9. UnderWay'
  <2>1. \A s, t \in Replicas : merge'[s][t].new # <<>> => merge'[s][t].todo # <<>>
    BY <1>1, <1>5, <1>7 DEF UnderWay
  <2> QED
    BY <1>1, <1>2, <2>1 DEF UnderWay, Op, Line
<1>10. Begun'
  BY <1>1, <1>2 DEF Begun
<1> QED
  BY <1>8, <1>9, <1>10 DEF BaseInv

LEMMA MergeWriteBase ==
    ASSUME BaseInv, NEW q \in Replicas, NEW r \in Replicas, MergeWrite(q, r) PROVE BaseInv'
<1>1. TypeOK /\ Begun /\ UnderWay
  BY DEF BaseInv
<1> DEFINE h == merge[q][r]
           m == IF Len(h.todo) = 1 THEN NoMerge
                ELSE [h EXCEPT !.todo = Tail(@), !.new = <<>>]
<1>2. /\ h.new # <<>>
      /\ value' = [value EXCEPT ![<<q, h.of>>] = h.new[1]]
      /\ merge' = [merge EXCEPT ![q][r] = m]
      /\ UNCHANGED <<order, attr, lock, run, pc, idx, tmp, updates, wire, log>>
  BY DEF MergeWrite
<1>3. merge \in [Replicas -> [Replicas -> Handling]] /\ h \in Handling
  BY <1>1 DEF TypeOK, Handling
<1>4. h.todo # <<>> /\ h.todo \in Seq(Update)
  BY <1>1, <1>2, <1>3 DEF UnderWay, Handling
<1>5. m \in Handling /\ m.new = <<>>
  <2>1. NoMerge \in Handling /\ NoMerge.new = <<>>
    BY ActionsFacts DEF NoMerge, Handling
  <2>2. Tail(h.todo) \in Seq(Update)
    BY <1>4, HeadTailProperties
  <2> DEFINE t == Tail(h.todo)
             n == [h EXCEPT !.todo = t, !.new = <<>>]
  <2>3. n \in Handling /\ n.new = <<>>
    <3>1. t \in Seq(Update) /\ <<>> \in Seq(Int)
      BY <2>2
    <3> HIDE DEF h, t
    <3> QED
      BY <1>3, <3>1 DEF Handling
  <2>4. m = NoMerge \/ m = n
    OBVIOUS
  <2> HIDE DEF m, n
  <2> QED
    BY <2>1, <2>3, <2>4
<1>6. value' \in [Goroutine -> Int]
  <2>1. <<q, h.of>> \in Goroutine /\ h.new \in Seq(Int)
    BY <1>3 DEF Handling, Goroutine
  <2>2. h.new[1] \in Int
    BY <1>2, <2>1
  <2> QED
    BY <1>1, <1>2, <2>1, <2>2 DEF TypeOK
<1> HIDE DEF m, h
<1>7. /\ merge' \in [Replicas -> [Replicas -> Handling]]
      /\ merge'[q][r] = m
      /\ \A s, t \in Replicas : s # q \/ t # r => merge'[s][t] = merge[s][t]
  BY <1>2, <1>3, <1>5
<1>8. TypeOK'
  BY <1>1, <1>2, <1>6, <1>7 DEF TypeOK, Handling
<1>9. UnderWay'
  <2>1. \A s, t \in Replicas : merge'[s][t].new # <<>> => merge'[s][t].todo # <<>>
    BY <1>1, <1>5, <1>7 DEF UnderWay
  <2> QED
    BY <1>1, <1>2, <2>1 DEF UnderWay, Op, Line
<1>10. Begun'
  BY <1>1, <1>2 DEF Begun
<1> QED
  BY <1>8, <1>9, <1>10 DEF BaseInv

\* Every step keeps the types.
LEMMA NextBase == BaseInv /\ [Next]_vars => BaseInv'
<1> SUFFICES ASSUME BaseInv, [Next]_vars PROVE BaseInv'
  OBVIOUS
<1>1. CASE UNCHANGED vars
  BY <1>1 DEF vars, BaseInv, TypeOK, Begun, UnderWay, Op, Line
<1>2. ASSUME NEW r \in Replicas, Start(r) PROVE BaseInv'
  BY <1>2, StartBase
<1>3. ASSUME NEW g \in Goroutine, DoActions(g) PROVE BaseInv'
  BY <1>3, WakeBase, SeeTurnBase, AcquireLockBase, ReadBase, SetValBase, BroadcastBase,
     ReleaseLockBase, PassTurnBase DEF DoActions
<1>4. ASSUME NEW q \in Replicas, NEW r \in Replicas, HandleConnection(q, r) PROVE BaseInv'
  BY <1>4, ReceiveBase, MergeReadBase, MergeWriteBase DEF HandleConnection
<1>5. CASE Expire
  BY <1>5, ExpireBase
<1> QED
  BY <1>1, <1>2, <1>3, <1>4, <1>5 DEF Next
-----------------------------------------------------------------------------
(***************************************************************************)
(* The goroutines, while no interleaving left behind has a misplaced event.*)
(***************************************************************************)
\* A goroutine that is awake and not done is in the interleaving that every
\* replica is in, at an own line of its file that is not before the turn.
LEMMA AwakeFacts ==
    ASSUME ReplayInv, NEW g \in Goroutine, pc[g] \notin {"none", "sleep", "done"}
    PROVE  /\ g[1] \in Replicas /\ g[2] \in 0..Last
           /\ \A r \in Replicas : run[r] = g[2]
           /\ Latest(g[2])
           /\ attr \in 1..(N + 1)
           /\ idx[g] \in 1..N /\ Own(g, idx[g])
           /\ order[g[2]][idx[g]] \in 1..N
           /\ order[g[2]][idx[g]] >= attr
           /\ Lamport(g[2], idx[g]) = order[g[2]][idx[g]]
           /\ pc[g] \in Acting => order[g[2]][idx[g]] = attr
<1>1. TypeOK /\ RoundsOK /\ Placed
  BY DEF ReplayInv, BaseInv
<1>2. g[1] \in Replicas /\ g[2] \in 0..Last /\ g[2] \in Int /\ Last \in Nat /\ N \in Nat
  BY ActionsFacts DEF Goroutine
<1>3. \A r \in Replicas : run[r] \in Int
  BY <1>1, <1>2 DEF TypeOK
<1>4. \A r \in Replicas : run[r] = g[2]
  <2>1. \A r \in Replicas : run[r] >= g[2]
    BY <1>1 DEF RoundsOK
  <2>2. \A r \in Replicas : ~(g[2] < run[r])
    BY <1>1 DEF RoundsOK
  <2> QED
    BY <1>2, <1>3, <2>1, <2>2
<1>5. Latest(g[2])
  BY <1>2, <1>4 DEF Latest
<1>6. attr \in 1..(N + 1)
  <2>1. attr >= 1
    BY <1>1, <1>2, <1>4 DEF RoundsOK
  <2> QED
    BY <1>1, <1>2, <2>1 DEF TypeOK
<1>7. /\ idx[g] \in 1..N /\ Own(g, idx[g])
      /\ \A j \in 1..N : Own(g, j) => (j < idx[g] <=> order[g[2]][j] < attr)
      /\ pc[g] \in Acting => order[g[2]][idx[g]] = attr
  BY <1>1, <1>5 DEF Placed
<1>8. order[g[2]][idx[g]] \in 1..N /\ Lamport(g[2], idx[g]) = order[g[2]][idx[g]]
  BY <1>1, <1>2, <1>7, LineFacts
<1>9. order[g[2]][idx[g]] >= attr
  <2>1. ~(order[g[2]][idx[g]] < attr)
    BY <1>2, <1>7
  <2> QED
    BY <1>2, <1>6, <1>8, <2>1
<1> QED
  BY <1>2, <1>4, <1>5, <1>6, <1>7, <1>8, <1>9

\* One goroutine at most acts: the one whose event the turn is.
LEMMA OneActor ==
    ASSUME ReplayInv, NEW g \in Goroutine, NEW h \in Goroutine,
           pc[g] \in Acting, pc[h] \in Acting
    PROVE  g = h
<1>1. /\ \A r \in Replicas : run[r] = g[2]
      /\ g[1] \in Replicas /\ g[2] \in 0..Last
      /\ idx[g] \in 1..N /\ Own(g, idx[g]) /\ order[g[2]][idx[g]] = attr
  BY AwakeFacts DEF Acting
<1>2. /\ \A r \in Replicas : run[r] = h[2]
      /\ h[1] \in Replicas
      /\ idx[h] \in 1..N /\ Own(h, idx[h]) /\ order[h[2]][idx[h]] = attr
  BY AwakeFacts DEF Acting
<1>3. g[2] = h[2]
  BY <1>1, <1>2
<1>4. idx[g] = idx[h]
  BY <1>1, <1>2, <1>3 DEF ReplayInv, Distinct
<1>5. g[1] = h[1]
  BY <1>1, <1>2, <1>3, <1>4 DEF Own
<1> QED
  BY <1>3, <1>5 DEF Goroutine

\* Lines of one replica.
LEMMA SameReplica ==
    ASSUME TypeOK, NEW k \in 0..Last, NEW i \in 1..N, NEW j \in 1..N
    PROVE  Line(k, i).id = Line(k, j).id <=> Actions[order[k][i]].id = Actions[order[k][j]].id
BY LineFacts

\* When nothing can happen any more, the turn is that of a misplaced event: its
\* replica is not past it, so it waits before it, at a line of a later event.
LEMMA StopsThere ==
    ASSUME ReplayInv, NEW k \in 0..Last, Over(k), attr \in 1..N
    PROVE  Misplaced(k, attr)
<1>1. TypeOK /\ Distinct /\ Placed
  BY DEF ReplayInv, BaseInv
<1>2. /\ Last \in Nat /\ N \in Nat /\ k \in Int /\ Latest(k)
  BY ActionsFacts DEF Over, Latest
<1>3. PICK j \in 1..N : order[k][j] = attr
  BY <1>1, EveryEventHasALine
<1> DEFINE h == <<Actions[attr].id, k>>
<1>4. h \in Goroutine /\ h[2] = k /\ Own(h, j) /\ h \in Replicas \X (0..k)
  <2>1. Actions[attr].id \in Replicas
    BY ActionsFacts
  <2>2. k \in 0..k
    BY <1>2
  <2> QED
    BY <1>3, <2>1, <2>2 DEF Goroutine, Own
<1> HIDE DEF h
<1>5. pc[h] = "done" \/ (pc[h] = "spin" /\ attr # Lamport(k, idx[h]))
  BY <1>4 DEF Over, Settled, Waiting
<1>6. /\ idx[h] \in 1..(N + 1)
      /\ \A i \in 1..N : Own(h, i) => (i < idx[h] <=> order[k][i] < attr)
      /\ pc[h] = "done" => idx[h] = N + 1
      /\ pc[h] # "done" => idx[h] \in 1..N /\ Own(h, idx[h])
  BY <1>1, <1>2, <1>4, <1>5 DEF Placed
<1>7. ~(j < idx[h])
  BY <1>3, <1>4, <1>6
<1>8. pc[h] = "spin" /\ idx[h] \in 1..N /\ Own(h, idx[h])
  BY <1>2, <1>5, <1>6, <1>7
<1>9. order[k][idx[h]] \in 1..N /\ order[k][idx[h]] >= attr /\ order[k][idx[h]] # attr
  BY <1>4, <1>5, <1>8, AwakeFacts
<1>10. idx[h] < j
  BY <1>3, <1>7, <1>8, <1>9
<1>11. Line(k, idx[h]).id = Line(k, j).id
  <2>1. Actions[order[k][idx[h]]].id = Actions[order[k][j]].id
    BY <1>4, <1>8 DEF Own
  <2> QED
    BY <1>1, <1>8, <2>1, SameReplica
<1>12. order[k][idx[h]] > attr
  BY <1>9
<1> QED
  BY <1>3, <1>8, <1>10, <1>11, <1>12 DEF Misplaced

\* If the file has no misplaced event, every replica has got through it.
LEMMA SettledDone ==
    ASSUME ReplayInv, NEW k \in 0..Last, Settled(k), KeepsOwn(k),
           NEW g \in Goroutine, g[2] <= k
    PROVE  pc[g] = "done"
<1>1. TypeOK
  BY DEF ReplayInv, BaseInv
<1>2. /\ Last \in Nat /\ N \in Nat /\ k \in Int
      /\ g[1] \in Replicas /\ g[2] \in 0..Last /\ g[2] \in 0..k /\ g = <<g[1], g[2]>>
  BY ActionsFacts DEF Goroutine
<1> SUFFICES ASSUME pc[g] # "done" PROVE FALSE
  OBVIOUS
<1>3. pc[g] = "spin" /\ attr # Lamport(g[2], idx[g])
  <2>1. g \in Replicas \X (0..k)
    BY <1>2
  <2> QED
    BY <2>1 DEF Settled, Waiting
<1>4. /\ \A r \in Replicas : run[r] = g[2]
      /\ attr \in 1..(N + 1)
      /\ order[g[2]][idx[g]] \in 1..N /\ order[g[2]][idx[g]] >= attr
      /\ order[g[2]][idx[g]] # attr
  BY <1>3, AwakeFacts
<1>5. attr \in 1..N
  BY <1>2, <1>4
<1>6. g[2] = k
  <2>1. run[g[1]] >= k
    BY <1>2 DEF Settled
  <2> QED
    BY <1>2, <1>4, <2>1
<1>7. Over(k)
  BY <1>4, <1>6 DEF Over
<1>8. Misplaced(k, attr)
  BY <1>5, <1>7, StopsThere
<1> QED
  BY <1>5, <1>8 DEF KeepsOwn
-----------------------------------------------------------------------------
(***************************************************************************)
(* The initial states.                                                     *)
(***************************************************************************)
LEMMA InitInv == Init => ReplayInv
<1> SUFFICES ASSUME Init PROVE ReplayInv
  OBVIOUS
<1>1. N \in Nat /\ Last \in Nat /\ \A p \in Permuted : \A i, j \in 1..N : p[i] = p[j] => i = j
  BY ActionsFacts, ReplayAssumption
<1>2. order[0] = [i \in 1..N |-> i] /\ \A k \in 1..Last : order[k] \in Permuted
  BY DEF Init
<1>3. BaseInv
  BY InitBase
<1>4. Distinct
  <2> SUFFICES ASSUME NEW k \in 0..Last
               PROVE  \A i, j \in 1..N : order[k][i] = order[k][j] => i = j
    BY DEF Distinct
  <2>1. CASE k = 0
    BY <1>2, <2>1
  <2>2. CASE k # 0
    <3>1. order[k] \in Permuted
      BY <1>1, <1>2, <2>2
    <3> QED
      BY <1>1, <3>1
  <2> QED
    BY <2>1, <2>2
<1>5. RoundsOK
  BY <1>1 DEF Init, RoundsOK, Goroutine
<1>6. Placed /\ Asleep /\ LockOK
  BY DEF Init, Placed, Asleep, LockOK
<1>7. InOrder
  <2>1. \A t \in 1..N : ~(t < attr)
    BY <1>1 DEF Init
  <2> QED
    BY <2>1 DEF InOrder
<1>8. LogOK
  <2>1. \A k \in 0..Last : log[k] = <<>>
    BY DEF Init
  <2>2. \A g \in Goroutine : run[g[1]] # g[2]
    BY <1>1 DEF Init, Goroutine
  <2> QED
    BY <2>1, <2>2 DEF LogOK
<1>9. Beginning
  BY DEF Init, Beginning
<1> QED
  BY <1>3, <1>4, <1>5, <1>6, <1>7, <1>8, <1>9 DEF ReplayInv
-----------------------------------------------------------------------------
(***************************************************************************)
(* The start of an interleaving, and of its replay.                        *)
(***************************************************************************)
\* The files stay as they are.
LEMMA FilesStay ==
    ASSUME UNCHANGED order
    PROVE  \A k \in 0..Last : \A t \in 1..N : Misplaced(k, t)' <=> Misplaced(k, t)
BY DEF Misplaced, Line

\* What a step leaves behind undisturbed has no misplaced event.
LEMMA LeftBehind ==
    ASSUME UNCHANGED order, Undisturbed'
    PROVE  \A r \in Replicas : \A k \in 0..(run'[r] - 1) : KeepsOwn(k)
BY DEF Undisturbed, KeepsOwn, Misplaced, Line

LEMMA StartInv ==
    ASSUME ReplayInv, BaseInv', NEW r \in Replicas, Start(r), Undisturbed' PROVE ReplayInv'
<1> DEFINE k == run[r] + 1
<1>1. TypeOK /\ Distinct /\ RoundsOK /\ LockOK /\ LogOK /\ Beginning
  BY DEF ReplayInv, BaseInv
<1>2. N \in Nat /\ Last \in Nat
  BY ActionsFacts
<1>3. \A q \in Replicas : run[q] \in -1..Last
  BY <1>1 DEF TypeOK
<1>4. /\ k \in 0..Last /\ run[r] = k - 1 /\ run' = [run EXCEPT ![r] = k]
      /\ attr' = 1 /\ pc' = [pc EXCEPT ![<<r, k>>] = "sleep"]
      /\ UNCHANGED <<order, lock, idx, tmp, value, updates, wire, merge, log>>
  BY <1>2, <1>3 DEF Start
<1>5. <<r, k>> \in Goroutine
  BY <1>4 DEF Goroutine
<1>6. run[r] >= 0 => Settled(run[r])
  BY DEF Start
<1>7. \A q \in Replicas : run[q] \in {k - 1, k}
  <2> SUFFICES ASSUME NEW q \in Replicas PROVE run[q] \in {k - 1, k}
    OBVIOUS
  <2>1. run[q] <= run[r] + 1
    BY <1>1 DEF RoundsOK
  <2>2. run[q] >= run[r]
    <3>1. CASE run[r] >= 0
      BY <1>6, <3>1 DEF Settled
    <3>2. CASE run[r] = -1
      BY <1>3, <3>2
    <3> QED
      BY <1>3, <3>1, <3>2
  <2> QED
    BY <1>3, <1>4, <2>1, <2>2
<1>8. \A q \in Replicas : run'[q] = IF q = r THEN k ELSE run[q]
  BY <1>1, <1>4 DEF TypeOK
<1>9. \A g \in Goroutine : pc'[g] = IF g = <<r, k>> THEN "sleep" ELSE pc[g]
  BY <1>1, <1>4, <1>5 DEF TypeOK
<1>10. \A g \in Goroutine : g[1] \in Replicas /\ g[2] \in 0..Last /\ g = <<g[1], g[2]>>
  BY DEF Goroutine
<1>11. pc[<<r, k>>] = "none"
  BY <1>1, <1>3, <1>4, <1>5 DEF RoundsOK
<1>12. \A g \in Goroutine : g[2] < k => pc[g] = "done"
  <2> SUFFICES ASSUME NEW g \in Goroutine, g[2] < k PROVE pc[g] = "done"
    OBVIOUS
  <2>1. run[r] \in 0..Last /\ g[2] <= run[r]
    BY <1>2, <1>3, <1>4, <1>10
  <2>2. KeepsOwn(run[r])
    <3>1. run[r] \in 0..(run'[r] - 1)
      BY <1>4, <1>8, <2>1
    <3> QED
      BY <1>4, <3>1, LeftBehind
  <2> QED
    BY <1>6, <2>1, <2>2, SettledDone
<1>13. \A g \in Goroutine : g[2] >= k => pc[g] \in {"none", "sleep"}
  <2> SUFFICES ASSUME NEW g \in Goroutine, g[2] >= k PROVE pc[g] \in {"none", "sleep"}
    OBVIOUS
  <2>1. ~(run[r] >= g[2])
    BY <1>2, <1>3, <1>4, <1>10
  <2> QED
    BY <1>1, <2>1 DEF RoundsOK
<1> HIDE DEF k
<1>14. Distinct'
  BY <1>1, <1>4 DEF Distinct
<1>15. RoundsOK'
  <2>1. \A q, s \in Replicas : run'[q] <= run'[s] + 1
    BY <1>4, <1>7, <1>8
  <2>2. \A g \in Goroutine : pc'[g] = "none" <=> g[2] > run'[g[1]]
    <3> SUFFICES ASSUME NEW g \in Goroutine PROVE pc'[g] = "none" <=> g[2] > run'[g[1]]
      OBVIOUS
    <3>1. pc[g] = "none" <=> g[2] > run[g[1]]
      BY <1>1 DEF RoundsOK
    <3>2. CASE g = <<r, k>>
      BY <1>4, <1>8, <1>9, <3>2
    <3>3. CASE g # <<r, k>> /\ g[1] = r
      <4>1. g[2] # k /\ g[2] \in Int /\ k \in Int
        BY <1>4, <1>10, <3>3
      <4> QED
        BY <1>4, <1>8, <1>9, <3>1, <3>3, <4>1
    <3>4. CASE g[1] # r
      BY <1>8, <1>9, <1>10, <3>1, <3>4
    <3> QED
      BY <3>2, <3>3, <3>4
  <2>3. \A g \in Goroutine, q \in Replicas : g[2] < run'[q] => pc'[g] = "done"
    <3> SUFFICES ASSUME NEW g \in Goroutine, NEW q \in Replicas, g[2] < run'[q]
                 PROVE  pc'[g] = "done"
      OBVIOUS
    <3>1. g[2] < k
      BY <1>4, <1>7, <1>8, <1>10
    <3>2. g # <<r, k>>
      BY <1>4, <3>1
    <3> QED
      BY <1>9, <1>12, <3>1, <3>2
  <2>4. \A g \in Goroutine, q \in Replicas : pc'[g] \notin {"none", "sleep"} => run'[q] >= g[2]
    <3> SUFFICES ASSUME NEW g \in Goroutine, NEW q \in Replicas,
                        pc'[g] \notin {"none", "sleep"}
                 PROVE  run'[q] >= g[2]
      OBVIOUS
    <3>1. ~(g[2] >= k)
      BY <1>9, <1>13
    <3> QED
      BY <1>4, <1>7, <1>8, <1>10, <3>1
  <2> QED
    BY <1>4, <2>1, <2>2, <2>3, <2>4 DEF RoundsOK
<1>16. Placed'
  <2> SUFFICES ASSUME NEW g \in Goroutine, pc'[g] \notin {"none", "sleep"}, Latest(g[2])'
               PROVE  FALSE
    BY DEF Placed
  <2>1. ~(g[2] >= k)
    BY <1>9, <1>13
  <2>2. run'[r] <= g[2]
    BY DEF Latest
  <2> QED
    BY <1>4, <1>8, <1>10, <2>1, <2>2
<1>17. Asleep'
  <2> SUFFICES ASSUME NEW g \in Goroutine, NEW j \in 1..N
               PROVE  order'[g[2]][j] >= attr'
    BY DEF Asleep
  <2>1. order[g[2]][j] \in 1..N
    BY <1>1, <1>10, LineFacts
  <2> QED
    BY <1>2, <1>4, <2>1
<1>18. LockOK'
  <2> SUFFICES ASSUME lock PROVE \E g \in Goroutine : pc'[g] \in {"work", "set", "release"}
    BY <1>4 DEF LockOK
  <2>1. PICK g \in Goroutine : pc[g] \in {"work", "set", "release"}
    BY <1>1 DEF LockOK
  <2> QED
    BY <1>9, <1>11, <2>1
<1>19. LogOK'
  <2>1. ASSUME NEW i \in 0..Last, \A q \in Replicas : run'[q] < i
        PROVE  log'[i] = <<>>
    <3>1. \A q \in Replicas : run[q] < i
      BY <1>4, <1>7, <1>8, <2>1
    <3> QED
      BY <1>1, <1>4, <3>1 DEF LogOK
  <2>2. ASSUME NEW g \in Goroutine, run'[g[1]] = g[2], Latest(g[2])'
        PROVE  /\ \A h \in Goroutine : h[2] = g[2] => pc'[h] \notin {"release", "pass"}
               /\ Len(log'[g[2]]) = attr' - 1
    <3>1. g[2] = k
      <4>1. run'[r] <= g[2]
        BY <2>2 DEF Latest
      <4> QED
        BY <1>4, <1>7, <1>8, <1>10, <2>2, <4>1
    <3>2. \A h \in Goroutine : h[2] = k => pc[h] \notin {"release", "pass"}
      BY <1>4, <1>13
    <3>3. Len(log[k]) = 0
      <4>1. CASE \A q \in Replicas : run[q] < k
        BY <1>1, <1>4, <4>1 DEF LogOK
      <4>2. CASE \E q \in Replicas : ~(run[q] < k)
        <5>1. PICK q \in Replicas : run[q] = k
          BY <1>4, <1>7, <4>2
        <5>2. attr = 1
          BY <1>1, <1>4, <5>1 DEF RoundsOK
        <5>3. <<q, k>> \in Goroutine /\ Latest(k)
          BY <1>4, <1>7 DEF Goroutine, Latest
        <5>4. Len(log[k]) = attr - 1
          BY <1>1, <3>2, <5>1, <5>3 DEF LogOK
        <5> QED
          BY <5>2, <5>4
      <4> QED
        BY <4>1, <4>2
    <3> QED
      BY <1>4, <1>9, <3>1, <3>2, <3>3
  <2> QED
    BY <2>1, <2>2 DEF LogOK
<1>20. InOrder'
  <2>1. \A t \in 1..N : ~(t < attr')
    BY <1>2, <1>4
  <2> QED
    BY <2>1 DEF InOrder
<1>21. Beginning'
  BY <1>1, <1>4 DEF Beginning
<1> QED
  BY <1>14, <1>15, <1>16, <1>17, <1>18, <1>19, <1>20, <1>21 DEF ReplayInv
-----------------------------------------------------------------------------
(***************************************************************************)
(* What the steps of a goroutine have in common.                           *)
(***************************************************************************)
\* Where the rounds, the turn and the replicas are.
TurnOK == Distinct /\ RoundsOK /\ Placed /\ Asleep /\ InOrder

\* A goroutine whose turn it is goes on at its line.
LEMMA GoOn ==
    ASSUME ReplayInv, NEW g \in Goroutine, pc[g] \notin {"none", "sleep", "done"},
           order[g[2]][idx[g]] = attr,
           NEW p \in Acting, pc' = [pc EXCEPT ![g] = p], UNCHANGED <<order, attr, run, idx>>
    PROVE  /\ TurnOK'
           /\ \A h \in Goroutine : pc'[h] = IF h = g THEN p ELSE pc[h]
<1>1. Distinct /\ RoundsOK /\ Placed /\ Asleep /\ InOrder
  BY DEF ReplayInv
<1>2. p \in {"lock", "work", "set", "release", "pass"}
  BY DEF Acting
<1>3. \A h \in Goroutine : pc'[h] = IF h = g THEN p ELSE pc[h]
  BY GoesOn DEF ReplayInv
<1>4. g[1] \in Replicas /\ \A r \in Replicas : run[r] = g[2]
  BY AwakeFacts
<1>5. Distinct'
  BY <1>1 DEF Distinct
<1>6. RoundsOK'
  <2>1. \A h \in Goroutine : pc'[h] = "none" <=> h[2] > run[h[1]]
    BY <1>1, <1>2, <1>3 DEF RoundsOK
  <2>2. \A h \in Goroutine, r \in Replicas : h[2] < run[r] => pc'[h] = "done"
    BY <1>1, <1>3 DEF RoundsOK
  <2>3. \A h \in Goroutine, r \in Replicas : pc'[h] \notin {"none", "sleep"} => run[r] >= h[2]
    BY <1>1, <1>3 DEF RoundsOK
  <2> QED
    BY <1>1, <2>1, <2>2, <2>3 DEF RoundsOK
<1>7. Placed'
  <2> SUFFICES ASSUME NEW h \in Goroutine, pc'[h] \notin {"none", "sleep"}, Latest(h[2])
               PROVE  /\ idx[h] \in 1..(N + 1)
                      /\ \A j \in 1..N : Own(h, j) => (j < idx[h] <=> order[h[2]][j] < attr)
                      /\ pc'[h] = "done" => idx[h] = N + 1
                      /\ pc'[h] # "done" => idx[h] \in 1..N /\ Own(h, idx[h])
                      /\ pc'[h] \in Acting => order[h[2]][idx[h]] = attr
    BY DEF Placed, Latest, Own
  <2>1. CASE h = g
    BY <1>1, <1>2, <1>3, <2>1 DEF Placed
  <2>2. CASE h # g
    BY <1>1, <1>3, <2>2 DEF Placed
  <2> QED
    BY <2>1, <2>2
<1>8. Asleep'
  <2> SUFFICES ASSUME NEW h \in Goroutine, pc'[h] = "sleep", NEW j \in 1..N, Own(h, j)
               PROVE  order[h[2]][j] >= attr
    BY DEF Asleep, Own
  <2>1. pc[h] = "sleep"
    BY <1>2, <1>3
  <2> QED
    BY <1>1, <2>1 DEF Asleep
<1>9. InOrder'
  BY <1>1, FilesStay DEF InOrder
<1> QED
  BY <1>3, <1>5, <1>6, <1>7, <1>8, <1>9 DEF TurnOK

\* A goroutine goes to its next own line: its events before line i are before the
\* new turn, the others are not, and no one else's event is skipped.
LEMMA MoveOn ==
    ASSUME ReplayInv, NEW g \in Goroutine, pc[g] \notin {"none", "done"},
           \A r \in Replicas : run[r] = g[2],
           NEW i \in 1..(N + 1), Continue(g, i), UNCHANGED <<order, run>>,
           attr \in 1..(N + 1), attr' \in 1..(N + 1), attr <= attr',
           \A j \in 1..N : Own(g, j) => (j < i <=> order[g[2]][j] < attr'),
           \A h \in Goroutine : h # g /\ h[2] = g[2] =>
             /\ pc[h] \in Acting => attr' = attr
             /\ \A j \in 1..N : Own(h, j) /\ order[h[2]][j] >= attr => order[h[2]][j] >= attr',
           \A t \in attr..(attr' - 1) : ~Misplaced(g[2], t)
    PROVE  /\ TurnOK'
           /\ pc'[g] \in {"spin", "done"}
           /\ \A h \in Goroutine : h # g => pc'[h] = pc[h] /\ idx'[h] = idx[h]
<1>1. TypeOK /\ Distinct /\ RoundsOK /\ Placed /\ Asleep /\ InOrder
  BY DEF ReplayInv, BaseInv
<1>2. N \in Nat /\ Last \in Nat /\ g[1] \in Replicas /\ g[2] \in 0..Last
  BY ActionsFacts DEF Goroutine
<1> DEFINE n == NextOwn(g, i)
<1>3. /\ n \in 1..(N + 1) /\ n \in i..(N + 1)
      /\ n <= N => Own(g, n)
      /\ \A j \in i..N : Own(g, j) => n <= j
  BY <1>1, NextOwnFacts
<1>4. /\ pc'[g] = IF n > N THEN "done" ELSE "spin"
      /\ idx'[g] = n
      /\ \A h \in Goroutine : h # g => pc'[h] = pc[h] /\ idx'[h] = idx[h]
  <2>1. BaseInv /\ UNCHANGED run
    BY DEF ReplayInv
  <2>2. \A r \in Replicas : run[r] >= 0
    BY <1>2
  <2>3. pc[g] # "none"
    OBVIOUS
  <2> QED
    BY <2>1, <2>2, <2>3, Continues
<1> HIDE DEF n
<1>7. \A h \in Goroutine : h[1] \in Replicas /\ h[2] \in 0..Last
  BY DEF Goroutine
<1>8. Distinct'
  BY <1>1 DEF Distinct
<1>9. RoundsOK'
  <2>1. \A h \in Goroutine : pc'[h] = "none" <=> h[2] > run[h[1]]
    BY <1>1, <1>4 DEF RoundsOK
  <2>2. \A h \in Goroutine, r \in Replicas : h[2] < run[r] => pc'[h] = "done"
    BY <1>1, <1>4 DEF RoundsOK
  <2>3. \A h \in Goroutine, r \in Replicas : pc'[h] \notin {"none", "sleep"} => run[r] >= h[2]
    BY <1>1, <1>2, <1>4 DEF RoundsOK
  <2>4. \A r, q \in Replicas : ~(run[r] > run[q])
    BY <1>2
  <2> QED
    BY <1>1, <2>1, <2>2, <2>3, <2>4 DEF RoundsOK
<1>10. \A h \in Goroutine : Latest(h[2]) /\ pc'[h] \notin {"none", "sleep"} => h[2] = g[2]
  <2> SUFFICES ASSUME NEW h \in Goroutine, Latest(h[2]), pc'[h] \notin {"none", "sleep"}
               PROVE  h[2] = g[2]
    OBVIOUS
  <2>1. run[g[1]] <= h[2] /\ run[g[1]] >= h[2]
    BY <1>2, <1>9 DEF Latest, RoundsOK
  <2> QED
    BY <1>2, <1>7, <2>1
<1>11. Placed'
  <2> SUFFICES ASSUME NEW h \in Goroutine, pc'[h] \notin {"none", "sleep"}, Latest(h[2])
               PROVE  /\ idx'[h] \in 1..(N + 1)
                      /\ \A j \in 1..N : Own(h, j) => (j < idx'[h] <=> order[h[2]][j] < attr')
                      /\ pc'[h] = "done" => idx'[h] = N + 1
                      /\ pc'[h] # "done" => idx'[h] \in 1..N /\ Own(h, idx'[h])
                      /\ pc'[h] \in Acting => order[h[2]][idx'[h]] = attr'
    BY DEF Placed, Latest, Own
  <2>1. CASE h = g
    <3>1. pc'[g] \notin Acting /\ (pc'[g] = "done" => n = N + 1) /\ (pc'[g] # "done" => n \in 1..N)
      BY <1>2, <1>3, <1>4 DEF Acting
    <3>2. \A j \in 1..N : Own(g, j) => (j < n <=> j < i)
      BY <1>2, <1>3
    <3>3. \A j \in 1..N : Own(g, j) => (j < n <=> order[g[2]][j] < attr')
      BY <3>2
    <3> QED
      BY <1>2, <1>3, <1>4, <2>1, <3>1, <3>3
  <2>2. CASE h # g
    <3>1. h[2] = g[2] /\ pc'[h] = pc[h] /\ idx'[h] = idx[h]
      BY <1>4, <1>10, <2>2
    <3>2. /\ idx[h] \in 1..(N + 1)
          /\ \A j \in 1..N : Own(h, j) => (j < idx[h] <=> order[h[2]][j] < attr)
          /\ pc[h] = "done" => idx[h] = N + 1
          /\ pc[h] # "done" => idx[h] \in 1..N /\ Own(h, idx[h])
          /\ pc[h] \in Acting => order[h[2]][idx[h]] = attr
      BY <1>1, <3>1 DEF Placed
    <3>3. \A j \in 1..N : Own(h, j) => (order[h[2]][j] < attr <=> order[h[2]][j] < attr')
      <4> SUFFICES ASSUME NEW j \in 1..N, Own(h, j)
                   PROVE  order[h[2]][j] < attr <=> order[h[2]][j] < attr'
        OBVIOUS
      <4>1. order[h[2]][j] \in 1..N
        BY <1>1, <1>7, LineFacts
      <4>2. order[h[2]][j] >= attr => order[h[2]][j] >= attr'
        BY <2>2, <3>1
      <4> QED
        BY <1>2, <4>1, <4>2
    <3>4. pc[h] \in Acting => attr' = attr
      BY <2>2, <3>1
    <3> QED
      BY <3>1, <3>2, <3>3, <3>4
  <2> QED
    BY <2>1, <2>2
<1>12. Asleep'
  <2> SUFFICES ASSUME NEW h \in Goroutine, pc'[h] = "sleep", NEW j \in 1..N, Own(h, j)
               PROVE  order[h[2]][j] >= attr'
    BY DEF Asleep, Own
  <2>1. h # g /\ pc[h] = "sleep"
    BY <1>4
  <2>2. h[2] = g[2]
    <3>1. ~(h[2] > run[h[1]]) /\ ~(h[2] < run[h[1]]) /\ run[h[1]] = g[2]
      BY <1>1, <1>7, <2>1 DEF RoundsOK
    <3> QED
      BY <1>2, <1>7, <3>1
  <2>3. order[h[2]][j] >= attr
    BY <1>1, <2>1 DEF Asleep
  <2> QED
    BY <2>1, <2>2, <2>3
<1>13. InOrder'
  <2> SUFFICES ASSUME NEW k \in 0..Last, \A r \in Replicas : run[r] = k,
                      NEW t \in 1..N, t < attr'
               PROVE  ~Misplaced(k, t)
    BY FilesStay DEF InOrder
  <2>1. k = g[2]
    BY <1>2
  <2>2. CASE t < attr
    BY <1>1, <2>2 DEF InOrder
  <2>3. CASE ~(t < attr)
    BY <1>2, <2>1, <2>3
  <2> QED
    BY <2>2, <2>3
<1> QED
  BY <1>4, <1>8, <1>9, <1>11, <1>12, <1>13 DEF TurnOK

\* A step that executes nothing and passes no turn leaves the history right.
LEMMA LogStays ==
    ASSUME ReplayInv, UNCHANGED <<attr, run, log>>,
           \A h \in Goroutine : pc'[h] \in {"release", "pass"} <=> pc[h] \in {"release", "pass"}
    PROVE  LogOK' /\ Beginning'
<1>1. LogOK /\ Beginning
  BY DEF ReplayInv
<1>2. LogOK'
  <2>1. ASSUME NEW k \in 0..Last, \A r \in Replicas : run'[r] < k PROVE log'[k] = <<>>
    BY <1>1, <2>1 DEF LogOK
  <2>2. ASSUME NEW g \in Goroutine, run'[g[1]] = g[2], Latest(g[2])'
        PROVE  /\ (\E h \in Goroutine : h[2] = g[2] /\ pc'[h] \in {"release", "pass"})
                    => Len(log'[g[2]]) = attr'
               /\ (\A h \in Goroutine : h[2] = g[2] => pc'[h] \notin {"release", "pass"})
                    => Len(log'[g[2]]) = attr' - 1
    <3>1. run[g[1]] = g[2] /\ Latest(g[2])
      BY <2>2 DEF Latest
    <3> QED
      BY <1>1, <3>1 DEF LogOK
  <2> QED
    BY <2>1, <2>2 DEF LogOK
<1>3. Beginning'
  BY <1>1 DEF Beginning
<1> QED
  BY <1>2, <1>3

\* An event executed is the next one of the recorded run.
LEMMA LogGrows ==
    ASSUME ReplayInv, NEW g \in Goroutine, pc[g] \in {"work", "set"},
           UNCHANGED <<attr, run>>, pc' = [pc EXCEPT ![g] = "release"],
           log' = [log EXCEPT ![g[2]] = Append(@, order[g[2]][idx[g]])]
    PROVE  LogOK' /\ Beginning'
<1>1. TypeOK /\ LogOK /\ Beginning
  BY DEF ReplayInv, BaseInv
<1>2. /\ g[1] \in Replicas /\ g[2] \in 0..Last /\ \A r \in Replicas : run[r] = g[2]
      /\ Latest(g[2]) /\ attr \in 1..(N + 1)
      /\ order[g[2]][idx[g]] = attr /\ order[g[2]][idx[g]] \in 1..N
  BY AwakeFacts DEF Acting
<1>3. N \in Nat /\ Last \in Nat
  BY ActionsFacts
<1>4. \A h \in Goroutine : pc[h] \notin {"release", "pass"}
  <2> SUFFICES ASSUME NEW h \in Goroutine, pc[h] \in {"release", "pass"} PROVE FALSE
    OBVIOUS
  <2>1. g = h
    BY OneActor DEF Acting
  <2> QED
    BY <2>1
<1>5. log[g[2]] \in Seq(1..N) /\ Len(log[g[2]]) = attr - 1
  BY <1>1, <1>2, <1>4 DEF TypeOK, LogOK
<1>6. /\ log'[g[2]] = Append(log[g[2]], attr)
      /\ \A k \in 0..Last : k # g[2] => log'[k] = log[k]
  <2>1. Append(log[g[2]], attr) \in Seq(1..N)
    BY <1>2, <1>5, AppendProperties
  <2> QED
    BY <1>1, <1>2, <2>1 DEF TypeOK
<1>7. /\ Len(log'[g[2]]) = attr
      /\ \A i \in 1..(attr - 1) : log'[g[2]][i] = log[g[2]][i]
      /\ log'[g[2]][attr] = attr
  <2>1. attr \in 1..N
    BY <1>2
  <2>2. /\ Len(Append(log[g[2]], attr)) = Len(log[g[2]]) + 1
        /\ \A i \in 1..Len(log[g[2]]) : Append(log[g[2]], attr)[i] = log[g[2]][i]
        /\ Append(log[g[2]], attr)[Len(log[g[2]]) + 1] = attr
    BY <1>5, <2>1, AppendProperties
  <2>3. attr \in Int /\ Len(log[g[2]]) + 1 = attr
    BY <1>3, <1>5, <2>1
  <2> QED
    BY <1>5, <1>6, <2>2, <2>3
<1>8. Beginning'
  <2> SUFFICES ASSUME NEW k \in 0..Last, NEW i \in 1..Len(log'[k]) PROVE log'[k][i] = i
    BY DEF Beginning
  <2>1. CASE k # g[2]
    BY <1>1, <1>6, <2>1 DEF Beginning
  <2>2. CASE k = g[2] /\ i = attr
    BY <1>7, <2>2
  <2>3. CASE k = g[2] /\ i # attr
    <3>1. i \in 1..(attr - 1) /\ i \in 1..Len(log[g[2]])
      BY <1>2, <1>3, <1>5, <1>7, <2>3
    <3> QED
      BY <1>1, <1>2, <1>7, <2>3, <3>1 DEF Beginning
  <2> QED
    BY <2>1, <2>2, <2>3
<1>9. pc'[g] = "release"
  BY <1>1 DEF TypeOK
<1>10. LogOK'
  <2>1. ASSUME NEW k \in 0..Last, \A r \in Replicas : run'[r] < k PROVE log'[k] = <<>>
    <3>1. k # g[2] /\ \A r \in Replicas : run[r] < k
      BY <1>2, <1>3, <2>1
    <3> QED
      BY <1>1, <1>6, <3>1 DEF LogOK
  <2>2. ASSUME NEW h \in Goroutine, run'[h[1]] = h[2]
        PROVE  /\ Len(log'[h[2]]) = attr'
               /\ \E f \in Goroutine : f[2] = h[2] /\ pc'[f] \in {"release", "pass"}
    <3>1. h[2] = g[2]
      BY <1>2, <2>2 DEF Goroutine
    <3> QED
      BY <1>7, <1>9, <3>1
  <2> QED
    BY <2>1, <2>2 DEF LogOK
<1> QED
  BY <1>8, <1>10
-----------------------------------------------------------------------------
(***************************************************************************)
(* do_actions, step by step.                                               *)
(***************************************************************************)
LEMMA WakeInv == ASSUME ReplayInv, BaseInv', NEW g \in Goroutine, Wake(g) PROVE ReplayInv'
<1>1. TypeOK /\ RoundsOK /\ Asleep /\ LockOK
  BY DEF ReplayInv, BaseInv
<1>2. N \in Nat /\ Last \in Nat /\ g[1] \in Replicas /\ g[2] \in 0..Last
  BY ActionsFacts DEF Goroutine
<1>3. /\ pc[g] = "sleep" /\ \A r \in Replicas : run[r] >= g[2]
      /\ Continue(g, 1)
      /\ UNCHANGED <<order, attr, lock, run, tmp, value, updates, wire, merge, log>>
  BY DEF Wake
<1>4. \A r \in Replicas : run[r] = g[2]
  <2>1. \A r \in Replicas : ~(g[2] < run[r]) /\ run[r] \in Int
    BY <1>1, <1>2, <1>3, SMTT(40) DEF RoundsOK, TypeOK
  <2> QED
    BY <1>2, <1>3, <2>1
<1>5. attr \in 1..(N + 1)
  <2>1. attr >= 1
    BY <1>1, <1>2, <1>4 DEF RoundsOK
  <2> QED
    BY <1>1, <1>2, <2>1 DEF TypeOK
<1>6. \A j \in 1..N : Own(g, j) => (j < 1 <=> order[g[2]][j] < attr)
  <2> SUFFICES ASSUME NEW j \in 1..N, Own(g, j) PROVE ~(j < 1) /\ ~(order[g[2]][j] < attr)
    OBVIOUS
  <2>1. order[g[2]][j] >= attr
    BY <1>1, <1>3 DEF Asleep
  <2>2. order[g[2]][j] \in 1..N
    BY <1>1, <1>2, LineFacts
  <2> QED
    BY <1>2, <1>5, <2>1, <2>2
<1>7. 1 \in 1..(N + 1) /\ attr <= attr /\ attr' = attr
  BY <1>2, <1>3, <1>5
<1>8. \A t \in attr..(attr' - 1) : ~Misplaced(g[2], t)
  BY <1>5, <1>7
<1>9. /\ TurnOK'
      /\ pc'[g] \in {"spin", "done"}
      /\ \A h \in Goroutine : h # g => pc'[h] = pc[h] /\ idx'[h] = idx[h]
  <2>1. UNCHANGED <<order, run>> /\ pc[g] \notin {"none", "done"}
    BY <1>3
  <2>2. \A h \in Goroutine : h # g /\ h[2] = g[2] =>
          /\ pc[h] \in Acting => attr' = attr
          /\ \A j \in 1..N : Own(h, j) /\ order[h[2]][j] >= attr => order[h[2]][j] >= attr'
    BY <1>7
  <2> QED
    BY <1>3, <1>4, <1>5, <1>6, <1>7, <1>8, <2>1, <2>2, MoveOn
<1>10. LockOK'
  BY <1>1, <1>3, <1>9 DEF LockOK
<1>11. LogOK' /\ Beginning'
  <2>1. \A h \in Goroutine : pc'[h] \in {"release", "pass"} <=> pc[h] \in {"release", "pass"}
    BY <1>3, <1>9
  <2> QED
    BY <1>3, <2>1, LogStays
<1> QED
  BY <1>9, <1>10, <1>11 DEF ReplayInv, TurnOK

LEMMA SeeTurnInv ==
    ASSUME ReplayInv, BaseInv', NEW g \in Goroutine, SeeTurn(g) PROVE ReplayInv'
<1>1. /\ pc[g] = "spin" /\ attr = Lamport(g[2], idx[g])
      /\ pc' = [pc EXCEPT ![g] = "lock"] /\ UNCHANGED <<order, attr, lock, run, idx, log>>
  BY DEF SeeTurn
<1>2. order[g[2]][idx[g]] = attr /\ "lock" \in Acting
  BY <1>1, AwakeFacts DEF Acting
<1>3. TurnOK' /\ \A h \in Goroutine : pc'[h] = IF h = g THEN "lock" ELSE pc[h]
  BY <1>1, <1>2, GoOn
<1>4. LockOK'
  BY <1>1, <1>3 DEF ReplayInv, LockOK
<1>5. LogOK' /\ Beginning'
  BY <1>1, <1>3, LogStays
<1> QED
  BY <1>3, <1>4, <1>5 DEF ReplayInv, TurnOK

\* The lock is never found taken: only who acts sets it, and that is g alone.
LEMMA AcquireLockInv ==
    ASSUME ReplayInv, BaseInv', NEW g \in Goroutine, AcquireLock(g) PROVE ReplayInv'
<1>1. pc[g] = "lock" /\ order[g[2]][idx[g]] = attr /\ "work" \in Acting
  BY AwakeFacts DEF AcquireLock, Acting
<1>2. ~lock
  <2> SUFFICES ASSUME lock PROVE FALSE
    OBVIOUS
  <2>1. PICK h \in Goroutine : pc[h] \in {"work", "set", "release"}
    BY DEF ReplayInv, LockOK
  <2>2. g = h
    BY <1>1, <2>1, OneActor DEF Acting
  <2> QED
    BY <1>1, <2>1, <2>2
<1>3. /\ pc' = [pc EXCEPT ![g] = "work"]
      /\ UNCHANGED <<order, attr, run, idx, log>>
  BY <1>2 DEF AcquireLock
<1>4. TurnOK' /\ \A h \in Goroutine : pc'[h] = IF h = g THEN "work" ELSE pc[h]
  BY <1>1, <1>3, GoOn
<1>5. LockOK'
  BY <1>4 DEF LockOK
<1>6. LogOK' /\ Beginning'
  BY <1>1, <1>3, <1>4, LogStays
<1> QED
  BY <1>4, <1>5, <1>6 DEF ReplayInv, TurnOK

LEMMA ReadInv ==
    ASSUME ReplayInv, BaseInv', NEW g \in Goroutine, Read(g) PROVE ReplayInv'
<1>1. /\ pc[g] = "work" /\ pc' = [pc EXCEPT ![g] = "set"]
      /\ UNCHANGED <<order, attr, lock, run, idx, log>>
  BY DEF Read
<1>2. order[g[2]][idx[g]] = attr /\ "set" \in Acting
  BY <1>1, AwakeFacts DEF Acting
<1>3. TurnOK' /\ \A h \in Goroutine : pc'[h] = IF h = g THEN "set" ELSE pc[h]
  BY <1>1, <1>2, GoOn
<1>4. LockOK'
  BY <1>3 DEF LockOK
<1>5. LogOK' /\ Beginning'
  BY <1>1, <1>3, LogStays
<1> QED
  BY <1>3, <1>4, <1>5 DEF ReplayInv, TurnOK

LEMMA SetValInv ==
    ASSUME ReplayInv, BaseInv', NEW g \in Goroutine, SetVal(g) PROVE ReplayInv'
<1>1. /\ pc[g] = "set" /\ pc' = [pc EXCEPT ![g] = "release"]
      /\ log' = [log EXCEPT ![g[2]] = Append(@, order[g[2]][idx[g]])]
      /\ UNCHANGED <<order, attr, run, idx>>
  BY DEF SetVal
<1>2. order[g[2]][idx[g]] = attr /\ "release" \in Acting
  BY <1>1, AwakeFacts DEF Acting
<1>3. TurnOK' /\ \A h \in Goroutine : pc'[h] = IF h = g THEN "release" ELSE pc[h]
  BY <1>1, <1>2, GoOn
<1>4. LockOK'
  BY <1>3 DEF LockOK
<1>5. LogOK' /\ Beginning'
  BY <1>1, LogGrows
<1> QED
  BY <1>3, <1>4, <1>5 DEF ReplayInv, TurnOK

LEMMA BroadcastInv ==
    ASSUME ReplayInv, BaseInv', NEW g \in Goroutine, Broadcast(g) PROVE ReplayInv'
<1>1. /\ pc[g] = "work" /\ pc' = [pc EXCEPT ![g] = "release"]
      /\ log' = [log EXCEPT ![g[2]] = Append(@, order[g[2]][idx[g]])]
      /\ UNCHANGED <<order, attr, run, idx>>
  BY DEF Broadcast
<1>2. order[g[2]][idx[g]] = attr /\ "release" \in Acting
  BY <1>1, AwakeFacts DEF Acting
<1>3. TurnOK' /\ \A h \in Goroutine : pc'[h] = IF h = g THEN "release" ELSE pc[h]
  BY <1>1, <1>2, GoOn
<1>4. LockOK'
  BY <1>3 DEF LockOK
<1>5. LogOK' /\ Beginning'
  BY <1>1, LogGrows
<1> QED
  BY <1>3, <1>4, <1>5 DEF ReplayInv, TurnOK

LEMMA ReleaseLockInv ==
    ASSUME ReplayInv, BaseInv', NEW g \in Goroutine, ReleaseLock(g) PROVE ReplayInv'
<1>1. /\ pc[g] = "release" /\ lock' = FALSE /\ pc' = [pc EXCEPT ![g] = "pass"]
      /\ UNCHANGED <<order, attr, run, idx, log>>
  BY DEF ReleaseLock
<1>2. order[g[2]][idx[g]] = attr /\ "pass" \in Acting
  BY <1>1, AwakeFacts DEF Acting
<1>3. TurnOK' /\ \A h \in Goroutine : pc'[h] = IF h = g THEN "pass" ELSE pc[h]
  BY <1>1, <1>2, GoOn
<1>4. LockOK'
  BY <1>1 DEF LockOK
<1>5. LogOK' /\ Beginning'
  BY <1>1, <1>3, LogStays
<1> QED
  BY <1>3, <1>4, <1>5 DEF ReplayInv, TurnOK

\* The turn goes past the one event that was executed, so past no other's.
LEMMA PassTurnInv ==
    ASSUME ReplayInv, BaseInv', NEW g \in Goroutine, PassTurn(g) PROVE ReplayInv'
<1>1. TypeOK /\ Distinct /\ Placed /\ LockOK /\ LogOK /\ Beginning
  BY DEF ReplayInv, BaseInv
<1> DEFINE k == g[2]
           i == idx[g]
<1>2. /\ pc[g] = "pass" /\ attr' = Lamport(k, i) + 1 /\ Continue(g, i + 1)
      /\ UNCHANGED <<order, lock, run, tmp, value, updates, wire, merge, log>>
  BY DEF PassTurn
<1>3. /\ g[1] \in Replicas /\ k \in 0..Last /\ \A r \in Replicas : run[r] = k
      /\ Latest(k) /\ attr \in 1..(N + 1)
      /\ i \in 1..N /\ Own(g, i) /\ order[k][i] = attr /\ order[k][i] \in 1..N
      /\ Lamport(k, i) = attr
  BY <1>2, AwakeFacts DEF Acting
<1>4. N \in Nat /\ Last \in Nat /\ attr \in 1..N /\ attr' = attr + 1 /\ attr' \in 1..(N + 1)
  BY <1>2, <1>3, ActionsFacts
<1>5. \A h \in Goroutine : h # g => pc[h] \notin Acting
  <2> SUFFICES ASSUME NEW h \in Goroutine, pc[h] \in Acting PROVE h = g
    OBVIOUS
  <2> QED
    BY <1>2, OneActor DEF Acting
<1>6. \A j \in 1..N : Own(g, j) => (j < i + 1 <=> order[k][j] < attr')
  <2> SUFFICES ASSUME NEW j \in 1..N, Own(g, j)
               PROVE  j < i + 1 <=> order[k][j] < attr'
    OBVIOUS
  <2>1. order[k][j] \in 1..N
    BY <1>1, <1>3, LineFacts
  <2>2. j < i <=> order[k][j] < attr
    BY <1>1, <1>2, <1>3 DEF Placed
  <2>3. j = i <=> order[k][j] = attr
    BY <1>1, <1>3 DEF Distinct
  <2> QED
    BY <1>3, <1>4, <2>1, <2>2, <2>3
<1>7. \A h \in Goroutine : h # g /\ h[2] = k =>
        /\ pc[h] \in Acting => attr' = attr
        /\ \A j \in 1..N : Own(h, j) /\ order[h[2]][j] >= attr => order[h[2]][j] >= attr'
  <2> SUFFICES ASSUME NEW h \in Goroutine, h # g, h[2] = k, NEW j \in 1..N, Own(h, j),
                      order[k][j] >= attr
               PROVE  order[k][j] >= attr'
    BY <1>5
  <2>1. order[k][j] \in 1..N
    BY <1>1, <1>3, LineFacts
  <2>2. order[k][j] # attr
    <3> SUFFICES ASSUME order[k][j] = attr PROVE FALSE
      OBVIOUS
    <3>1. j = i
      BY <1>1, <1>3 DEF Distinct
    <3>2. g[1] = h[1]
      BY <1>3, <3>1 DEF Own
    <3> QED
      BY <3>2 DEF Goroutine
  <2> QED
    BY <1>4, <2>1, <2>2
<1>8. \A t \in attr..(attr' - 1) : ~Misplaced(k, t)
  <2>1. ~Misplaced(k, attr)
    <3> SUFFICES ASSUME NEW a \in 1..N, NEW b \in 1..N, a < b, order[k][b] = attr,
                        order[k][a] > attr, Line(k, a).id = Line(k, b).id
                 PROVE  FALSE
      BY DEF Misplaced
    <3>1. b = i
      BY <1>1, <1>3 DEF Distinct
    <3>2. Own(g, a)
      BY <1>1, <1>3, <3>1, SameReplica DEF Own
    <3>3. order[k][a] < attr
      BY <1>1, <1>2, <1>3, <3>1, <3>2 DEF Placed
    <3>4. order[k][a] \in 1..N
      BY <1>1, <1>3, LineFacts
    <3> QED
      BY <1>4, <3>3, <3>4
  <2>2. \A t \in attr..(attr' - 1) : t = attr
    BY <1>4
  <2> QED
    BY <2>1, <2>2
<1>9. i + 1 \in 1..(N + 1) /\ attr <= attr' /\ pc[g] \notin {"none", "done"}
  BY <1>2, <1>3, <1>4
<1> HIDE DEF k, i
<1>10. /\ TurnOK'
       /\ pc'[g] \in {"spin", "done"}
       /\ \A h \in Goroutine : h # g => pc'[h] = pc[h] /\ idx'[h] = idx[h]
  <2>1. UNCHANGED <<order, run>>
    BY <1>2
  <2> QED
    BY <1>2, <1>3, <1>4, <1>6, <1>7, <1>8, <1>9, <2>1, MoveOn DEF k
<1>11. LockOK'
  <2>1. ~lock
    <3> SUFFICES ASSUME lock PROVE FALSE
      OBVIOUS
    <3>1. PICK h \in Goroutine : pc[h] \in {"work", "set", "release"}
      BY <1>1 DEF LockOK
    <3> QED
      BY <1>2, <1>5, <3>1 DEF Acting
  <2> QED
    BY <1>2, <2>1 DEF LockOK
<1>12. LogOK'
  <2>1. ASSUME NEW n \in 0..Last, \A r \in Replicas : run'[r] < n PROVE log'[n] = <<>>
    BY <1>1, <1>2, <2>1 DEF LogOK
  <2>2. ASSUME NEW h \in Goroutine, run'[h[1]] = h[2]
        PROVE  /\ Len(log'[h[2]]) = attr' - 1
               /\ \A f \in Goroutine : pc'[f] \notin {"release", "pass"}
    <3>1. h[2] = k
      BY <1>2, <1>3, <2>2 DEF Goroutine
    <3>2. Len(log[k]) = attr
      BY <1>1, <1>2, <1>3 DEF LogOK, k
    <3>3. \A f \in Goroutine : pc'[f] \notin {"release", "pass"}
      BY <1>5, <1>10 DEF Acting
    <3> QED
      BY <1>2, <1>4, <3>1, <3>2, <3>3
  <2> QED
    BY <2>1, <2>2 DEF LogOK
<1>13. Beginning'
  BY <1>1, <1>2 DEF Beginning
<1> QED
  BY <1>10, <1>11, <1>12, <1>13 DEF ReplayInv, TurnOK
-----------------------------------------------------------------------------
(***************************************************************************)
(* The theorems.                                                           *)
(***************************************************************************)
\* Messages, and the lock's expiry, are beside the turn.
LEMMA BesidesTurn ==
    ASSUME ReplayInv, BaseInv', UNCHANGED <<order, attr, run, pc, idx, log>>, lock' => lock
    PROVE  ReplayInv'
<1>1. Distinct /\ RoundsOK /\ Placed /\ Asleep /\ InOrder /\ LockOK
  BY DEF ReplayInv
<1>2. Distinct'
  BY <1>1 DEF Distinct
<1>3. RoundsOK'
  BY <1>1 DEF RoundsOK
<1>4. Placed'
  BY <1>1 DEF Placed, Own, Latest
<1>5. Asleep'
  BY <1>1 DEF Asleep, Own
<1>6. InOrder'
  BY <1>1, FilesStay DEF InOrder
<1>7. LockOK'
  BY <1>1 DEF LockOK
<1>8. LogOK' /\ Beginning'
  BY LogStays
<1> QED
  BY <1>2, <1>3, <1>4, <1>5, <1>6, <1>7, <1>8 DEF ReplayInv

\* Every step keeps the invariant, unless it leaves a misplaced event behind.
LEMMA NextInv == ReplayInv /\ BaseInv' /\ Undisturbed' /\ [Next]_vars => ReplayInv'
<1> SUFFICES ASSUME ReplayInv, BaseInv', Undisturbed', [Next]_vars PROVE ReplayInv'
  OBVIOUS
<1>1. CASE UNCHANGED vars
  BY <1>1, BesidesTurn DEF vars
<1>2. ASSUME NEW r \in Replicas, Start(r) PROVE ReplayInv'
  BY <1>2, StartInv
<1>3. ASSUME NEW g \in Goroutine, DoActions(g) PROVE ReplayInv'
  BY <1>3, WakeInv, SeeTurnInv, AcquireLockInv, ReadInv, SetValInv, BroadcastInv,
     ReleaseLockInv, PassTurnInv DEF DoActions
<1>4. ASSUME NEW q \in Replicas, NEW r \in Replicas, HandleConnection(q, r) PROVE ReplayInv'
  <2>1. UNCHANGED <<order, attr, run, pc, idx, log>> /\ lock' = lock
    BY <1>4 DEF HandleConnection, Receive, MergeRead, MergeWrite
  <2> QED
    BY <2>1, BesidesTurn
<1>5. CASE Expire
  BY <1>5, BesidesTurn DEF Expire
<1> QED
  BY <1>1, <1>2, <1>3, <1>4, <1>5 DEF Next

\* What was disturbed stays so: the files do not change and no replica goes back.
LEMMA Disturbed == BaseInv /\ [Next]_vars /\ Undisturbed' => Undisturbed
<1> SUFFICES ASSUME BaseInv, [Next]_vars, Undisturbed' PROVE Undisturbed
  OBVIOUS
<1>1. \A r \in Replicas : run[r] \in Int
  BY ActionsFacts DEF BaseInv, TypeOK
<1>2. UNCHANGED order /\ \A r \in Replicas : run'[r] \in Int /\ run[r] <= run'[r]
  <2>1. CASE UNCHANGED vars
    BY <1>1, <2>1 DEF vars
  <2>2. ASSUME NEW q \in Replicas, Start(q)
        PROVE  UNCHANGED order /\ \A r \in Replicas : run'[r] \in Int /\ run[r] <= run'[r]
    <3>1. UNCHANGED order /\ run' = [run EXCEPT ![q] = @ + 1] /\ run \in [Replicas -> -1..Last]
      BY <2>2 DEF Start, BaseInv, TypeOK
    <3>2. \A r \in Replicas : run'[r] = IF r = q THEN run[r] + 1 ELSE run[r]
      BY <3>1
    <3> QED
      BY <1>1, <3>1, <3>2
  <2>3. ASSUME NEW g \in Goroutine, DoActions(g) PROVE UNCHANGED <<order, run>>
    BY <2>3 DEF DoActions, Wake, SeeTurn, AcquireLock, Read, SetVal, Broadcast,
                ReleaseLock, PassTurn
  <2>4. ASSUME NEW q \in Replicas, NEW r \in Replicas, HandleConnection(q, r)
        PROVE  UNCHANGED <<order, run>>
    BY <2>4 DEF HandleConnection, Receive, MergeRead, MergeWrite
  <2>5. CASE Expire
    BY <1>1, <2>5 DEF Expire
  <2> QED
    BY <1>1, <2>1, <2>2, <2>3, <2>4, <2>5 DEF Next
<1>3. \A r \in Replicas : \A k \in 0..(run'[r] - 1) : KeepsOwn(k)
  BY <1>2, LeftBehind
<1>4. \A r \in Replicas : 0..(run[r] - 1) \subseteq 0..(run'[r] - 1)
  BY <1>1, <1>2
<1> QED
  BY <1>3, <1>4 DEF Undisturbed

LEMMA Inductive == Spec => []ReplayInvWhile
<1>1. Init => ReplayInvWhile
  BY InitBase, InitInv DEF ReplayInvWhile
<1>2. ReplayInvWhile /\ [Next]_vars => ReplayInvWhile'
  BY NextBase, NextInv, Disturbed DEF ReplayInvWhile
<1> QED
  BY <1>1, <1>2, PTL DEF Spec

\* What is over has been executed up to the first misplaced event.
LEMMA OverUpToMisplaced ==
    ASSUME ReplayInv, NEW k \in 0..Last, Over(k) PROVE UpToMisplaced(k)
<1>1. TypeOK /\ RoundsOK /\ Placed /\ InOrder /\ LogOK /\ N \in Nat /\ Last \in Nat
  BY ActionsFacts DEF ReplayInv, BaseInv
<1>2. Latest(k) /\ \A r \in Replicas : run[r] = k
  <2>1. \A r \in Replicas : run[r] = k /\ k <= k
    BY <1>1 DEF Over
  <2> QED
    BY <2>1 DEF Latest
<1>3. CASE Replicas = {}
  <2>1. N = 0
    <3> SUFFICES ASSUME N # 0 PROVE FALSE
      OBVIOUS
    <3>1. 1 \in 1..N
      BY <1>1
    <3> QED
      BY <1>3, <3>1, ActionsFacts
  <2>2. Len(log[k]) = 0
    <3>1. log[k] = <<>>
      BY <1>1, <1>3 DEF LogOK
    <3> QED
      BY <3>1
  <2> QED
    BY <1>3, <2>1, <2>2 DEF UpToMisplaced, Executable, KeepsOwn
<1>4. CASE Replicas # {}
  <2>1. PICK r \in Replicas : TRUE
    BY <1>4
  <2>2. attr \in 1..(N + 1)
    <3>1. attr >= 1
      BY <1>1, <1>2, <2>1 DEF RoundsOK
    <3> QED
      BY <1>1, <3>1 DEF TypeOK
  <2>3. \A q \in Replicas : <<q, k>> \in Goroutine /\ pc[<<q, k>>] \in {"spin", "done"}
    <3> SUFFICES ASSUME NEW q \in Replicas
                 PROVE  <<q, k>> \in Goroutine /\ pc[<<q, k>>] \in {"spin", "done"}
      OBVIOUS
    <3>1. <<q, k>> \in Goroutine /\ <<q, k>> \in Replicas \X (0..k)
      BY <1>1 DEF Goroutine
    <3> QED
      BY <3>1 DEF Over, Settled, Waiting
  <2>4. Len(log[k]) = attr - 1
    <3>1. \A h \in Goroutine : h[2] = k => pc[h] \notin {"release", "pass"}
      BY <2>3 DEF Goroutine
    <3>2. <<r, k>> \in Goroutine
      BY <2>3
    <3> QED
      BY <1>1, <1>2, <3>1, <3>2 DEF LogOK
  <2>5. attr \in 1..N => Misplaced(k, attr)
    BY StopsThere
  <2>6. \A t \in 1..N : t < attr => ~Misplaced(k, t)
    BY <1>1, <1>2 DEF InOrder
  <2>7. \A t \in 1..N : t \in 1..(attr - 1) <=> t \in Executable(k)
    <3> SUFFICES ASSUME NEW t \in 1..N PROVE t < attr <=> t \in Executable(k)
      BY <2>2
    <3>1. ASSUME t < attr PROVE t \in Executable(k)
      <4>1. \A u \in 1..t : u \in 1..N /\ u < attr
        BY <1>1, <2>2, <3>1
      <4> QED
        BY <2>6, <4>1 DEF Executable
    <3>2. ASSUME ~(t < attr) PROVE t \notin Executable(k)
      <4>1. attr \in 1..N /\ attr \in 1..t
        BY <1>1, <2>2, <3>2
      <4> QED
        BY <2>5, <4>1 DEF Executable
    <3> QED
      BY <3>1, <3>2
  <2>8. 1..Len(log[k]) = Executable(k)
    <3>1. 1..(attr - 1) \subseteq 1..N
      BY <1>1, <2>2
    <3>2. Executable(k) \subseteq 1..N
      BY DEF Executable
    <3> QED
      BY <2>4, <2>7, <3>1, <3>2
  <2>9. ASSUME KeepsOwn(k), NEW q \in Replicas PROVE pc[<<q, k>>] = "done"
    <3>1. Settled(k) /\ <<q, k>>[2] <= k
      BY <1>1 DEF Over
    <3> QED
      BY <2>3, <2>9, <3>1, SettledDone
  <2>10. ASSUME \A q \in Replicas : pc[<<q, k>>] = "done", NEW t \in 1..N
         PROVE  ~Misplaced(k, t)
    <3> SUFFICES ASSUME NEW j \in 1..N, order[k][j] = t PROVE t < attr
      BY <2>6 DEF Misplaced
    <3> DEFINE h == <<Actions[t].id, k>>
    <3>1. h \in Goroutine /\ h[2] = k /\ Own(h, j) /\ pc[h] = "done"
      BY <2>10, ActionsFacts DEF Goroutine, Own
    <3> HIDE DEF h
    <3>2. /\ idx[h] = N + 1
          /\ \A i \in 1..N : Own(h, i) => (i < idx[h] <=> order[k][i] < attr)
      BY <1>1, <1>2, <3>1 DEF Placed
    <3>3. j < idx[h]
      BY <1>1, <3>2
    <3> QED
      BY <3>1, <3>2, <3>3
  <2> QED
    BY <2>8, <2>9, <2>10 DEF UpToMisplaced, KeepsOwn
<1> QED
  BY <1>3, <1>4

\* Every variable keeps its type, the turn never passes the end of the run, and
\* no message is taken for an interleaving that has not begun, whatever the files
\* and whoever stayed behind.
THEOREM TypeCorrect == Spec => []TypeOK
<1>1. BaseInv => TypeOK
  BY DEF BaseInv
<1> QED
  BY <1>1, InitBase, NextBase, PTL DEF Spec

\* Until an interleaving with a misplaced event is left behind, two replicas never
\* execute events, or touch the lock, at the same time, however the lock expires:
\* the turn alone keeps them apart.
THEOREM OneAtATime == Spec => []SingleActor
<1>1. ReplayInvWhile => SingleActor
  <2> SUFFICES ASSUME ReplayInv, NEW g \in Goroutine, NEW h \in Goroutine,
                      pc[g] \in {"work", "set", "release"},
                      pc[h] \in {"lock", "work", "set", "release"}
               PROVE  g = h
    BY DEF SingleActor, ReplayInvWhile
  <2> QED
    BY OneActor DEF Acting
<1> QED
  BY <1>1, Inductive, PTL

\* Until an interleaving with a misplaced event is left behind, the events of each
\* are executed in the order of the recorded run, without gap or repetition.
THEOREM RecordedOrderKept == Spec => []RecordedOrder
<1>1. ReplayInvWhile => RecordedOrder
  BY DEF ReplayInvWhile, ReplayInv, Beginning, RecordedOrder
<1> QED
  BY <1>1, Inductive, PTL

\* Whatever its file, an interleaving that nothing disturbs has, when it is over,
\* been executed up to its first misplaced event, and a replica waits for ever in
\* do_actions exactly if there is one: the safety half of StopsAtMisplaced.
THEOREM OverAtMisplaced ==
    Spec => [](Undisturbed => \A k \in 0..Last : Over(k) => UpToMisplaced(k))
<1>1. ReplayInvWhile => (Undisturbed => \A k \in 0..Last : Over(k) => UpToMisplaced(k))
  BY OverUpToMisplaced DEF ReplayInvWhile
<1> QED
  BY <1>1, Inductive, PTL
=============================================================================
