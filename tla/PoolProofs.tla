----------------------------- MODULE PoolProofs -----------------------------
(***************************************************************************)
(* The safety properties of Pool, for any finite set of goroutines, any    *)
(* bound of the pool and any number of requests.                           *)
(*                                                                         *)
(* Inv is inductive.  HeldOK links the program counter of a goroutine to   *)
(* the connection it has; the accounting needs it to know which goroutines *)
(* count, and the wake-up invariant needs the accounting: a goroutine that *)
(* reuses or dials takes a slot that was free.                             *)
(***************************************************************************)
EXTENDS Pool, FiniteSetTheorems, SequenceTheorems, TLAPS

\* A goroutine has a connection only between get and put, and only a
\* connection about to be put back may be closed.
HeldOK ==
    /\ \A g \in Client : pc[g] \in {"idle", "asleep", "woken", "dial"} => held[g] = Nil
    /\ \A g \in Client : pc[g] = "use" => held[g] # Nil
    /\ \A c \in closed : \E g \in Client : held[g] = c /\ pc[g] = "put"

Inv == TypeOK /\ HeldOK /\ Accounting /\ SingleOwner /\ NoLostWakeup
-----------------------------------------------------------------------------
(***************************************************************************)
(* Lemmas on sequences and on sets of goroutines.                          *)
(***************************************************************************)
\* What taking the head of the idle connections leaves.
LEMMA TailFacts ==
    ASSUME NEW S, NEW q \in Seq(S), q # <<>>
    PROVE  /\ Head(q) \in S /\ Head(q) = q[1] /\ 1 \in DOMAIN q
           /\ Tail(q) \in Seq(S) /\ Len(Tail(q)) = Len(q) - 1 /\ Len(q) > 0
           /\ \A i \in DOMAIN Tail(q) : i + 1 \in DOMAIN q /\ i + 1 # 1 /\ Tail(q)[i] = q[i+1]
  BY HeadTailProperties, EmptySeq, LenProperties

\* What putting a connection back adds.
LEMMA AppendFacts ==
    ASSUME NEW S, NEW q \in Seq(S), NEW x \in S
    PROVE  /\ Append(q, x) \in Seq(S) /\ Len(Append(q, x)) = Len(q) + 1
           /\ DOMAIN Append(q, x) = DOMAIN q \cup {Len(q) + 1}
           /\ \A i \in DOMAIN q : Append(q, x)[i] = q[i] /\ i # Len(q) + 1
           /\ Append(q, x)[Len(q) + 1] = x
  BY AppendProperties, LenProperties

\* Every set of goroutines is finite.
LEMMA FiniteGoroutines ==
    ASSUME NEW S \in SUBSET Client
    PROVE  IsFiniteSet(S) /\ Cardinality(S) \in Nat
  BY PoolAssumption, FS_Subset, FS_CardinalityType
-----------------------------------------------------------------------------
(***************************************************************************)
(* Type correctness.                                                       *)
(***************************************************************************)
LEMMA TypeStep == TypeOK /\ HeldOK /\ [Next]_vars => TypeOK'
<1> SUFFICES ASSUME TypeOK, HeldOK, [Next]_vars PROVE TypeOK'
  OBVIOUS
<1> USE PoolAssumption
<1>1. ASSUME NEW g \in Client, Loop(g), UNCHANGED closed
      PROVE  /\ available' \in Seq(Conn) /\ outstanding' \in Nat
             /\ pc' \in [Client -> {"idle", "asleep", "woken", "dial", "use", "put"}]
             /\ held' \in [Client -> Conn \cup {Nil}]
  <2>1. CASE Wait(g)
    BY <2>1 DEF Wait, TypeOK
  <2>2. CASE StartDial(g)
    BY <2>2 DEF StartDial, TypeOK
  <2>3. CASE Reuse(g)
    BY <2>3, TailFacts DEF Reuse, TypeOK
  <2>4. QED
    BY <1>1, <2>1, <2>2, <2>3 DEF Loop
<1>2. ASSUME NEW g \in Client, Signal(g)
      PROVE  pc' \in [Client -> {"idle", "asleep", "woken", "dial", "use", "put"}]
  BY <1>2 DEF Signal, At, TypeOK
<1>3. ASSUME NEW g \in Client, Get(g) PROVE TypeOK'
  BY <1>1, <1>3 DEF Get, TypeOK
<1>4. ASSUME NEW g \in Client, Retry(g) PROVE TypeOK'
  BY <1>1, <1>4 DEF Retry, TypeOK
<1>5. ASSUME NEW g \in Client, DialOK(g) PROVE TypeOK'
  BY <1>5 DEF DialOK, TypeOK
<1>6. ASSUME NEW g \in Client, DialFail(g) PROVE TypeOK'
  BY <1>6 DEF DialFail, TypeOK
<1>7. ASSUME NEW g \in Client, Do(g) PROVE TypeOK'
  BY <1>7 DEF Do, TypeOK, HeldOK
<1>8. ASSUME NEW g \in Client, Put(g) PROVE TypeOK'
  <2>1. CASE Discard(g)
    BY <1>2, <1>8, <2>1 DEF Put, Discard, Decremented, TypeOK
  <2>2. CASE Return(g)
    <3>1. held[g] \in Conn
      BY <2>2 DEF Return, TypeOK
    <3>2. available' \in Seq(Conn) /\ outstanding' \in Nat
      <4>1. available \in Seq(Conn) /\ outstanding \in Nat
        BY DEF TypeOK
      <4>2. Append(available, held[g]) \in Seq(Conn)
        BY <3>1, <4>1, AppendFacts
      <4>3. QED
        BY <2>2, <4>1, <4>2, SMTT(40) DEF Return, Decremented
    <3>3. pc' \in [Client -> {"idle", "asleep", "woken", "dial", "use", "put"}]
      BY <1>2, <2>2 DEF Return, TypeOK
    <3>4. QED
      BY <1>8, <3>2, <3>3 DEF Put, TypeOK
  <2>3. QED
    BY <1>8, <2>1, <2>2 DEF Put
<1>9. CASE CloseAll
  BY <1>9 DEF CloseAll, TypeOK
<1>10. CASE UNCHANGED vars
  BY <1>10 DEF vars, TypeOK
<1>11. QED
  BY <1>3, <1>4, <1>5, <1>6, <1>7, <1>8, <1>9, <1>10 DEF Next, Step

\* The connection of a goroutine follows its program counter.
LEMMA HeldStep == TypeOK /\ HeldOK /\ SingleOwner /\ [Next]_vars => HeldOK'
<1> SUFFICES ASSUME TypeOK, HeldOK, SingleOwner, [Next]_vars PROVE HeldOK'
  OBVIOUS
<1> USE PoolAssumption
<1>1. ASSUME NEW g \in Client, Loop(g), pc[g] \in {"idle", "woken"}, UNCHANGED closed
      PROVE  HeldOK'
  <2>1. CASE Wait(g)
    BY <1>1, <2>1 DEF Wait, TypeOK, HeldOK
  <2>2. CASE StartDial(g)
    BY <1>1, <2>2 DEF StartDial, TypeOK, HeldOK
  <2>3. CASE Reuse(g)
    BY <1>1, <2>3, TailFacts DEF Reuse, TypeOK, HeldOK
  <2>4. QED
    BY <1>1, <2>1, <2>2, <2>3 DEF Loop
<1>2. ASSUME NEW g \in Client, Get(g) PROVE HeldOK'
  BY <1>1, <1>2 DEF Get
<1>3. ASSUME NEW g \in Client, Retry(g) PROVE HeldOK'
  BY <1>1, <1>3 DEF Retry
<1>4. ASSUME NEW g \in Client, DialOK(g) PROVE HeldOK'
  BY <1>4 DEF DialOK, InUse, TypeOK, HeldOK
<1>5. ASSUME NEW g \in Client, DialFail(g) PROVE HeldOK'
  BY <1>5 DEF DialFail, TypeOK, HeldOK
<1>6. ASSUME NEW g \in Client, Do(g) PROVE HeldOK'
  BY <1>6 DEF Do, TypeOK, HeldOK
<1>7. ASSUME NEW g \in Client, Put(g) PROVE HeldOK'
  <2>1. /\ pc' \in [Client -> {"idle", "asleep", "woken", "dial", "use", "put"}]
        /\ pc'[g] = "idle"
        /\ \A h \in Client \ {g} : pc'[h] = pc[h] \/ (pc[h] = "asleep" /\ pc'[h] = "woken")
    BY <1>7 DEF Put, Discard, Return, Signal, At, TypeOK
  <2>2. /\ held'[g] = Nil /\ \A h \in Client \ {g} : held'[h] = held[h]
        /\ closed' = closed \ {held[g]}
    BY <1>7 DEF Put, TypeOK
  <2>3. QED
    BY <2>1, <2>2 DEF HeldOK
<1>8. CASE CloseAll
  BY <1>8 DEF CloseAll, HeldOK
<1>9. CASE UNCHANGED vars
  BY <1>9 DEF vars, HeldOK
<1>10. QED
  BY <1>2, <1>3, <1>4, <1>5, <1>6, <1>7, <1>8, <1>9 DEF Next, Step

\* How one step changes the sets of busy and woken goroutines, and the waiters.
LEMMA SignalFacts ==
    ASSUME TypeOK, NEW g \in Client, pc[g] = "put", Signal(g)
    PROVE  /\ Busy' = Busy \ {g}
           /\ \/ At("asleep") = {} /\ At("asleep")' = {}
              \/ /\ At("asleep") # {}
                 /\ \E h \in Client : /\ h \notin At("woken")
                                      /\ At("woken")' = At("woken") \cup {h}
<1>1. CASE At("asleep") = {}
  BY <1>1 DEF Signal, At, Busy, TypeOK
<1>2. CASE At("asleep") # {}
  <2>1. PICK h \in At("asleep") : pc' = [pc EXCEPT ![g] = "idle", ![h] = "woken"]
    BY <1>2 DEF Signal
  <2>2. h \in Client /\ h \notin At("woken") /\ h # g
    BY <2>1 DEF At
  <2>3. At("woken")' = At("woken") \cup {h}
    BY <2>1, <2>2 DEF At, TypeOK
  <2>4. Busy' = Busy \ {g}
    BY <2>1, <2>2 DEF Busy, At, TypeOK
  <2>5. QED
    BY <1>2, <2>2, <2>3, <2>4
<1>3. QED
  BY <1>1, <1>2

LEMMA LoopFacts ==
    ASSUME TypeOK, NEW g \in Client, pc[g] \in {"idle", "woken"}, Loop(g)
    PROVE  /\ \/ Wait(g) /\ Busy' = Busy
              \/ (StartDial(g) \/ Reuse(g)) /\ Busy' = Busy \cup {g} /\ At("asleep")' = At("asleep")
           /\ g \notin Busy /\ At("woken")' = At("woken") \ {g}
<1>1. CASE Wait(g)
  BY <1>1 DEF Wait, Busy, At, TypeOK
<1>2. CASE StartDial(g)
  BY <1>2 DEF StartDial, Busy, At, TypeOK
<1>3. CASE Reuse(g)
  BY <1>3 DEF Reuse, Busy, At, TypeOK
<1>4. QED
  BY <1>1, <1>2, <1>3 DEF Loop
-----------------------------------------------------------------------------
(***************************************************************************)
(* The counter of outstanding connections.                                 *)
(***************************************************************************)
LEMMA AccountingStep == TypeOK /\ HeldOK /\ Accounting /\ [Next]_vars => Accounting'
<1> SUFFICES ASSUME TypeOK, HeldOK, Accounting, [Next]_vars PROVE Accounting'
  OBVIOUS
<1> USE PoolAssumption
<1>f. IsFiniteSet(Busy) /\ Cardinality(Busy) \in Nat
  BY FiniteGoroutines DEF Busy
<1>t. available \in Seq(Conn) /\ Len(available) \in Nat /\ outstanding \in Nat
  BY LenProperties DEF TypeOK
<1>1. ASSUME NEW g \in Client, Loop(g), pc[g] \in {"idle", "woken"}
      PROVE  Accounting'
  <2>1. CASE Wait(g) /\ Busy' = Busy
    BY <2>1 DEF Wait, Accounting
  <2>2. CASE (StartDial(g) \/ Reuse(g)) /\ Busy' = Busy \cup {g}
    <3>1. Cardinality(Busy') = Cardinality(Busy) + 1
      BY <1>1, <1>f, <2>2, LoopFacts, FS_AddElement
    <3>2. CASE StartDial(g)
      BY <1>t, <3>1, <3>2, EmptySeq DEF StartDial, Accounting
    <3>3. CASE Reuse(g)
      <4>1. Len(available) > 0 /\ Len(Tail(available)) = Len(available) - 1
        BY <1>t, <3>3, TailFacts DEF Reuse
      <4>2. outstanding < Max
        BY <1>t, <4>1 DEF Accounting
      <4>3. QED
        BY <1>t, <3>1, <3>3, <4>1, <4>2 DEF Reuse, Accounting
    <3>4. QED
      BY <2>2, <3>2, <3>3
  <2>3. QED
    BY <1>1, <2>1, <2>2, LoopFacts
<1>2. ASSUME NEW g \in Client, Get(g) \/ Retry(g) PROVE Accounting'
  BY <1>1, <1>2 DEF Get, Retry
<1>3. ASSUME NEW g \in Client, DialOK(g) \/ DialFail(g) \/ Do(g) PROVE Accounting'
  <2>1. Busy' = Busy
    BY <1>3 DEF DialOK, DialFail, Do, Busy, TypeOK
  <2>2. QED
    BY <1>3, <2>1 DEF DialOK, DialFail, Do, Accounting
<1>4. ASSUME NEW g \in Client, Put(g) PROVE Accounting'
  <2>1. g \in Busy
    BY <1>4 DEF Put, Busy
  <2>2. Cardinality(Busy \ {g}) = outstanding - 1
    BY <1>f, <2>1, FS_RemoveElement DEF Accounting
  <2>3. outstanding > 0 /\ Len(available) < Max
    <3>1. Cardinality(Busy \ {g}) \in Nat
      BY FiniteGoroutines DEF Busy
    <3>2. QED
      BY <1>t, <2>2, <3>1 DEF Accounting
  <2>4. Signal(g) /\ outstanding' = outstanding - 1
    BY <1>t, <1>4, <2>3 DEF Put, Discard, Return, Decremented
  <2>5. Busy' = Busy \ {g}
    BY <1>4, <2>4, SignalFacts DEF Put
  <2>6. Len(available') <= Len(available) + 1
    <3>1. CASE Discard(g)
      BY <1>t, <3>1 DEF Discard
    <3>2. CASE Return(g)
      <4>1. held[g] \in Conn
        BY <3>2 DEF Return, TypeOK
      <4>2. Len(Append(available, held[g])) = Len(available) + 1
        BY <1>t, <4>1, AppendFacts
      <4>3. QED
        BY <1>t, <3>2, <4>2, <2>3 DEF Return
    <3>3. QED
      BY <1>4, <3>1, <3>2 DEF Put
  <2>7. Len(available') \in Nat
    BY TypeStep, LenProperties DEF TypeOK
  <2>8. QED
    BY <1>t, <2>2, <2>4, <2>5, <2>6, <2>7 DEF Accounting
<1>5. CASE CloseAll
  <2>1. Busy' = Busy /\ Len(available') = 0 /\ outstanding' = outstanding
    BY <1>5, EmptySeq DEF CloseAll, Busy
  <2>2. QED
    BY <1>t, <2>1 DEF Accounting
<1>6. CASE UNCHANGED vars
  BY <1>6 DEF vars, Accounting, Busy
<1>7. QED
  BY <1>2, <1>3, <1>4, <1>5, <1>6 DEF Next, Step
-----------------------------------------------------------------------------
(***************************************************************************)
(* Ownership of connections.                                               *)
(***************************************************************************)
LEMMA OwnerStep == TypeOK /\ HeldOK /\ SingleOwner /\ [Next]_vars => SingleOwner'
<1> SUFFICES ASSUME TypeOK, HeldOK, SingleOwner, [Next]_vars PROVE SingleOwner'
  OBVIOUS
<1> USE PoolAssumption
<1>t. available \in Seq(Conn) /\ held \in [Client -> Conn \cup {Nil}]
  BY DEF TypeOK
<1>1. ASSUME NEW g \in Client, Loop(g), pc[g] \in {"idle", "woken"}, UNCHANGED closed
      PROVE  SingleOwner'
  <2>1. CASE Wait(g) \/ StartDial(g)
    BY <1>1, <2>1 DEF Wait, StartDial, SingleOwner
  <2>2. CASE Reuse(g)
    <3>1. /\ available' = Tail(available)
          /\ 1 \in DOMAIN available /\ Head(available) = available[1]
          /\ \A i \in DOMAIN Tail(available) :
               i + 1 \in DOMAIN available /\ i + 1 # 1 /\ Tail(available)[i] = available[i+1]
      BY <1>t, <2>2, TailFacts DEF Reuse
    <3>2. held'[g] = available[1] /\ \A h \in Client \ {g} : held'[h] = held[h]
      BY <1>t, <2>2, <3>1 DEF Reuse
    <3>3. \A h, k \in Client : held'[h] = held'[k] /\ h # k => held'[h] = Nil
      BY <3>1, <3>2 DEF SingleOwner
    <3>4. \A h \in Client, i \in DOMAIN available' : available'[i] # held'[h]
      BY <3>1, <3>2 DEF SingleOwner
    <3>5. \A i, j \in DOMAIN available' : available'[i] = available'[j] => i = j
      <4>1. \A i \in DOMAIN Tail(available) : i \in Int
        BY <1>t, TailFacts, <2>2, LenProperties DEF Reuse
      <4>2. SUFFICES ASSUME NEW i \in DOMAIN Tail(available), NEW j \in DOMAIN Tail(available),
                            Tail(available)[i] = Tail(available)[j]
                     PROVE  i = j
        BY <3>1
      <4>3. i + 1 = j + 1
        BY <3>1, <4>2 DEF SingleOwner
      <4>4. QED
        BY <4>1, <4>3
    <3>6. \A i \in DOMAIN available' : available'[i] \notin closed'
      BY <1>1, <3>1 DEF SingleOwner
    <3>7. QED
      BY <3>3, <3>4, <3>5, <3>6 DEF SingleOwner
  <2>3. QED
    BY <1>1, <2>1, <2>2 DEF Loop
<1>2. ASSUME NEW g \in Client, Get(g) \/ Retry(g) PROVE SingleOwner'
  BY <1>1, <1>2 DEF Get, Retry
<1>3. ASSUME NEW g \in Client, DialOK(g) PROVE SingleOwner'
  BY <1>t, <1>3 DEF DialOK, InUse, SingleOwner
<1>4. ASSUME NEW g \in Client, DialFail(g) PROVE SingleOwner'
  BY <1>4 DEF DialFail, SingleOwner
<1>5. ASSUME NEW g \in Client, Do(g) PROVE SingleOwner'
  BY <1>5 DEF Do, SingleOwner
<1>6. ASSUME NEW g \in Client, Put(g) PROVE SingleOwner'
  <2>1. /\ held'[g] = Nil /\ \A h \in Client \ {g} : held'[h] = held[h]
        /\ closed' = closed \ {held[g]}
    BY <1>6, <1>t DEF Put
  <2>2. CASE available' = available
    <3>1. \A i \in DOMAIN available : available[i] \in Conn
      BY <1>t
    <3>2. QED
      BY <2>1, <2>2, <3>1 DEF SingleOwner
  <2>3. CASE Return(g) /\ available' = Append(available, held[g])
    <3>1. held[g] \in Conn /\ held[g] # Nil /\ held[g] \notin closed
      BY <1>t, <2>3 DEF Return
    <3>2. /\ DOMAIN available' = DOMAIN available \cup {Len(available) + 1}
          /\ \A i \in DOMAIN available : available'[i] = available[i] /\ i # Len(available) + 1
          /\ available'[Len(available) + 1] = held[g]
      BY <1>t, <2>3, <3>1, AppendFacts
    <3>3. \A i \in DOMAIN available : available[i] \in Conn /\ available[i] # held[g]
      BY <1>t DEF SingleOwner
    <3>4. \A h \in Client, i \in DOMAIN available' : available'[i] # held'[h]
      BY <2>1, <3>1, <3>2, <3>3 DEF SingleOwner
    <3>5. \A i, j \in DOMAIN available' : available'[i] = available'[j] => i = j
      BY <3>2, <3>3 DEF SingleOwner
    <3>6. QED
      BY <2>1, <3>1, <3>2, <3>4, <3>5 DEF SingleOwner
  <2>4. QED
    BY <1>6, <2>2, <2>3 DEF Put, Discard, Return
<1>7. CASE CloseAll
  <2>1. DOMAIN available' = {}
    BY <1>7 DEF CloseAll
  <2>2. QED
    BY <1>7, <2>1 DEF CloseAll, SingleOwner
<1>8. CASE UNCHANGED vars
  BY <1>8 DEF vars, SingleOwner
<1>9. QED
  BY <1>2, <1>3, <1>4, <1>5, <1>6, <1>7, <1>8 DEF Next, Step
-----------------------------------------------------------------------------
(***************************************************************************)
(* Wake-ups.                                                               *)
(***************************************************************************)
LEMMA WakeupStep ==
    TypeOK /\ Accounting /\ NoLostWakeup /\ [Next]_vars => NoLostWakeup'
<1> SUFFICES ASSUME TypeOK, Accounting, NoLostWakeup, [Next]_vars PROVE NoLostWakeup'
  OBVIOUS
<1> USE PoolAssumption
<1>t. /\ outstanding \in Nat /\ Len(available) \in Nat /\ available \in Seq(Conn)
      /\ IsFiniteSet(At("woken")) /\ Cardinality(At("woken")) \in Nat
  BY FiniteGoroutines, LenProperties DEF TypeOK, At
<1>1. ASSUME NEW g \in Client, Loop(g), pc[g] \in {"idle", "woken"}
      PROVE  NoLostWakeup'
  <2>1. /\ Cardinality(At("woken")') \in Nat
        /\ Cardinality(At("woken")') >= Cardinality(At("woken")) - 1
    <3>1. At("woken")' = At("woken") \ {g}
      BY <1>1, LoopFacts
    <3>2. Cardinality(At("woken") \ {g}) \in Nat
      BY FiniteGoroutines DEF At
    <3>3. Cardinality(At("woken") \ {g}) >= Cardinality(At("woken")) - 1
      <4>1. Cardinality(At("woken") \ {g}) = IF g \in At("woken")
                                             THEN Cardinality(At("woken")) - 1
                                             ELSE Cardinality(At("woken"))
        BY <1>t, FS_RemoveElement
      <4>2. QED
        BY <1>t, <4>1
    <3>4. QED
      BY <3>1, <3>2, <3>3
  <2>2. CASE Wait(g)
    BY <1>t, <2>1, <2>2 DEF Wait, NoLostWakeup
  <2>3. CASE StartDial(g) /\ At("asleep")' = At("asleep")
    BY <1>t, <2>1, <2>3 DEF StartDial, NoLostWakeup
  <2>4. CASE Reuse(g) /\ At("asleep")' = At("asleep")
    <3>1. Len(available) > 0
      BY <1>t, <2>4, TailFacts DEF Reuse
    <3>2. outstanding' = outstanding + 1
      BY <1>t, <2>4, <3>1 DEF Reuse, Accounting
    <3>3. QED
      BY <1>t, <2>1, <2>4, <3>2 DEF NoLostWakeup
  <2>5. QED
    BY <1>1, <2>2, <2>3, <2>4, LoopFacts
<1>2. ASSUME NEW g \in Client, Get(g) \/ Retry(g) PROVE NoLostWakeup'
  BY <1>1, <1>2 DEF Get, Retry
<1>3. ASSUME NEW g \in Client, DialOK(g) \/ DialFail(g) \/ Do(g) PROVE NoLostWakeup'
  <2>1. At("woken")' = At("woken") /\ At("asleep")' = At("asleep")
    BY <1>3 DEF DialOK, DialFail, Do, At, TypeOK
  <2>2. QED
    BY <1>3, <2>1 DEF DialOK, DialFail, Do, NoLostWakeup
<1>4. ASSUME NEW g \in Client, Put(g) PROVE NoLostWakeup'
  <2>1. outstanding > 0 /\ Len(available) < Max
    <3>1. g \in Busy /\ IsFiniteSet(Busy)
      BY <1>4, FiniteGoroutines DEF Put, Busy
    <3>2. Cardinality(Busy) > 0
      BY <3>1, FS_EmptySet, FS_CardinalityType
    <3>3. QED
      BY <1>t, <3>2 DEF Accounting
  <2>2. Signal(g) /\ outstanding' = outstanding - 1
    BY <1>t, <1>4, <2>1 DEF Put, Discard, Return, Decremented
  <2>3. CASE At("asleep")' = {}
    BY <2>3 DEF NoLostWakeup
  <2>4. ASSUME NEW h \in Client, h \notin At("woken"), At("woken")' = At("woken") \cup {h},
               At("asleep") # {}
        PROVE  NoLostWakeup'
    <3>1. Cardinality(At("woken")') = Cardinality(At("woken")) + 1
      BY <1>t, <2>4, FS_AddElement
    <3>2. QED
      BY <1>t, <2>2, <2>4, <3>1 DEF NoLostWakeup
  <2>5. QED
    <3>1. \/ At("asleep") = {} /\ At("asleep")' = {}
          \/ /\ At("asleep") # {}
             /\ \E h \in Client : h \notin At("woken") /\ At("woken")' = At("woken") \cup {h}
      BY <1>4, <2>2, SignalFacts DEF Put
    <3>2. QED
      BY <2>3, <2>4, <3>1
<1>5. CASE CloseAll
  BY <1>5 DEF CloseAll, NoLostWakeup, At
<1>6. CASE UNCHANGED vars
  BY <1>6 DEF vars, NoLostWakeup, At
<1>7. QED
  BY <1>2, <1>3, <1>4, <1>5, <1>6 DEF Next, Step
-----------------------------------------------------------------------------
(***************************************************************************)
(* The theorems.                                                           *)
(***************************************************************************)
LEMMA InitInv == Init => Inv
<1> SUFFICES ASSUME Init PROVE Inv
  OBVIOUS
<1> USE PoolAssumption
<1>1. Busy = {} /\ At("asleep") = {}
  BY DEF Init, Busy, At
<1>2. TypeOK
  BY DEF Init, TypeOK
<1>3. Accounting
  BY <1>1, FS_EmptySet, EmptySeq DEF Init, Accounting
<1>4. HeldOK /\ SingleOwner /\ NoLostWakeup
  BY <1>1 DEF Init, HeldOK, SingleOwner, NoLostWakeup
<1>5. QED
  BY <1>2, <1>3, <1>4 DEF Inv

\* Inv holds in every reachable state.
THEOREM Invariance == Spec => []Inv
<1>1. Inv /\ [Next]_vars => Inv'
  BY TypeStep, HeldStep, AccountingStep, OwnerStep, WakeupStep DEF Inv
<1>2. QED
  BY InitInv, <1>1, PTL DEF Spec

\* Every variable keeps its type.
THEOREM TypeCorrect == Spec => []TypeOK
  BY Invariance, PTL DEF Inv

\* get and put count every connection exactly once, and never exceed Max.
THEOREM AccountingCorrect == Spec => []Accounting
  BY Invariance, PTL DEF Inv

\* No connection is ever handed to two goroutines, or to one while the pool
\* keeps it.
THEOREM OwnershipCorrect == Spec => []SingleOwner
  BY Invariance, PTL DEF Inv

\* No wake-up is lost: a free slot never coexists with a waiter for whom nobody
\* was woken.
THEOREM WakeupCorrect == Spec => []NoLostWakeup
  BY Invariance, PTL DEF Inv
=============================================================================
