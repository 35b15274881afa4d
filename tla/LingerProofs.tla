---------------------------- MODULE LingerProofs ----------------------------
(***************************************************************************)
(* The safety properties of ReadFirstLinger, for any finite number of      *)
(* clusters and keys, any answers, and whatever the permit and the timer.  *)
(*                                                                         *)
(* LInv is inductive.  Its parts say whom the WaitGroup waits for          *)
(* (CountOK), how far each cluster's goroutine is (GoroutineOK), that a    *)
(* cluster answers a key once and that nothing asked for is lost           *)
(* (AnswerOK), and what the ways out of read leave behind (OutcomeOK).     *)
(***************************************************************************)
EXTENDS ReadFirstLinger, FiniteSetTheorems, TLAPS

\* The clusters that have still to call wg.Done, or for which read has to: those
\* with a running goroutine and, until read returns, those not asked.
Waited == {c \in Clusters : go[c] = "run"}
            \cup {c \in clustersNotUsed : pc \in {"loop", "return"}}

\* The WaitGroup's counter is their number, and elements is closed when it is 0.
CountOK == /\ wg = Cardinality(Waited)
           /\ closed => wg = 0

\* A cluster is not used exactly if it has no goroutine; there are such clusters
\* only if one was asked; a goroutine that is done has handed over everything.
GoroutineOK ==
    /\ \A c \in Clusters : c \in clustersNotUsed <=> go[c] = "none"
    /\ maySendAll => clustersNotUsed = {}
    /\ ~maySendAll => \E c \in Clusters : clustersNotUsed = Clusters \ {c}
    /\ \A c \in Clusters : send[c] # {} => go[c] = "run"
    /\ timeout => ~maySendAll

\* A goroutine hands over one element per key, and has one for each key unless the
\* key had an answer before its cluster was asked.
AnswerOK ==
    /\ \A k \in Keys : \A x, y \in got[k] : x[1] = y[1] => x = y
    /\ \A k \in Keys : \A x \in got[k] : go[x[1]] # "none" /\ k \notin send[x[1]]
    /\ \A k \in Keys, c \in Clusters :
         go[c] # "none" => \/ k \in send[c]
                           \/ \E x \in got[k] : x[1] = c
                           \/ responses(k) # {}

\* The loop ends with elements closed or nothing remaining; only a promoted read
\* lingers; results and repairs are given out on the way out only.
OutcomeOK ==
    /\ pc = "return" => closed \/ remainingKeys = {}
    /\ pc = "linger" => maySendAll
    /\ pc \in {"loop", "return"} => result = {}
    /\ pc = "linger" => result = {Keys}
    /\ pc # "end" => repairs = {}

LInv == /\ TypeOK /\ CountOK /\ GoroutineOK /\ AnswerOK /\ OutcomeOK
        /\ LeftOutOnlyIfAllFailed /\ RepairsAllDifferences
-----------------------------------------------------------------------------
(***************************************************************************)
(* Lemmas.                                                                 *)
(***************************************************************************)
\* Whom the WaitGroup waits for is a finite set.
LEMMA WaitedFinite ==
    ASSUME TypeOK
    PROVE  /\ Waited \subseteq Clusters /\ IsFiniteSet(Waited)
           /\ Cardinality(Waited) \in 0..Cardinality(Clusters)
<1>1. Waited \subseteq Clusters
  BY DEF Waited, TypeOK
<1>2. /\ IsFiniteSet(Waited) /\ Cardinality(Waited) <= Cardinality(Clusters)
      /\ Cardinality(Waited) \in Nat /\ Cardinality(Clusters) \in Nat
  BY <1>1, LingerAssumption, FS_Subset, FS_CardinalityType
<1> QED
  BY <1>1, <1>2

\* Once elements is closed no goroutine runs and nothing is left to send; while
\* read still needs answers, every cluster has been asked and is done.
LEMMA ClosedIsDone ==
    ASSUME TypeOK, CountOK, GoroutineOK, closed
    PROVE  /\ \A c \in Clusters : go[c] # "run" /\ send[c] = {}
           /\ pc \in {"loop", "return"} => \A c \in Clusters : go[c] = "done"
<1>1. Waited = {}
  BY WaitedFinite, FS_EmptySet DEF CountOK
<1>2. \A c \in Clusters : go[c] # "run"
  BY <1>1 DEF Waited
<1>3. pc \in {"loop", "return"} => clustersNotUsed = {}
  BY <1>1, Zenon DEF Waited
<1> QED
  BY <1>2, <1>3 DEF GoroutineOK, TypeOK

\* A key with nothing to send for it by the only cluster asked has one element.
LEMMA OneAnswer ==
    ASSUME TypeOK, GoroutineOK, AnswerOK, ~maySendAll
    PROVE  Differ = {}
<1> SUFFICES ASSUME NEW k \in Keys
             PROVE  ~(Cardinality({x[2] : x \in responses(k)}) > 1)
  BY DEF Differ
<1>1. \A x, y \in responses(k) : x = y
  BY DEF responses, TypeOK, GoroutineOK, AnswerOK
<1>2. CASE responses(k) = {}
  <2>1. {x[2] : x \in responses(k)} = {}
    BY <1>2
  <2> QED
    BY <2>1, FS_EmptySet
<1>3. CASE responses(k) # {}
  <2>1. PICK x \in responses(k) : TRUE
    BY <1>3
  <2>2. {y[2] : y \in responses(k)} = {x[2]}
    BY <1>1, <2>1
  <2>3. Cardinality({x[2]}) = 1
    BY FS_Singleton
  <2> QED
    BY <2>2, <2>3
<1> QED
  BY <1>2, <1>3
-----------------------------------------------------------------------------
(***************************************************************************)
(* The initial states.                                                     *)
(***************************************************************************)
LEMMA LInvInit == Init => LInv
<1> SUFFICES ASSUME Init PROVE LInv
  OBVIOUS
<1> USE LingerAssumption
<1>1. PICK used \in IF maySendAll THEN {Clusters} ELSE {{c} : c \in Clusters} :
        /\ clustersNotUsed = Clusters \ used
        /\ go = [c \in Clusters |-> IF c \in used THEN "run" ELSE "none"]
        /\ send = [c \in Clusters |-> IF c \in used THEN Keys ELSE {}]
  BY DEF Init
<1>2. used \subseteq Clusters
  BY <1>1
<1>3. Waited = Clusters
  BY <1>1, <1>2 DEF Waited, Init
<1>4. Cardinality(Clusters) \in Nat
  BY FS_CardinalityType
<1>5. TypeOK
  <2>1. maySendAll \in BOOLEAN /\ timeout \in BOOLEAN
    <3>1. PICK t \in Timers : timeout = (~maySendAll /\ t)
      BY DEF Init
    <3>2. maySendAll \in BOOLEAN
      <4>1. maySendAll \in Permits
        BY DEF Init
      <4>2. Permits \subseteq BOOLEAN
        BY LingerAssumption
      <4> QED
        BY <4>1, <4>2
    <3>3. timeout \in BOOLEAN
      BY <3>1, Zenon
    <3> QED
      BY <3>2, <3>3
  <2>2. clustersNotUsed \subseteq Clusters /\ send \in [Clusters -> SUBSET Keys]
        /\ go \in [Clusters -> {"none", "run", "done"}]
    BY <1>1
  <2>3. got \in [Keys -> SUBSET (Clusters \X (Answers \cup {"error"}))]
    BY DEF Init
  <2>4. /\ pc = "loop" /\ closed = FALSE /\ result = {} /\ repairs = {}
        /\ wg \in 0..Cardinality(Clusters)
    BY <1>4 DEF Init
  <2>5. closed \in BOOLEAN /\ result \in {{}} \cup {{ks} : ks \in SUBSET Keys}
    BY <2>4
  <2> QED
    BY <2>1, <2>2, <2>3, <2>4, <2>5, Zenon DEF TypeOK
<1>6. CountOK
  BY <1>3 DEF CountOK, Init
<1>7. GoroutineOK
  <2>1. ~maySendAll => \E c \in Clusters : clustersNotUsed = Clusters \ {c}
    BY <1>1
  <2>2. timeout => ~maySendAll
    BY DEF Init
  <2> QED
    BY <1>1, <1>2, <2>1, <2>2 DEF GoroutineOK
<1>8. AnswerOK
  BY <1>1 DEF AnswerOK, Init
<1>9. OutcomeOK
  BY DEF OutcomeOK, Init
<1> QED
  BY <1>5, <1>6, <1>7, <1>8, <1>9 DEF LInv, LeftOutOnlyIfAllFailed, RepairsAllDifferences, Init
-----------------------------------------------------------------------------
(***************************************************************************)
(* The steps.                                                              *)
(***************************************************************************)
LEMMA ReceiveStep ==
    ASSUME LInv, NEW c \in Clusters, NEW k \in Keys, Receive(c, k)
    PROVE  LInv'
<1> USE DEF LInv, Receive
<1>1. PICK a \in Answers \cup {"error"} : got' = [got EXCEPT ![k] = @ \cup {<<c, a>>}]
  OBVIOUS
<1>2. go[c] = "run" /\ ~closed
  BY ClosedIsDone DEF GoroutineOK
<1>3. /\ got \in [Keys -> SUBSET (Clusters \X (Answers \cup {"error"}))]
      /\ send \in [Clusters -> SUBSET Keys]
  BY DEF TypeOK
<1>4. \A x \in Keys : got[x] \subseteq got'[x] /\ responses(x) \subseteq responses(x)'
  BY <1>1, <1>3 DEF responses
<1>5. TypeOK'
  BY <1>1 DEF TypeOK
<1>6. CountOK'
  <2>1. pc' \in {"loop", "return"} <=> pc \in {"loop", "return"}
    OBVIOUS
  <2>2. go' = go /\ clustersNotUsed' = clustersNotUsed
    OBVIOUS
  <2>3. Waited' = Waited
    BY <2>1, <2>2 DEF Waited
  <2> QED
    BY <2>3, <1>2 DEF CountOK
<1>7. GoroutineOK'
  BY <1>2, <1>3 DEF GoroutineOK
<1>8. AnswerOK'
  <2>1. \A h \in Keys : \A x, y \in got'[h] : x[1] = y[1] => x = y
    BY <1>1, <1>3 DEF AnswerOK
  <2>2. \A h \in Keys : \A x \in got'[h] : go'[x[1]] # "none" /\ h \notin send'[x[1]]
    BY <1>1, <1>2, <1>3 DEF AnswerOK
  <2>3. ASSUME NEW h \in Keys, NEW d \in Clusters, go'[d] # "none"
        PROVE  h \in send'[d] \/ (\E x \in got'[h] : x[1] = d) \/ responses(h)' # {}
    <3>1. CASE h = k /\ d = c
      <4>1. <<c, a>> \in got'[k] /\ <<c, a>>[1] = c
        BY <1>1, <1>3
      <4> QED
        BY <3>1, <4>1, Zenon
    <3>2. CASE ~(h = k /\ d = c)
      BY <1>3, <1>4, <2>3, <3>2 DEF AnswerOK
    <3> QED
      BY <3>1, <3>2
  <2> QED
    BY <2>1, <2>2, <2>3 DEF AnswerOK
<1>9. OutcomeOK'
  BY <1>5 DEF OutcomeOK, TypeOK
<1>10. LeftOutOnlyIfAllFailed' /\ RepairsAllDifferences'
  BY <1>9 DEF OutcomeOK, LeftOutOnlyIfAllFailed, RepairsAllDifferences
<1> QED
  BY <1>5, <1>6, <1>7, <1>8, <1>9, <1>10

LEMMA DoneStep ==
    ASSUME LInv, NEW c \in Clusters, Done(c)
    PROVE  LInv'
<1> USE DEF LInv, Done
<1>1. /\ go' = [go EXCEPT ![c] = "done"]
      /\ go \in [Clusters -> {"none", "run", "done"}]
  BY DEF TypeOK
<1>2. c \in Waited /\ Waited' = Waited \ {c}
  BY <1>1 DEF Waited, GoroutineOK
<1>3. Cardinality(Waited') = Cardinality(Waited) - 1
  BY <1>2, WaitedFinite, FS_RemoveElement
<1>4. wg' = Cardinality(Waited') /\ wg' \in 0..Cardinality(Clusters) /\ ~closed
  <2>1. ~closed
    BY <1>1, ClosedIsDone
  <2>2. IsFiniteSet(Waited') /\ Cardinality(Waited') \in Nat
    BY <1>2, WaitedFinite, FS_Subset, FS_CardinalityType
  <2>3. Cardinality(Waited) \in 0..Cardinality(Clusters) /\ Cardinality(Clusters) \in Nat
    BY WaitedFinite, LingerAssumption, FS_CardinalityType
  <2> QED
    BY <1>3, <2>1, <2>2, <2>3 DEF CountOK
<1>5. TypeOK'
  BY <1>4 DEF TypeOK
<1>6. CountOK'
  BY <1>4 DEF CountOK
<1>7. GoroutineOK'
  BY <1>1 DEF GoroutineOK
<1>8. AnswerOK'
  BY <1>1 DEF AnswerOK, responses
<1>9. OutcomeOK'
  BY DEF OutcomeOK, remainingKeys, responses
<1>10. LeftOutOnlyIfAllFailed' /\ RepairsAllDifferences'
  BY DEF LeftOutOnlyIfAllFailed, RepairsAllDifferences, Differ, responses
<1> QED
  BY <1>5, <1>6, <1>7, <1>8, <1>9, <1>10

LEMMA CloseStep ==
    ASSUME LInv, Close
    PROVE  LInv'
<1> USE DEF LInv, Close
<1>1. Waited' = Waited
  BY DEF Waited
<1>2. TypeOK' /\ CountOK'
  BY <1>1 DEF TypeOK, CountOK
<1>3. GoroutineOK' /\ AnswerOK' /\ OutcomeOK'
  BY DEF GoroutineOK, AnswerOK, OutcomeOK, remainingKeys, responses
<1>4. LeftOutOnlyIfAllFailed' /\ RepairsAllDifferences'
  BY DEF LeftOutOnlyIfAllFailed, RepairsAllDifferences, Differ, responses
<1> QED
  BY <1>2, <1>3, <1>4

LEMMA TimeoutStep ==
    ASSUME LInv, Timeout
    PROVE  LInv'
<1> USE DEF LInv, Timeout
<1>1. /\ go' = [d \in Clusters |-> IF d \in clustersNotUsed THEN "run" ELSE go[d]]
      /\ send' = [d \in Clusters |-> IF d \in clustersNotUsed THEN remainingKeys ELSE send[d]]
      /\ go \in [Clusters -> {"none", "run", "done"}]
      /\ send \in [Clusters -> SUBSET Keys]
  BY DEF scatterSelects, TypeOK
<1>2. Waited' = Waited
  BY <1>1 DEF Waited, GoroutineOK, TypeOK
<1>3. TypeOK' /\ CountOK'
  BY <1>1, <1>2 DEF TypeOK, CountOK, remainingKeys
<1>4. GoroutineOK'
  BY <1>1 DEF GoroutineOK
<1>5. \A k \in Keys : responses(k)' = responses(k)
  BY DEF responses
<1>6. AnswerOK'
  <2>1. \A h \in Keys : \A x \in got[h] : x[1] \in Clusters /\ x[1] \notin clustersNotUsed
    BY DEF AnswerOK, GoroutineOK, TypeOK
  <2>2. \A h \in Keys : \A x \in got'[h] : go'[x[1]] # "none" /\ h \notin send'[x[1]]
    BY <1>1, <2>1 DEF AnswerOK
  <2>3. ASSUME NEW h \in Keys, NEW d \in Clusters, go'[d] # "none"
        PROVE  h \in send'[d] \/ (\E x \in got'[h] : x[1] = d) \/ responses(h)' # {}
    BY <1>1, <1>5, <2>3 DEF AnswerOK, remainingKeys
  <2> QED
    BY <2>2, <2>3 DEF AnswerOK
<1>7. OutcomeOK' /\ LeftOutOnlyIfAllFailed' /\ RepairsAllDifferences'
  BY DEF OutcomeOK, LeftOutOnlyIfAllFailed, RepairsAllDifferences
<1> QED
  BY <1>3, <1>4, <1>6, <1>7

LEMMA LoopClosedStep ==
    ASSUME LInv, LoopClosed
    PROVE  LInv'
<1> USE DEF LInv, LoopClosed
<1>1. Waited' = Waited
  BY DEF Waited
<1>2. TypeOK' /\ CountOK'
  BY <1>1 DEF TypeOK, CountOK
<1>3. GoroutineOK' /\ AnswerOK' /\ OutcomeOK'
  BY DEF GoroutineOK, AnswerOK, OutcomeOK, remainingKeys, responses
<1>4. LeftOutOnlyIfAllFailed' /\ RepairsAllDifferences'
  BY DEF LeftOutOnlyIfAllFailed, RepairsAllDifferences, Differ, responses
<1> QED
  BY <1>2, <1>3, <1>4

LEMMA ReturnIncompleteStep ==
    ASSUME LInv, ReturnIncomplete
    PROVE  LInv'
<1> USE DEF LInv, ReturnIncomplete
<1>1. closed /\ \A c \in Clusters : go[c] = "done" /\ send[c] = {}
  BY ClosedIsDone DEF OutcomeOK
<1>2. Waited' = Waited
  <2>1. clustersNotUsed = {}
    BY <1>1 DEF GoroutineOK, TypeOK
  <2> QED
    BY <2>1 DEF Waited
<1>3. TypeOK' /\ CountOK'
  BY <1>2 DEF TypeOK, CountOK, Differ
<1>4. GoroutineOK' /\ AnswerOK' /\ OutcomeOK'
  BY DEF GoroutineOK, AnswerOK, OutcomeOK, responses
<1>5. LeftOutOnlyIfAllFailed'
  <2>1. ASSUME NEW k \in remainingKeys
        PROVE  {x[1] : x \in {y \in got[k] : y[2] = "error"}} = Clusters
    <3>1. k \in Keys /\ responses(k) = {}
      BY DEF remainingKeys
    <3>2. got[k] \subseteq Clusters \X (Answers \cup {"error"})
      BY <3>1 DEF TypeOK
    <3>3. \A y \in got[k] : y[2] = "error"
      BY <3>1 DEF responses
    <3>4. \A c \in Clusters : \E x \in got[k] : x[1] = c
      BY <1>1, <3>1 DEF AnswerOK
    <3> QED
      BY <3>2, <3>3, <3>4
  <2>2. got' = got /\ result' = {Keys \ remainingKeys}
    OBVIOUS
  <2>3. \A k \in Keys \ (Keys \ remainingKeys) : k \in remainingKeys
    OBVIOUS
  <2> QED
    BY <2>1, <2>2, <2>3 DEF LeftOutOnlyIfAllFailed
<1>6. RepairsAllDifferences'
  BY <1>1 DEF RepairsAllDifferences, Differ, responses
<1> QED
  BY <1>3, <1>4, <1>5, <1>6

LEMMA ReturnOneStep ==
    ASSUME LInv, ReturnOne
    PROVE  LInv'
<1> USE DEF LInv, ReturnOne
<1>1. Waited = Waited' \cup clustersNotUsed /\ Waited' \cap clustersNotUsed = {}
  BY DEF Waited, GoroutineOK, TypeOK
<1>2. wg' = Cardinality(Waited')
  <2>1. IsFiniteSet(Waited') /\ IsFiniteSet(clustersNotUsed)
    BY <1>1, WaitedFinite, FS_Subset
  <2>2. Cardinality(Waited') \in Nat /\ Cardinality(clustersNotUsed) \in Nat
    BY <2>1, FS_CardinalityType
  <2>3. Cardinality(Waited) = Cardinality(Waited') + Cardinality(clustersNotUsed)
    <3>1. Cardinality(Waited' \cup clustersNotUsed)
             = Cardinality(Waited') + Cardinality(clustersNotUsed)
                 - Cardinality(Waited' \cap clustersNotUsed)
      BY <2>1, FS_Union
    <3>2. Cardinality({}) = 0
      BY FS_EmptySet
    <3>3. Cardinality(Waited' \cup clustersNotUsed) = Cardinality(Waited)
      BY <1>1
    <3>4. Cardinality(Waited' \cap clustersNotUsed) = 0
      BY <1>1, <3>2
    <3> HIDE DEF LInv, ReturnOne
    <3> QED
      BY <2>2, <3>1, <3>3, <3>4
  <2> QED
    BY <2>2, <2>3 DEF CountOK
<1>3. wg' \in 0..Cardinality(Clusters) /\ (closed => wg' = 0)
  <2>1. IsFiniteSet(Waited') /\ Cardinality(Waited') <= Cardinality(Waited)
        /\ Cardinality(Waited') \in Nat
    BY <1>1, WaitedFinite, FS_Subset, FS_CardinalityType
  <2>2. Cardinality(Waited) \in 0..Cardinality(Clusters) /\ Cardinality(Clusters) \in Nat
    BY WaitedFinite, LingerAssumption, FS_CardinalityType
  <2> QED
    BY <1>2, <2>1, <2>2 DEF CountOK
<1>4. TypeOK' /\ CountOK'
  BY <1>2, <1>3 DEF TypeOK, CountOK
<1>5. GoroutineOK' /\ AnswerOK' /\ OutcomeOK'
  BY DEF GoroutineOK, AnswerOK, OutcomeOK, responses
<1>6. LeftOutOnlyIfAllFailed'
  BY DEF LeftOutOnlyIfAllFailed
<1>7. RepairsAllDifferences'
  <2>1. repairs = {} /\ Differ = {}
    BY OneAnswer DEF OutcomeOK
  <2>2. \A c \in Clusters : send[c] = {}
    <3> SUFFICES ASSUME NEW c \in Clusters, NEW k \in send[c] PROVE FALSE
      OBVIOUS
    <3>1. k \in Keys /\ go[c] = "run"
      BY DEF GoroutineOK, TypeOK
    <3>2. PICK x \in got[k] : TRUE
      BY <3>1 DEF remainingKeys, responses
    <3>3. x[1] \in Clusters /\ x[1] \notin clustersNotUsed /\ k \notin send[x[1]]
      BY <3>1, <3>2 DEF AnswerOK, GoroutineOK, TypeOK
    <3>4. c \notin clustersNotUsed
      BY <3>1 DEF GoroutineOK
    <3> QED
      BY <3>3, <3>4 DEF GoroutineOK
  <2>3. Differ' = Differ
    BY DEF Differ, responses
  <2> QED
    BY <2>1, <2>2, <2>3 DEF RepairsAllDifferences
<1> QED
  BY <1>4, <1>5, <1>6, <1>7

LEMMA ReturnLingerStep ==
    ASSUME LInv, ReturnLinger
    PROVE  LInv'
<1> USE DEF LInv, ReturnLinger
<1>1. Waited' = Waited
  BY DEF Waited, GoroutineOK
<1>2. TypeOK' /\ CountOK'
  BY <1>1 DEF TypeOK, CountOK
<1>3. GoroutineOK' /\ AnswerOK' /\ OutcomeOK'
  BY DEF GoroutineOK, AnswerOK, OutcomeOK, responses
<1>4. LeftOutOnlyIfAllFailed' /\ RepairsAllDifferences'
  BY DEF LeftOutOnlyIfAllFailed, RepairsAllDifferences
<1> QED
  BY <1>2, <1>3, <1>4

LEMMA LingerEndStep ==
    ASSUME LInv, LingerEnd
    PROVE  LInv'
<1> USE DEF LInv, LingerEnd
<1>1. \A c \in Clusters : send[c] = {}
  BY ClosedIsDone
<1>2. Waited' = Waited
  BY DEF Waited
<1>3. TypeOK' /\ CountOK'
  BY <1>2 DEF TypeOK, CountOK, Differ
<1>4. GoroutineOK' /\ AnswerOK' /\ OutcomeOK'
  BY DEF GoroutineOK, AnswerOK, OutcomeOK, responses
<1>5. LeftOutOnlyIfAllFailed'
  BY DEF LeftOutOnlyIfAllFailed
<1>6. RepairsAllDifferences'
  BY <1>1 DEF RepairsAllDifferences, Differ, responses
<1> QED
  BY <1>3, <1>4, <1>5, <1>6

\* LInv is inductive.
LEMMA LInvStep == LInv /\ [Next]_vars => LInv'
<1> SUFFICES ASSUME LInv, [Next]_vars PROVE LInv'
  OBVIOUS
<1>1. CASE \E c \in Clusters, k \in Keys : Receive(c, k)
  BY <1>1, ReceiveStep
<1>2. CASE \E c \in Clusters : Done(c)
  BY <1>2, DoneStep
<1>3. CASE Close
  BY <1>3, CloseStep
<1>4. CASE Reader
  BY <1>4, TimeoutStep, LoopClosedStep, ReturnIncompleteStep, ReturnOneStep,
     ReturnLingerStep, LingerEndStep DEF Reader
<1>5. CASE UNCHANGED vars
  <2>1. Waited' = Waited
    BY <1>5 DEF vars, Waited
  <2>2. TypeOK' /\ CountOK'
    BY <1>5, <2>1 DEF vars, LInv, TypeOK, CountOK
  <2>3. GoroutineOK' /\ AnswerOK' /\ OutcomeOK'
    BY <1>5 DEF vars, LInv, GoroutineOK, AnswerOK, OutcomeOK, remainingKeys, responses
  <2>4. LeftOutOnlyIfAllFailed' /\ RepairsAllDifferences'
    BY <1>5 DEF vars, LInv, LeftOutOnlyIfAllFailed, RepairsAllDifferences, Differ, responses
  <2> QED
    BY <2>2, <2>3, <2>4 DEF LInv
<1> QED
  BY <1>1, <1>2, <1>3, <1>4, <1>5 DEF Next
-----------------------------------------------------------------------------
(***************************************************************************)
(* Theorems.                                                               *)
(***************************************************************************)
\* LInv holds in every state of every read.
LEMMA LInvAlways == Spec => []LInv
  BY LInvInit, LInvStep, PTL DEF Spec

\* The variables keep their types: the WaitGroup's counter stays between zero and
\* the number of clusters, however the wg.Done calls of the goroutines and of
\* sentOneGotEverything interleave with the timer.
THEOREM TypeCorrect == Spec => []TypeOK
<1>1. LInv => TypeOK
  BY DEF LInv
<1> QED
  BY <1>1, LInvAlways, PTL

\* No goroutine sends on elements after it is closed, and while read still waits
\* for keys it is closed only with every cluster of the farm asked and done.
THEOREM SendCorrect == Spec => []NoSendAfterClose
<1>1. LInv => NoSendAfterClose
  BY ClosedIsDone DEF LInv, NoSendAfterClose
<1> QED
  BY <1>1, LInvAlways, PTL

\* A key is missing in what read returns only if every cluster of the farm has
\* answered it with an error.
THEOREM LeftOutCorrect == Spec => []LeftOutOnlyIfAllFailed
<1>1. LInv => LeftOutOnlyIfAllFailed
  BY DEF LInv
<1> QED
  BY <1>1, LInvAlways, PTL

\* A read that is over has taken every answer it asked for and has handed to read
\* repair the keys on which they differ, whichever way it ended.
THEOREM RepairsCorrect == Spec => []RepairsAllDifferences
<1>1. LInv => RepairsAllDifferences
  BY DEF LInv
<1> QED
  BY <1>1, LInvAlways, PTL
=============================================================================
