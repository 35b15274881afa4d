-------------------------- MODULE ReadFirstLinger ---------------------------
(***************************************************************************)
(* One call of sendVarReadFirstLinger.read (farm/read_strategies.go): the  *)
(* reader, the goroutine per cluster that scatterSelects starts, the       *)
(* WaitGroup and the goroutine that closes the elements channel when it    *)
(* reaches zero.  The channel is unbuffered: a goroutine hands an element  *)
(* over only when the reader takes it.                                     *)
(*                                                                         *)
(* What a cluster answers for a key is an error or one of the values in    *)
(* Answers, which stand for different tuple sets.                          *)
(***************************************************************************)
EXTENDS Integers, FiniteSets

CONSTANTS Clusters,    \* the clusters of the farm
          Keys,        \* the keys of the call
          Answers,     \* what a cluster can hold for a key
          Permits,     \* what permitter.canHas may answer
          Timers       \* whether thresholdLatency >= 0

ASSUME LingerAssumption ==
    /\ IsFiniteSet(Clusters) /\ Clusters # {}
    /\ IsFiniteSet(Keys) /\ Keys # {}
    /\ "error" \notin Answers
    /\ Permits \subseteq BOOLEAN /\ Timers \subseteq BOOLEAN

VARIABLES maySendAll,      \* the local variable of read
          clustersNotUsed, \* the local variable of read
          timeout,         \* is a timer running
          pc,              \* "loop", "linger" or "end"
          send,            \* send[c]: keys c's goroutine has not handed over
          go,              \* go[c]: "none", "run" or "done"
          wg,              \* the WaitGroup's counter
          closed,          \* is elements closed
          got,             \* got[k]: the pairs (cluster, element) received
          result,          \* {} until read returns, then {the keys it returned}
          repairs          \* keys given to the repair strategy

vars == <<maySendAll, clustersNotUsed, timeout, pc, send, go, wg, closed, got,
          result, repairs>>

\* responses[k]: the elements received that are no errors.
responses(k) == {x \in got[k] : x[2] # "error"}

remainingKeys == {k \in Keys : responses(k) = {}}

\* The keys for which unionDifference finds a difference.
Differ == {k \in Keys : Cardinality({x[2] : x \in responses(k)}) > 1}

\* scatterSelects: a goroutine for each cluster of cs, selecting the keys ks.
scatterSelects(cs, ks) ==
    /\ go' = [c \in Clusters |-> IF c \in cs THEN "run" ELSE go[c]]
    /\ send' = [c \in Clusters |-> IF c \in cs THEN ks ELSE send[c]]
-----------------------------------------------------------------------------
Init ==
    /\ maySendAll \in Permits
    /\ \E used \in IF maySendAll THEN {Clusters} ELSE {{c} : c \in Clusters} :
         /\ clustersNotUsed = Clusters \ used
         /\ go = [c \in Clusters |-> IF c \in used THEN "run" ELSE "none"]
         /\ send = [c \in Clusters |-> IF c \in used THEN Keys ELSE {}]
    /\ \E t \in Timers : timeout = (~maySendAll /\ t)
    /\ pc = "loop"
    /\ wg = Cardinality(Clusters)
    /\ closed = FALSE
    /\ got = [k \in Keys |-> {}]
    /\ result = {}
    /\ repairs = {}

\* Mutant: an error answers the key.
ReceiveAny(c, k) ==
    /\ pc \in {"loop", "linger"}
    /\ k \in send[c]
    /\ send' = [send EXCEPT ![c] = @ \ {k}]
    /\ \E a \in Answers \cup {"error"} : got' = [got EXCEPT ![k] = @ \cup {<<c, a>>}]
    /\ pc' = IF pc = "loop" /\ \A x \in Keys : got'[x] # {} THEN "return" ELSE pc
    /\ UNCHANGED <<maySendAll, clustersNotUsed, timeout, go, wg, closed, result, repairs>>

\* c's goroutine hands the element for key k to the loop, which ends when no key
\* remains, or to the linger goroutine.
Receive(c, k) ==
    /\ pc \in {"loop", "linger"}
    /\ k \in send[c]
    /\ send' = [send EXCEPT ![c] = @ \ {k}]
    /\ \E a \in Answers \cup {"error"} : got' = [got EXCEPT ![k] = @ \cup {<<c, a>>}]
    /\ pc' = IF pc = "loop" /\ remainingKeys' = {} THEN "return" ELSE pc
    /\ UNCHANGED <<maySendAll, clustersNotUsed, timeout, go, wg, closed, result, repairs>>

\* Mutant: wg.Done is not deferred.
DoneAtOnce(c) ==
    /\ go[c] = "run"
    /\ go' = [go EXCEPT ![c] = "done"]
    /\ wg' = wg - 1
    /\ UNCHANGED <<maySendAll, clustersNotUsed, timeout, pc, send, closed, got, result, repairs>>

\* The deferred wg.Done of c's goroutine.
Done(c) ==
    /\ go[c] = "run" /\ send[c] = {}
    /\ go' = [go EXCEPT ![c] = "done"]
    /\ wg' = wg - 1
    /\ UNCHANGED <<maySendAll, clustersNotUsed, timeout, pc, send, closed, got, result, repairs>>

\* The goroutine that waits for the WaitGroup.
Close ==
    /\ wg = 0 /\ ~closed
    /\ closed' = TRUE
    /\ UNCHANGED <<maySendAll, clustersNotUsed, timeout, pc, send, go, wg, got, result, repairs>>

\* Mutant: the promoted read is still taken for a SendOne.
TimeoutKeepsOne ==
    /\ pc = "loop" /\ timeout
    /\ timeout' = FALSE
    /\ scatterSelects(clustersNotUsed, remainingKeys)
    /\ UNCHANGED <<maySendAll, clustersNotUsed, pc, wg, closed, got, result, repairs>>

\* thresholdLatency has passed: promote to SendAll for the remaining keys.
Timeout ==
    /\ pc = "loop" /\ timeout
    /\ timeout' = FALSE
    /\ maySendAll' = TRUE
    /\ scatterSelects(clustersNotUsed, remainingKeys)
    /\ clustersNotUsed' = {}
    /\ UNCHANGED <<pc, wg, closed, got, result, repairs>>

\* All Selects are done and some key has no response: the loop ends.
LoopClosed ==
    /\ pc = "loop" /\ closed
    /\ pc' = "return"
    /\ UNCHANGED <<maySendAll, clustersNotUsed, timeout, send, go, wg, closed, got,
                   result, repairs>>

\* A partial result, and repairs for what was received; or a complete failure.
ReturnIncomplete ==
    /\ pc = "return" /\ remainingKeys # {}
    /\ pc' = "end"
    /\ result' = {Keys \ remainingKeys}
    /\ repairs' = Differ
    /\ UNCHANGED <<maySendAll, clustersNotUsed, timeout, send, go, wg, closed, got>>

\* Mutant: Done for every cluster, the used one included.
ReturnOneDoneAll ==
    /\ pc = "return" /\ remainingKeys = {} /\ ~maySendAll
    /\ pc' = "end"
    /\ result' = {Keys}
    /\ wg' = wg - Cardinality(Clusters)
    /\ UNCHANGED <<maySendAll, clustersNotUsed, timeout, send, go, closed, got, repairs>>

\* sentOneGotEverything: wg.Done for the clusters that were never asked.
ReturnOne ==
    /\ pc = "return" /\ remainingKeys = {} /\ ~maySendAll
    /\ pc' = "end"
    /\ result' = {Keys}
    /\ wg' = wg - Cardinality(clustersNotUsed)
    /\ UNCHANGED <<maySendAll, clustersNotUsed, timeout, send, go, closed, got, repairs>>

\* The result is returned and a goroutine started to collect the rest.
ReturnLinger ==
    /\ pc = "return" /\ remainingKeys = {} /\ maySendAll
    /\ pc' = "linger"
    /\ result' = {Keys}
    /\ UNCHANGED <<maySendAll, clustersNotUsed, timeout, send, go, wg, closed, got, repairs>>

\* Mutant: lingering stops at the first difference.
LingerEndEarly ==
    /\ pc = "linger" /\ (closed \/ Differ # {})
    /\ pc' = "end"
    /\ repairs' = Differ
    /\ UNCHANGED <<maySendAll, clustersNotUsed, timeout, send, go, wg, closed, got, result>>

\* elements is closed: the lingering goroutine issues the repairs.
LingerEnd ==
    /\ pc = "linger" /\ closed
    /\ pc' = "end"
    /\ repairs' = Differ
    /\ UNCHANGED <<maySendAll, clustersNotUsed, timeout, send, go, wg, closed, got, result>>

Reader == Timeout \/ LoopClosed \/ ReturnIncomplete \/ ReturnOne \/ ReturnLinger \/ LingerEnd

Next == \/ \E c \in Clusters, k \in Keys : Receive(c, k)
        \/ \E c \in Clusters : Done(c)
        \/ Close
        \/ Reader

Spec == Init /\ [][Next]_vars

\* Every cluster answers and every goroutine that can go on does; the timer fires
\* unless the read ends before.
Fairness ==
    /\ WF_vars(Reader) /\ WF_vars(Close)
    /\ \A c \in Clusters : WF_vars(Done(c)) /\ \A k \in Keys : WF_vars(Receive(c, k))

FairSpec == Spec /\ Fairness
-----------------------------------------------------------------------------
(***************************************************************************)
(* Properties.                                                             *)
(***************************************************************************)
\* Every variable has its type; the WaitGroup never goes below zero, in whatever
\* order the timer fires, the clusters answer and the read returns (the wg.Done
\* calls of the goroutines and of sentOneGotEverything add up).
TypeOK ==
    /\ maySendAll \in BOOLEAN /\ timeout \in BOOLEAN /\ closed \in BOOLEAN
    /\ clustersNotUsed \subseteq Clusters
    /\ pc \in {"loop", "return", "linger", "end"}
    /\ send \in [Clusters -> SUBSET Keys]
    /\ go \in [Clusters -> {"none", "run", "done"}]
    /\ wg \in 0..Cardinality(Clusters)
    /\ got \in [Keys -> SUBSET (Clusters \X (Answers \cup {"error"}))]
    /\ result \in {{}} \cup {{ks} : ks \in SUBSET Keys}
    /\ repairs \subseteq Keys

\* Nothing is sent on elements once it is closed (that would panic), and it is
\* closed only when no Select the read may still need is under way.
NoSendAfterClose ==
    closed => /\ \A c \in Clusters : send[c] = {} /\ go[c] # "run"
              /\ pc = "loop" => \A c \in Clusters : go[c] = "done"

\* A key is left out of the result only after every cluster of the farm was asked
\* for it and answered with an error.
LeftOutOnlyIfAllFailed ==
    \A ks \in result : \A k \in Keys \ ks :
      {x[1] : x \in {y \in got[k] : y[2] = "error"}} = Clusters

\* When a read is over, it has taken the answer of every cluster it asked, those
\* that came after the result was returned included, and the keys it gave to
\* read repair are those on which these answers differ.
RepairsAllDifferences ==
    pc = "end" => /\ repairs = Differ
                  /\ \A c \in Clusters : send[c] = {}

\* The one cluster asked has answered with an error, there are others, and no
\* timer will ask them: the WaitGroup waits for clusters nobody asks.
WaitsForNobody ==
    /\ pc = "loop" /\ ~maySendAll /\ ~timeout
    /\ clustersNotUsed # {} /\ remainingKeys # {}
    /\ \A c \in Clusters : send[c] = {}

\* Every read returns, and none of its goroutines is left behind: not the ones
\* sending, not the one that closes the channel, not the one that lingers.  With
\* thresholdLatency < 0, which only SendAllReadFirstLinger sets, together with a
\* permit for everything, but the flags of roshi-server allow, there is one
\* exception: the one cluster asked answers with an error.
NothingLeftBehind ==
    <>[](\/ pc = "end" /\ closed /\ \A c \in Clusters : go[c] # "run"
         \/ WaitsForNobody)
=============================================================================
