------------------------------- MODULE Replay -------------------------------
(***************************************************************************)
(* The replay engine of Go_RDL: one process per replica of a PN counter    *)
(* (Library/server.go, pncounter.go, client.go) replays interleavings of   *)
(* the events recorded by the first run.  The processes order themselves   *)
(* by a turn number kept in Redis (shared_attribute) and a Redis lock.     *)
(* Interleaving 0 is FirstRun/Actions.txt; the others are the files that   *)
(* Datalog/DatalogGen.cpp and Datalog/IlGen.cpp generate from it.          *)
(*                                                                         *)
(* Sleeps stand for time only: a replica's 5 s sleep lets every replica    *)
(* start (comment of do_actions), and its 10 s sleep lets all that can     *)
(* still happen happen.  Redis does not fail.                              *)
(***************************************************************************)
EXTENDS Integers, Sequences, FiniteSets

CONSTANTS Replicas,   \* the replica ids
          Actions,    \* FirstRun/Actions.txt: a sequence of events
          Last,       \* number of generated interleavings replayed
          Permuted    \* the generated orders the run draws from

N == Len(Actions)

ASSUME ReplayAssumption ==
    /\ Actions \in Seq([op : {"Inc", "Dec", "Broadcast"}, id : Replicas, times : Seq(Nat)])
    /\ \A i \in 1..N : Actions[i].times = <<i>>
    /\ Last \in Nat /\ Permuted \subseteq [1..N -> 1..N]
    /\ \A p \in Permuted : \A i, j \in 1..N : p[i] = p[j] => i = j

Goroutine == Replicas \X (0..Last)

VARIABLES order,   \* order[k]: the events of interleaving k, by line of Actions
          attr,    \* shared_attribute in Redis, 0 while unset
          lock,    \* my_lock in Redis: is the key set
          run,     \* run[r]: the interleaving replica r is in, -1 before the first
          pc,      \* pc[g]: where do_actions of replica g[1], interleaving g[2] is
          idx,     \* idx[g]: the line of the file it is at
          tmp,     \* tmp[g]: new_val of Inc or Dec, and the counter it is for
          value,   \* value[g]: counter.value, a new counter per interleaving
          updates, \* updates[g]: counter.updates
          wire,    \* wire[r][q]: lines sent by r to q and not read yet
          merge,   \* merge[q][r]: what q's handler of r's connection is doing
          log      \* history: log[k] is the events executed in interleaving k

vars == <<order, attr, lock, run, pc, idx, tmp, value, updates, wire, merge, log>>
-----------------------------------------------------------------------------
(***************************************************************************)
(* The files.                                                              *)
(***************************************************************************)
\* The pruning rule that DatalogGen writes: N1 < N2, N3 > N4, N6 = 6.
Pruned(p) == p[1] < p[2] /\ p[3] > p[4] /\ p[6] = 6

\* replaceNumbers: a line of Actions.txt and, appended, its place in the file.
Line(k, i) ==
    LET e == Actions[order[k][i]]
    IN  IF k = 0 THEN e ELSE [e EXCEPT !.times = Append(@, i)]

\* lamport_t of do_actions: the third field of the line.
Lamport(k, i) == Line(k, i).times[1]

\* The next line from i on that is the replica's own, N+1 if there is none.
NextOwn(g, i) ==
    LET own == {j \in i..N : Line(g[2], j).id = g[1]}
    IN  IF own = {} THEN N + 1 ELSE CHOOSE j \in own : \A x \in own : j <= x

\* The loop of do_actions goes to its next own line.
Continue(g, i) ==
    /\ idx' = [idx EXCEPT ![g] = NextOwn(g, i)]
    /\ pc' = [pc EXCEPT ![g] = IF NextOwn(g, i) > N THEN "done" ELSE "spin"]
-----------------------------------------------------------------------------
(***************************************************************************)
(* main.                                                                   *)
(***************************************************************************)
NoMerge == [todo |-> <<>>, of |-> 0, new |-> <<>>]

Delta(op) == IF op = "Inc" THEN 1 ELSE -1

Waiting(g) == pc[g] = "spin" /\ attr # Lamport(g[2], idx[g])

\* Ten seconds are over: interleavings up to k can do no more.  A goroutine that
\* waits for a turn stays when its replica goes on to the next interleaving.
Settled(k) ==
    /\ \A r \in Replicas : run[r] >= k
    /\ \A g \in Replicas \X (0..k) : pc[g] = "done" \/ Waiting(g)
    /\ \A r, q \in Replicas : wire[r][q] = <<>> /\ merge[q][r] = NoMerge

\* A replica starts its next interleaving: the turn is reset, a new counter made.
Start(r) ==
    /\ run[r] < Last
    /\ run[r] >= 0 => Settled(run[r])
    /\ run' = [run EXCEPT ![r] = @ + 1]
    /\ attr' = 1
    /\ pc' = [pc EXCEPT ![<<r, run[r] + 1>>] = "sleep"]
    /\ UNCHANGED <<order, lock, idx, tmp, value, updates, wire, merge, log>>

\* Five seconds are over: every replica has started.
Wake(g) ==
    /\ pc[g] = "sleep"
    /\ \A r \in Replicas : run[r] >= g[2]
    /\ Continue(g, 1)
    /\ UNCHANGED <<order, attr, lock, run, tmp, value, updates, wire, merge, log>>
-----------------------------------------------------------------------------
(***************************************************************************)
(* do_actions.                                                             *)
(***************************************************************************)
Op(g) == Line(g[2], idx[g]).op

\* Mutant: no wait for the turn.
SeeTurnAlways(g) ==
    /\ pc[g] = "spin"
    /\ pc' = [pc EXCEPT ![g] = "lock"]
    /\ UNCHANGED <<order, attr, lock, run, idx, tmp, value, updates, wire, merge, log>>

\* The loop around client.Get ends.
SeeTurn(g) ==
    /\ pc[g] = "spin" /\ attr = Lamport(g[2], idx[g])
    /\ pc' = [pc EXCEPT ![g] = "lock"]
    /\ UNCHANGED <<order, attr, lock, run, idx, tmp, value, updates, wire, merge, log>>

\* acquireLock; when the lock is taken the event is skipped.
AcquireLock(g) ==
    /\ pc[g] = "lock"
    /\ lock' = TRUE
    /\ IF lock THEN Continue(g, idx[g] + 1)
               ELSE pc' = [pc EXCEPT ![g] = "work"] /\ UNCHANGED idx
    /\ UNCHANGED <<order, attr, run, tmp, value, updates, wire, merge, log>>

\* The lock's five seconds are over.
Expire ==
    /\ lock /\ lock' = FALSE
    /\ UNCHANGED <<order, attr, run, pc, idx, tmp, value, updates, wire, merge, log>>

\* Mutant: what is not an Inc is a Dec.
ReadAnyOp(g) ==
    /\ pc[g] = "work"
    /\ LET c == <<g[1], run[g[1]]>>
       IN  tmp' = [tmp EXCEPT ![g] = <<c, value[c] + Delta(Op(g))>>]
    /\ pc' = [pc EXCEPT ![g] = "set"]
    /\ UNCHANGED <<order, attr, lock, run, idx, value, updates, wire, merge, log>>

\* Inc and Dec hold mu, but Merge does not take it: the read and the write of
\* counter.value are two steps.  counter is the current one of the process.
Read(g) ==
    /\ pc[g] = "work" /\ Op(g) # "Broadcast"
    /\ LET c == <<g[1], run[g[1]]>>
       IN  tmp' = [tmp EXCEPT ![g] = <<c, value[c] + Delta(Op(g))>>]
    /\ pc' = [pc EXCEPT ![g] = "set"]
    /\ UNCHANGED <<order, attr, lock, run, idx, value, updates, wire, merge, log>>

SetVal(g) ==
    /\ pc[g] = "set"
    /\ LET c == tmp[g][1]
       IN  /\ value' = [value EXCEPT ![c] = tmp[g][2]]
           /\ updates' = [updates EXCEPT ![c] = Append(@, Op(g))]
    /\ tmp' = [tmp EXCEPT ![g] = <<>>]
    /\ pc' = [pc EXCEPT ![g] = "release"]
    /\ log' = [log EXCEPT ![g[2]] = Append(@, order[g[2]][idx[g]])]
    /\ UNCHANGED <<order, attr, lock, run, idx, wire, merge>>

\* Mutant: the turn is passed on before the lock is released.
BroadcastPassesTurn(g) ==
    /\ pc[g] = "work" /\ Op(g) = "Broadcast"
    /\ LET r == g[1]
           c == <<r, run[r]>>
       IN  /\ wire' = [wire EXCEPT ![r] = [q \in Replicas |->
                          IF q = r THEN @[q] ELSE Append(@[q], updates[c])]]
           /\ updates' = [updates EXCEPT ![c] = <<>>]
    /\ pc' = [pc EXCEPT ![g] = "release"]
    /\ log' = [log EXCEPT ![g[2]] = Append(@, order[g[2]][idx[g]])]
    /\ attr' = Lamport(g[2], idx[g]) + 1
    /\ UNCHANGED <<order, lock, run, idx, tmp, value, merge>>

\* ToMarshal and broadcast: the updates since the last one go to every peer.
Broadcast(g) ==
    /\ pc[g] = "work" /\ Op(g) = "Broadcast"
    /\ LET r == g[1]
           c == <<r, run[r]>>
       IN  /\ wire' = [wire EXCEPT ![r] = [q \in Replicas |->
                          IF q = r THEN @[q] ELSE Append(@[q], updates[c])]]
           /\ updates' = [updates EXCEPT ![c] = <<>>]
    /\ pc' = [pc EXCEPT ![g] = "release"]
    /\ log' = [log EXCEPT ![g[2]] = Append(@, order[g[2]][idx[g]])]
    /\ UNCHANGED <<order, attr, lock, run, idx, tmp, value, merge>>

\* releaseLock deletes the key, whoever set it.
ReleaseLock(g) ==
    /\ pc[g] = "release"
    /\ lock' = FALSE
    /\ pc' = [pc EXCEPT ![g] = "pass"]
    /\ UNCHANGED <<order, attr, run, idx, tmp, value, updates, wire, merge, log>>

\* Mutant: the turn goes back to the start at the end of a replica's events.
PassTurnResets(g) ==
    /\ pc[g] = "pass"
    /\ attr' = IF NextOwn(g, idx[g] + 1) > N THEN 1 ELSE Lamport(g[2], idx[g]) + 1
    /\ Continue(g, idx[g] + 1)
    /\ UNCHANGED <<order, lock, run, tmp, value, updates, wire, merge, log>>

\* lockTime++ and client.Set: the next turn.
PassTurn(g) ==
    /\ pc[g] = "pass"
    /\ attr' = Lamport(g[2], idx[g]) + 1
    /\ Continue(g, idx[g] + 1)
    /\ UNCHANGED <<order, lock, run, tmp, value, updates, wire, merge, log>>
-----------------------------------------------------------------------------
(***************************************************************************)
(* handleConnection of replica q for the connection of replica r.          *)
(***************************************************************************)
\* A new bufio.Reader takes what the socket holds, uses the first line and is
\* then dropped with the other lines it read.  There are others when a goroutine
\* of an earlier interleaving broadcasts beside the one of the current.
Receive(q, r) ==
    /\ merge[q][r] = NoMerge
    /\ \E n \in 1..Len(wire[r][q]) :
         wire' = [wire EXCEPT ![r][q] = SubSeq(@, n + 1, Len(@))]
    /\ LET line == Head(wire[r][q])
       IN  merge' = [merge EXCEPT ![q][r] =
                       IF line = <<>> THEN NoMerge
                       ELSE [todo |-> line, of |-> run[q], new |-> <<>>]]
    /\ UNCHANGED <<order, attr, lock, run, pc, idx, tmp, value, updates, log>>

MergeRead(q, r) ==
    LET h == merge[q][r] IN
    /\ h.todo # <<>> /\ h.new = <<>>
    /\ merge' = [merge EXCEPT ![q][r].new = <<value[<<q, h.of>>] + Delta(Head(h.todo))>>]
    /\ UNCHANGED <<order, attr, lock, run, pc, idx, tmp, value, updates, wire, log>>

\* SetRemoteVal; after the last update handleConnection starts over.
MergeWrite(q, r) ==
    LET h == merge[q][r] IN
    /\ h.new # <<>>
    /\ value' = [value EXCEPT ![<<q, h.of>>] = h.new[1]]
    /\ merge' = [merge EXCEPT ![q][r] =
                   IF Len(h.todo) = 1 THEN NoMerge
                   ELSE [h EXCEPT !.todo = Tail(@), !.new = <<>>]]
    /\ UNCHANGED <<order, attr, lock, run, pc, idx, tmp, updates, wire, log>>
-----------------------------------------------------------------------------
Init ==
    /\ order \in {f \in [0..Last -> Permuted \cup {[i \in 1..N |-> i]}] :
                    f[0] = [i \in 1..N |-> i] /\ \A k \in 1..Last : f[k] \in Permuted}
    /\ attr = 0
    /\ lock = FALSE
    /\ run = [r \in Replicas |-> -1]
    /\ pc = [g \in Goroutine |-> "none"]
    /\ idx = [g \in Goroutine |-> 0]
    /\ tmp = [g \in Goroutine |-> <<>>]
    /\ value = [g \in Goroutine |-> 0]
    /\ updates = [g \in Goroutine |-> <<>>]
    /\ wire = [r \in Replicas |-> [q \in Replicas |-> <<>>]]
    /\ merge = [q \in Replicas |-> [r \in Replicas |-> NoMerge]]
    /\ log = [k \in 0..Last |-> <<>>]

DoActions(g) ==
    \/ Wake(g) \/ SeeTurn(g) \/ AcquireLock(g) \/ Read(g) \/ SetVal(g)
    \/ Broadcast(g) \/ ReleaseLock(g) \/ PassTurn(g)

HandleConnection(q, r) == Receive(q, r) \/ MergeRead(q, r) \/ MergeWrite(q, r)

Next == \/ \E r \in Replicas : Start(r)
        \/ \E g \in Goroutine : DoActions(g)
        \/ \E q, r \in Replicas : HandleConnection(q, r)
        \/ Expire

Spec == Init /\ [][Next]_vars

\* Every process and every goroutine that can go on does; the lock need not
\* expire.
Fairness ==
    /\ \A r \in Replicas : WF_vars(Start(r))
    /\ \A g \in Goroutine : WF_vars(DoActions(g))
    /\ \A q, r \in Replicas : WF_vars(HandleConnection(q, r))

FairSpec == Spec /\ Fairness
-----------------------------------------------------------------------------
(***************************************************************************)
(* Properties.                                                             *)
(***************************************************************************)
Update == {"Inc", "Dec"}

\* Every variable has its type, and the turn never runs past the last event
\* by more than one.
TypeOK ==
    /\ order \in [0..Last -> [1..N -> 1..N]]
    /\ attr \in 0..(N + 1)
    /\ lock \in BOOLEAN
    /\ run \in [Replicas -> -1..Last]
    /\ pc \in [Goroutine -> {"none", "sleep", "spin", "lock", "work", "set",
                             "release", "pass", "done"}]
    /\ idx \in [Goroutine -> 0..(N + 1)]
    /\ tmp \in [Goroutine -> {<<>>} \cup (Goroutine \X Int)]
    /\ value \in [Goroutine -> Int]
    /\ updates \in [Goroutine -> Seq(Update)]
    /\ wire \in [Replicas -> [Replicas -> Seq(Seq(Update))]]
    /\ merge \in [Replicas -> [Replicas -> [todo : Seq(Update), of : 0..Last,
                                            new : Seq(Int)]]]
    /\ log \in [0..Last -> Seq(1..N)]

\* Event t is misplaced in interleaving k: in its file it comes after a later event
\* of the same replica, which then waits for a turn that only it could bring.
Misplaced(k, t) ==
    \E i, j \in 1..N : /\ i < j /\ order[k][j] = t /\ order[k][i] > t
                      /\ Line(k, i).id = Line(k, j).id

KeepsOwn(k) == \A t \in 1..N : ~Misplaced(k, t)

\* No interleaving that a replica has left behind has a misplaced event.  Of the 30
\* files generated from FirstRun/Actions.txt, 28 have one.
Undisturbed == \A r \in Replicas : \A k \in 0..(run[r] - 1) : KeepsOwn(k)

\* At most one replica at a time executes an event or touches the lock, although
\* the lock may expire under its holder and releaseLock deletes any lock: the
\* turn alone keeps the others out.  Only while Undisturbed: behind a file with a
\* misplaced event a goroutine stays that acts in a later interleaving.
SingleActor ==
    Undisturbed =>
      \A g, h \in Goroutine :
        pc[g] \in {"work", "set", "release"} /\ pc[h] \in {"lock", "work", "set", "release"}
          => g = h

\* The turn in Redis orders the events of all replicas: what has been executed
\* of an interleaving is, in order and without gap or repetition, the beginning
\* of the run recorded in Actions.txt.  Only while Undisturbed: a goroutine that
\* stayed behind goes on where it waited, with a gap, and others go on with it.
RecordedOrder ==
    Undisturbed => \A k \in 0..Last : \A i \in 1..Len(log[k]) : log[k][i] = i

\* The events that come before every misplaced one in the recorded run.
Executable(k) == {t \in 1..N : \A u \in 1..t : ~Misplaced(k, u)}

\* Every replica is in interleaving k, and all that can happen in it has happened.
Over(k) == (\A r \in Replicas : run[r] = k) /\ Settled(k)

\* The events executed of interleaving k are those before its first misplaced one,
\* and some replica waits for ever exactly if there is one.
UpToMisplaced(k) ==
    /\ 1..Len(log[k]) = Executable(k)
    /\ KeepsOwn(k) <=> \A r \in Replicas : pc[<<r, k>>] = "done"

\* Whatever its file, an interleaving that no earlier one disturbs gets over, and is
\* executed up to its first misplaced event: wholly if the file has none, as no
\* turn is lost and no event skipped for a taken lock; and if it has one, then
\* do_actions waits for ever ("it replays the remaining interleavings", README.md).
StopsAtMisplaced ==
    \A k \in 0..Last :
      (\A j \in 0..(k - 1) : KeepsOwn(j)) => <>(Over(k) /\ UpToMisplaced(k))

\* "Subsequently, it replays the remaining interleavings" (README.md): the events
\* of an interleaving are executed in the order of its file.
ReplaysTheInterleaving ==
    \A k \in 0..Last : \A i \in 1..Len(log[k]) : log[k][i] = order[k][i]

\* "expected := 2" (TestFinalValue, and the call of testFinalValue in main): when
\* an interleaving is over, a replica's counter is 2; asked here only of files that
\* every replica gets through.
FinalValue ==
    \A r \in Replicas, k \in 1..Last :
      KeepsOwn(k) /\ run[r] = k /\ Settled(k) => value[<<r, k>>] = 2
=============================================================================
