-------------------------------- MODULE Pool --------------------------------
(***************************************************************************)
(* The connection pool of one Redis instance (pool/connection_pool.go) and *)
(* the way Pool.WithIndex uses it (pool/pool.go): get a connection, run    *)
(* the request on it, put it back.  get and put run under one mutex and a  *)
(* condition variable; each is one step here, cut where get waits and      *)
(* where it releases the mutex before dialling.                            *)
(***************************************************************************)
EXTENDS Integers, Sequences, FiniteSets

CONSTANTS Client,     \* the goroutines that call WithIndex
          Conn,       \* connection objects
          Nil,        \* the nil connection of a failed dial
          Max,        \* maxConnectionsPerInstance
          Requests    \* bound: how many times each goroutine calls WithIndex

ASSUME PoolAssumption == /\ IsFiniteSet(Client) /\ Nil \notin Conn
                         /\ Max \in Nat \ {0} /\ Requests \in Nat

VARIABLES available,    \* idle connections, oldest first
          outstanding,  \* connections handed out or being dialled
          pc,           \* where each goroutine is in WithIndex
          held,         \* the connection it has
          closed,       \* connections in use whose Err() is not nil
          left          \* requests it still has to make

vars == <<available, outstanding, pc, held, closed, left>>

At(state) == {g \in Client : pc[g] = state}

\* One round of the loop in get, with the mutex held.
Wait(g) ==
    /\ available = <<>> /\ outstanding >= Max
    /\ pc' = [pc EXCEPT ![g] = "asleep"]
    /\ UNCHANGED <<available, outstanding, held>>

StartDial(g) ==
    /\ available = <<>> /\ outstanding < Max
    /\ outstanding' = outstanding + 1
    /\ pc' = [pc EXCEPT ![g] = "dial"]
    /\ UNCHANGED <<available, held>>

Reuse(g) ==
    /\ available # <<>>
    /\ held' = [held EXCEPT ![g] = Head(available)]
    /\ available' = Tail(available)
    /\ outstanding' = IF outstanding < Max THEN outstanding + 1 ELSE outstanding
    /\ pc' = [pc EXCEPT ![g] = "use"]

\* Mutant: the outstanding counter is bumped only once the dial succeeded.
LoopCountsLate(g) ==
    \/ Wait(g)
    \/ /\ available = <<>> /\ outstanding < Max
       /\ pc' = [pc EXCEPT ![g] = "dial"]
       /\ UNCHANGED <<available, outstanding, held>>
    \/ Reuse(g)

Loop(g) == Wait(g) \/ StartDial(g) \/ Reuse(g)

Get(g) == /\ pc[g] = "idle" /\ left[g] > 0
          /\ Loop(g)
          /\ left' = [left EXCEPT ![g] = @ - 1]
          /\ UNCHANGED closed

\* A goroutine that was signalled takes the mutex again; others may have come
\* first.
Retry(g) == pc[g] = "woken" /\ Loop(g) /\ UNCHANGED <<closed, left>>

\* Connections some goroutine holds or the pool keeps.
InUse == {held[g] : g \in Client} \cup {available[i] : i \in DOMAIN available}

DialOK(g) ==
    /\ pc[g] = "dial"
    /\ \E c \in Conn \ InUse : /\ held' = [held EXCEPT ![g] = c]
                               /\ closed' = closed \ {c}
    /\ pc' = [pc EXCEPT ![g] = "use"]
    /\ UNCHANGED <<available, outstanding, left>>

\* WithIndex returns the error; the deferred put gets a nil connection.
DialFail(g) ==
    /\ pc[g] = "dial"
    /\ pc' = [pc EXCEPT ![g] = "put"]
    /\ UNCHANGED <<available, outstanding, held, closed, left>>

\* The request runs; on an error WithIndex closes the connection.
Do(g) ==
    /\ pc[g] = "use"
    /\ pc' = [pc EXCEPT ![g] = "put"]
    /\ \/ UNCHANGED closed
       \/ closed' = closed \cup {held[g]}
    /\ UNCHANGED <<available, outstanding, held, left>>

\* co.Signal: one waiting goroutine, if any, becomes runnable.
Signal(g) ==
    IF At("asleep") = {} THEN pc' = [pc EXCEPT ![g] = "idle"]
    ELSE \E h \in At("asleep") : pc' = [pc EXCEPT ![g] = "idle", ![h] = "woken"]

Decremented == IF outstanding > 0 THEN outstanding - 1 ELSE outstanding

\* Mutant: a goroutine that throws a connection away wakes nobody.
DiscardSilently(g) ==
    /\ held[g] = Nil \/ held[g] \in closed
    /\ outstanding' = Decremented
    /\ pc' = [pc EXCEPT ![g] = "idle"]
    /\ UNCHANGED available

\* put of a connection that failed to dial, was closed or broke.
Discard(g) ==
    /\ held[g] = Nil \/ held[g] \in closed
    /\ outstanding' = Decremented
    /\ Signal(g)
    /\ UNCHANGED available

\* put of a healthy connection.  With a full pool it is only closed: nobody is
\* woken and outstanding stays as it is.
Return(g) ==
    /\ held[g] # Nil /\ held[g] \notin closed
    /\ IF Len(available) >= Max
       THEN pc' = [pc EXCEPT ![g] = "idle"] /\ UNCHANGED <<available, outstanding>>
       ELSE /\ available' = Append(available, held[g])
            /\ outstanding' = Decremented
            /\ Signal(g)

\* Mutant: the connection is kept by its user as well.
PutKeepsHold(g) ==
    /\ pc[g] = "put"
    /\ Discard(g) \/ Return(g)
    /\ UNCHANGED <<held, closed, left>>

Put(g) ==
    /\ pc[g] = "put"
    /\ Discard(g) \/ Return(g)
    /\ held' = [held EXCEPT ![g] = Nil]
    /\ closed' = closed \ {held[g]}
    /\ UNCHANGED left

\* Mutant: the idle connections are taken off the outstanding ones.
CloseAllUncounts == /\ available # <<>>
                    /\ available' = <<>>
                    /\ outstanding' = outstanding - Len(available)
                    /\ UNCHANGED <<pc, held, closed, left>>

\* Pool.Close: only idle connections are closed, and nobody is woken:
\* a waiter was woken for each of them when it was put back.
CloseAll == /\ available # <<>>
            /\ available' = <<>>
            /\ UNCHANGED <<outstanding, pc, held, closed, left>>
-----------------------------------------------------------------------------
Init == /\ available = <<>>
        /\ outstanding = 0
        /\ pc = [g \in Client |-> "idle"]
        /\ held = [g \in Client |-> Nil]
        /\ closed = {}
        /\ left = [g \in Client |-> Requests]

Step(g) == Get(g) \/ Retry(g) \/ DialOK(g) \/ DialFail(g) \/ Do(g) \/ Put(g)

Next == CloseAll \/ \E g \in Client : Step(g)

Spec == Init /\ [][Next]_vars

\* Dials and requests end by their timeouts, and the Go scheduler runs every
\* goroutine that is not waiting on the condition variable.
FairSpec == Spec /\ \A g \in Client : WF_vars(Step(g))
-----------------------------------------------------------------------------
(***************************************************************************)
(* Properties.                                                             *)
(***************************************************************************)
\* Every variable has its type.
TypeOK ==
    /\ available \in Seq(Conn)
    /\ outstanding \in Nat
    /\ pc \in [Client -> {"idle", "asleep", "woken", "dial", "use", "put"}]
    /\ held \in [Client -> Conn \cup {Nil}]
    /\ closed \subseteq Conn
    /\ left \in [Client -> 0..Requests]

Busy == {g \in Client : pc[g] \in {"dial", "use", "put"}}

\* outstanding is exactly the number of goroutines between get and put, dials
\* under way and failed included, so no failure leaks a slot; and the instance
\* never has more than Max connections.  The branches of put that throw a
\* healthy connection away, or leave outstanding at 0, are therefore dead.
Accounting ==
    /\ outstanding = Cardinality(Busy)
    /\ Len(available) + outstanding <= Max

\* A connection has one owner: a goroutine, or one place in the pool; and what
\* the pool keeps has not been closed by its last user.
SingleOwner ==
    /\ \A g, h \in Client : held[g] = held[h] /\ g # h => held[g] = Nil
    /\ \A g \in Client, i \in DOMAIN available : available[i] # held[g]
    /\ \A i, j \in DOMAIN available : available[i] = available[j] => i = j
    /\ \A i \in DOMAIN available : available[i] \notin closed

\* While a goroutine waits, every free slot is matched by a goroutine already
\* woken for it: no signal is lost, however gets, puts, failed dials and
\* newcomers that overtake the woken ones interleave.
NoLostWakeup ==
    At("asleep") # {} => Cardinality(At("woken")) >= Max - outstanding

\* If the goroutines make finitely many requests, all of them are served.
EveryoneServed == <>[](\A g \in Client : pc[g] = "idle" /\ left[g] = 0)
=============================================================================
