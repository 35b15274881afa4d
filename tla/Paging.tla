------------------------------- MODULE Paging -------------------------------
(***************************************************************************)
(* A client of roshi-server that lists one key, or several keys coalesced, *)
(* page by page with cursors: handleSelect (roshi-server/main.go), the     *)
(* read strategies SendOneReadOne and SendAllReadAll                       *)
(* (farm/read_strategies.go), and below them SelectRange with its ladder   *)
(* of attempts (pipelineRangeByScore in cluster/cluster.go), while writes  *)
(* go on.                                                                  *)
(*                                                                         *)
(* The ladder's literals (10, 25, 100, 50 and 4 attempts) are constants,   *)
(* so that a small instance can climb it to the end.                       *)
(***************************************************************************)
EXTENDS Store

CONSTANTS Requests,     \* the sets of keys that clients list
          PageWrites,   \* the commands that may be written
          PageLimit,    \* limit of each request
          Stops,        \* the stop cursors clients use
          Few, FewNext, Many, Step, MaxAttempts,  \* the ladder
          MaxErrors     \* bound: number of failed connections

ASSUME PagingAssumption ==
    /\ Requests \subseteq SUBSET Key /\ PageWrites \subseteq Command
    /\ \A ks \in Requests : IsFiniteSet(ks)
    /\ Stops \subseteq Int \X Int
    /\ \E s \in Score : \A t \in Score : t <= s   \* float64 has a highest number
    /\ PageLimit \in Nat \ {0} /\ MaxAttempts \in Nat \ {0}
    /\ {Few, FewNext, Many, Step} \subseteq Nat
    /\ MaxErrors \in Nat

VARIABLES pager,    \* the client, with what it has been given so far
          pipe,     \* pipe[c][i]: the SelectRange pipeline to an instance
          stable,   \* history: elements on every cluster since the start
          errors    \* failed connections so far

pagingVars == <<pager, pipe, stable, errors>>

(***************************************************************************)
(* A cursor is a <<score, member>> pair, and so is the place of an element *)
(* in a listing: higher scores first, then members from z to a.            *)
(***************************************************************************)
Precedes(a, b) == \/ a[1] > b[1]
                  \/ a[1] = b[1] /\ a[2] > b[2]

Place(x) == <<x[2], x[3]>>

\* start when none is given: math.MaxFloat64.
Top == <<(CHOOSE s \in Score : \A t \in Score : t <= s) + 1, 0>>

\* Mutants: the member is not compared, or the cursor's own place is included.
PastStartByScore(x) == pager.start[1] > x[1]
PastStartInclusive(x) == ~Precedes(x, pager.start)

pastStart(x) == Precedes(pager.start, x)

\* Mutant: the stop cursor's own place is included.
BeforeStopInclusive(x) == ~Precedes(pager.stop, x)

beforeStop(x) == Precedes(x, pager.stop)
-----------------------------------------------------------------------------
(***************************************************************************)
(* pipelineRangeByScore on one instance.                                   *)
(***************************************************************************)
NoPages == [k \in {} |-> 0]

NoPipe == [state |-> "idle", todo |-> {}, retry |-> {}, pages |-> NoPages,
           limit |-> 0, attempt |-> 0]

\* ZREVRANGEBYSCORE start -inf LIMIT 0 n: the n highest elements whose score
\* is not above the cursor's.
Values(z, n) == ZTop([m \in {x \in DOMAIN z : z[x] <= pager.start[1]} |-> z[m]], n)

\* validated: what lies strictly between the cursors.
Validated(z) == [m \in {x \in DOMAIN z : pastStart(<<z[x], x>>) /\ beforeStop(<<z[x], x>>)}
                    |-> z[m]]

hitStop(z) == \E m \in DOMAIN z : pastStart(<<z[m], m>>) /\ ~beforeStop(<<z[m], m>>)

\* Mutant: a full answer is taken for the end of the set.
ConclusiveOffByOne(z, n) == \/ Cardinality(DOMAIN Validated(z)) >= PageLimit
                            \/ Cardinality(DOMAIN z) <= n
                            \/ hitStop(z)

\* Mutant: the end of the set does not count.
ConclusiveIfEnough(z, n) == Cardinality(DOMAIN Validated(z)) >= PageLimit \/ hitStop(z)

\* The answer z to a request for n elements decides the page: it has enough
\* of them, or the set is exhausted, or the stop cursor is reached.
Conclusive(z, n) == \/ Cardinality(DOMAIN Validated(z)) >= PageLimit
                    \/ Cardinality(DOMAIN z) < n
                    \/ hitStop(z)

\* selectLimit of the next attempt.
Grown(n) == CASE n < Few  -> FewNext
              [] n >= Few /\ n < Many -> 2 * n
              [] OTHER -> n + Step

\* Mutant: the keys to retry are not reset.
EndAttemptKeepsRetry(q) ==
    IF q.todo # {} THEN q
    ELSE IF q.retry = {} THEN [q EXCEPT !.state = "ok"]
    ELSE IF q.attempt = MaxAttempts THEN [q EXCEPT !.state = "exhausted"]
    ELSE [q EXCEPT !.todo = q.retry, !.attempt = @ + 1, !.limit = Grown(@)]

\* All answers of an attempt are in: done, once more, or out of attempts.
EndAttempt(q) ==
    IF q.todo # {} THEN q
    ELSE IF q.retry = {} THEN [q EXCEPT !.state = "ok"]
    ELSE IF q.attempt = MaxAttempts THEN [q EXCEPT !.state = "exhausted"]
    ELSE [q EXCEPT !.todo = q.retry, !.retry = {}, !.attempt = @ + 1, !.limit = Grown(@)]

\* The instance executes one ZREVRANGEBYSCORE of the pipeline.
RangeKey(c, i, k) ==
    LET q == pipe[c][i]
        z == Values(data[c][k]["ins"], q.limit)
        rest == [q EXCEPT !.todo = @ \ {k}]
        page == ZTop(Validated(z), PageLimit)
    IN  /\ k \in q.todo
        /\ pipe' = [pipe EXCEPT ![c][i] = EndAttempt(
             IF Conclusive(z, q.limit)
             THEN [rest EXCEPT !.pages = [x \in DOMAIN @ \cup {k} |-> IF x = k THEN page ELSE @[x]]]
             ELSE [rest EXCEPT !.retry = @ \cup {k}])]
        /\ UNCHANGED <<data, pager, stable, errors>>

\* The connection fails: an error element for every key of the pipeline.
RangeFail(c, i) ==
    /\ pipe[c][i].todo # {} /\ errors < MaxErrors
    /\ errors' = errors + 1
    /\ pipe' = [pipe EXCEPT ![c][i] = [@ EXCEPT !.state = "failed", !.todo = {}]]
    /\ UNCHANGED <<data, pager, stable>>
-----------------------------------------------------------------------------
(***************************************************************************)
(* The client and the read strategies.                                     *)
(***************************************************************************)
NoPager == [phase |-> "idle", one |-> FALSE, keys |-> {}, start |-> Top, stop |-> Top,
            asked |-> {}, given |-> {}, twice |-> {}, blind |-> FALSE]

\* A request for several keys is coalesced.
coalesce == Cardinality(pager.keys) > 1

PageStart ==
    /\ pager.phase = "idle"
    /\ \E one \in BOOLEAN, stop \in Stops :
         pager' = [pager EXCEPT !.phase = "next", !.one = one, !.stop = stop]
    /\ stable' = {x \in Held : x[1] \in pager.keys}
    /\ UNCHANGED <<data, pipe, errors>>

\* One request: SendOneReadOne asks a cluster at random, SendAllReadAll all.
PageAsk ==
    /\ pager.phase = "next"
    /\ \E cs \in {{c} : c \in Cluster} \cup {Cluster} :
         /\ IF pager.one THEN Cardinality(cs) = 1 ELSE cs = Cluster
         /\ pager' = [pager EXCEPT !.phase = "wait", !.asked = cs]
         /\ pipe' = [c \in Cluster |-> [i \in Instance |->
                       LET ks == {k \in pager.keys : c \in cs /\ Home[k] = i}
                       IN  IF ks = {} THEN NoPipe
                           ELSE [NoPipe EXCEPT !.state = "run", !.todo = ks,
                                   !.limit = PageLimit, !.attempt = 1]]]
    /\ UNCHANGED <<data, stable, errors>>

\* The clusters asked that answered for key k, and what they answered.
Answered(k) == {c \in pager.asked : pipe[c][Home[k]].state = "ok"}

\* unionDifference: every member found, with its best score.
Union ==
    {x \in pager.keys \X Score \X Member :
        LET scores == {pipe[c][Home[x[1]]].pages[x[1]][x[3]] :
                         c \in {d \in Answered(x[1]) :
                                  x[3] \in DOMAIN pipe[d][Home[x[1]]].pages[x[1]]}}
        IN  x[2] \in scores /\ \A t \in scores : t <= x[2]}

\* The choices of the first PageLimit elements of e that an order leaves.
Cuts(e, before(_, _)) ==
    {p \in SUBSET e : /\ Cardinality(p) <= PageLimit
                      /\ p # e => Cardinality(p) = PageLimit
                      /\ \A x \in p, y \in e \ p : ~before(y, x)}

\* keyScoreMembers.Less of farm.go compares scores only, that of roshi-server
\* members too.
LessInFarm(x, y) == x[2] > y[2]
LessInServer(x, y) == Precedes(Place(x), Place(y))

\* SendAllReadAll cuts the union of each key by score, SendOneReadOne passes
\* on what the cluster sent; flatten cuts again if the keys are coalesced.
Responses ==
    LET each == {p \in SUBSET Union : \A k \in pager.keys :
                   LET of(s) == {x \in s : x[1] = k}
                   IN  IF pager.one THEN of(p) = of(Union)
                       ELSE of(p) \in Cuts(of(Union), LessInFarm)}
    IN  IF coalesce THEN UNION {Cuts(p, LessInServer) : p \in each} ELSE each

\* The elements that may be last on page p: flatten and the cluster order by
\* score and member, SendAllReadAll by score.
Last(p) == LET before(x, y) == IF pager.one \/ coalesce THEN LessInServer(x, y)
                                                        ELSE LessInFarm(x, y)
           IN  {x \in p : \A y \in p : ~before(x, y)}

\* All elements are in.  The next request starts at the last element of the
\* page; an empty page ends the listing, also when it is empty because nobody
\* answered: only SendOneReadOne reports an error, and only if no key has an
\* answer.
PageDone ==
    /\ pager.phase = "wait"
    /\ \A c \in pager.asked, i \in Instance : pipe[c][i].state # "run"
    /\ LET none == {k \in pager.keys : Answered(k) = {}} IN
       IF pager.one /\ none = pager.keys
       THEN pager' = [pager EXCEPT !.phase = "error", !.asked = {}]
       ELSE \E p \in Responses :
              IF p = {}
              THEN pager' = [pager EXCEPT !.phase = "done", !.asked = {},
                               !.blind = @ \/ none # {}]
              ELSE \E x \in Last(p) :
                     pager' = [pager EXCEPT !.phase = "next", !.asked = {}, !.start = Place(x),
                                 !.given = @ \cup p, !.twice = @ \cup (pager.given \cap p),
                                 !.blind = @ \/ none # {}]
    /\ pipe' = [c \in Cluster |-> [i \in Instance |-> NoPipe]]
    /\ UNCHANGED <<data, stable, errors>>

\* What clients and repairs write before and meanwhile, to the keys listed.
PagingWrite ==
    /\ pager.phase \notin {"done", "error"}
    /\ \E w \in PageWrites : w[2] \in pager.keys /\ Write(w)
    /\ stable' = stable \cap Held'
    /\ UNCHANGED <<pager, pipe, errors>>
-----------------------------------------------------------------------------
PagingInit ==
    /\ pager \in {[NoPager EXCEPT !.keys = ks] : ks \in Requests}
    /\ pipe = [c \in Cluster |-> [i \in Instance |-> NoPipe]]
    /\ stable = {}
    /\ errors = 0

RangeStep == \E c \in Cluster, i \in Instance :
                RangeFail(c, i) \/ \E k \in Key : RangeKey(c, i, k)

PagingNext == PageStart \/ PageAsk \/ RangeStep \/ PageDone \/ PagingWrite
=============================================================================
