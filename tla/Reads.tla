-------------------------------- MODULE Reads --------------------------------
(***************************************************************************)
(* The clients that only read a farm's clusters: one that lists keys page  *)
(* by page (Paging) or a walker (Walk), while writes go on.  They share    *)
(* nothing but the sorted sets, which neither changes, so a behaviour has  *)
(* one of them.                                                            *)
(***************************************************************************)
EXTENDS Paging, Walk

CONSTANTS BeforePaging, BeforeWalk   \* what the clusters hold at the start

ASSUME ReadsAssumption ==
    \A w \in BeforePaging \cup BeforeWalk : w \in Command /\ w[3] = "ins"

VARIABLE role   \* which reader this behaviour has

vars == <<data, pagingVars, walkVars, role>>

Init == /\ PagingInit /\ WalkInit
        /\ \/ role = "pager" /\ data = Stored(BeforePaging)
           \/ role = "walker" /\ data = Stored(BeforeWalk)

Next == \/ role = "pager" /\ PagingNext /\ UNCHANGED <<walkVars, role>>
        \/ role = "walker" /\ WalkNext /\ UNCHANGED <<pagingVars, role>>

Spec == Init /\ [][Next]_vars

\* A goroutine that can go on does.
Fairness == /\ WF_vars(role = "walker" /\ KeysNext /\ UNCHANGED <<pagingVars, role>>)
            /\ WF_vars(role = "walker" /\ WalkOnce /\ UNCHANGED <<pagingVars, role>>)

FairSpec == Spec /\ Fairness
-----------------------------------------------------------------------------
(***************************************************************************)
(* Properties.                                                             *)
(***************************************************************************)
Element == Key \X Score \X Member

Cursor == Int \X Int

\* Every variable has its type (the shape of the Go values it stands for).
TypeOK ==
    /\ StoreTypeOK
    /\ pager.phase \in {"idle", "next", "wait", "done", "error"}
    /\ pager.keys \subseteq Key /\ pager.asked \subseteq Cluster
    /\ {pager.start, pager.stop} \subseteq Cursor
    /\ pager.given \subseteq Element /\ pager.twice \subseteq pager.given
    /\ {pager.one, pager.blind} \subseteq BOOLEAN
    /\ \A c \in Cluster, i \in Instance :
         LET q == pipe[c][i] IN
         /\ q.state \in {"idle", "run", "ok", "exhausted", "failed"}
         /\ q.state = "run" <=> q.todo # {}
         /\ q.todo \cap (q.retry \cup DOMAIN q.pages) = {}
         /\ q.retry \cap DOMAIN q.pages = {}
         /\ q.attempt \in 0..MaxAttempts
    /\ stable \subseteq Element
    /\ errors \in 0..MaxErrors
    /\ keys.phase \in {"idle", "next", "scan", "reply", "flush"}
    /\ keys.todo \cup keys.reply \subseteq Key \X Sides
    /\ Cardinality(keys.batch) <= BatchSize /\ Cardinality(hand) <= BatchSize
    /\ walk.phase \in {"idle", "walking"}
    /\ walk.batch = {} <=> walk.need = {}
    /\ steady \subseteq Cluster \X Key
    /\ outages \in 0..MaxOutages

\* x comes after the first cursor of the listing and before its stop cursor.
InRange(x) == Precedes(Top, Place(x)) /\ Precedes(Place(x), pager.stop)

\* Another element given has the score of x: SendAllReadAll orders such
\* elements at random, and a cursor taken from one of them may lie behind x.
Tied(x) == ~pager.one /\ \E y \in pager.given : y[2] = x[2] /\ Place(y) # Place(x)

\* Another key has the same member with the same score: one cursor stands for
\* both.
Doubled(x) == coalesce /\ \E y \in pager.given : Place(y) = Place(x) /\ y # x

\* The comment on cursors in pipelineRangeByScore (cluster.go:539-544): walking
\* down from a cursor collects what is past it.  Whatever is written meanwhile,
\* whichever cluster answers each page, and however many attempts it takes, an
\* element that all clusters hold throughout is not jumped over by the cursor;
\* except where the order of equal scores is lost on the way.
NothingSkipped ==
    \A x \in stable :
      InRange(x) /\ ~Precedes(pager.start, Place(x)) /\ ~pager.blind
        => x \in pager.given \/ Tied(x) \/ Doubled(x)

\* A listing that ends with an empty page has given every element that all
\* clusters hold throughout, unless on some page nobody answered for a key.
ListsEverything ==
    pager.phase = "done" /\ ~pager.blind =>
      \A x \in stable : InRange(x) => x \in pager.given \/ Tied(x) \/ Doubled(x)

\* An element is given twice only by SendAllReadAll, for a single key, and only
\* if it shares its score with another.
TwiceOnlyIfTied == \A x \in pager.twice : ~coalesce /\ Tied(x)

\* Pages are snapshots: whatever the attempt, the page an instance returns for a
\* key is the first PageLimit elements between the cursors of the set it holds
\* at one moment.
PageIsSnapshot ==
    [][\A c \in Cluster, i \in Instance :
         \A k \in DOMAIN pipe'[c][i].pages \ DOMAIN pipe[c][i].pages :
           LET z == data[c][k]["ins"]
               between == {m \in DOMAIN z : /\ Precedes(pager.start, <<z[m], m>>)
                                            /\ Precedes(<<z[m], m>>, pager.stop)}
               page == pipe'[c][i].pages[k]
           IN  /\ DOMAIN page \subseteq between
               /\ \A m \in DOMAIN page : page[m] = z[m]
               /\ \A m \in DOMAIN page, x \in between \ DOMAIN page :
                    Precedes(<<z[m], m>>, <<z[x], x>>)
               /\ \/ DOMAIN page = between
                  \/ Cardinality(DOMAIN page) = PageLimit]_vars

\* "An unlimited number of members may exist at cursor.Score" (cluster.go:539): a
\* key is asked for again, and in the end refused, only if more elements than
\* the attempt leaves room for stand at the cursor or before it with its score.
RefusedOnlyIfCrowded ==
    [][\A c \in Cluster, i \in Instance :
         \A k \in pipe[c][i].todo \ (pipe'[c][i].todo \cup DOMAIN pipe'[c][i].pages) :
           pipe'[c][i].state # "failed" =>
             LET z == data[c][k]["ins"] IN
             Cardinality({m \in DOMAIN z : z[m] = pager.start[1] /\ m >= pager.start[2]})
               > pipe[c][i].limit - PageLimit]_vars

\* A walk visits every key that some cluster holds throughout, in whatever order
\* clusters and instances are scanned, however SCAN cuts the keyspace, and
\* with outages on the way.
EveryKeyWalked == Ended => \A x \in steady : x[2] \in walk.walked

\* roshi-walker walks for ever: Keys, which sends while it holds a connection, and
\* the Selects, which need one to the same instance, never wait for each other,
\* if an instance that is down comes back.
WalksForever == role = "walker" => []<>(walk.phase = "idle")
=============================================================================
