-------------------------------- MODULE Farm --------------------------------
(***************************************************************************)
(* A Roshi farm: N clusters that never talk to each other, clients whose   *)
(* writes are scattered to all of them (farm/farm.go), readers that use    *)
(* the SendAllReadAll strategy (farm/read_strategies.go), and read repair  *)
(* (farm/repair_strategies.go), run inline by walkers (roshi-walker) and   *)
(* behind Nonblocking and RateLimited by servers (roshi-server).           *)
(*                                                                         *)
(* One key is modelled: the script and every command touch only the sets   *)
(* of their own key.  Commands reach a cluster over connections that may   *)
(* fail at any point: a command whose sender saw an error may have been    *)
(* executed, may be executed later, or never.  A cluster may lose its data *)
(* and come back empty.                                                    *)
(***************************************************************************)
EXTENDS LWWSet, Sequences

CONSTANTS N,            \* number of clusters
          Quorum,       \* writeQuorum of farm.New
          Writes,       \* the clients' calls of Farm.Insert and Farm.Delete
          WriteOp,      \* WriteOp[w]: its side and its sequence of tuples
          Walkers,      \* processes that read and repair inline
          Servers,      \* processes that read and queue their repairs
          Readers,      \* processes that read and use NoRepairs
          Limit,        \* limit of a Select
          Buffer,       \* bufferSize of Nonblocking
          Fragile,      \* clusters that may lose their data
          MaxFaults     \* bound: failed connections and lost clusters in a behaviour

Cluster == 1..N
Proc == Walkers \cup Servers \cup Readers

ASSUME FarmAssumption ==
    /\ N \in Nat \ {0} /\ Quorum \in 1..N
    /\ WriteOp \in [Writes -> [side : Sides, tuples : Seq(Score \X Member)]]
    /\ Fragile \subseteq Cluster
    /\ Limit \in Nat /\ Buffer \in Nat \ {0} /\ MaxFaults \in Nat
    /\ Walkers \cap Servers = {} /\ (Walkers \cup Servers) \cap Readers = {}

VARIABLES rep,      \* rep[c]: the two sorted sets of cluster c
          applied,  \* history: applied[c] is the set of commands executed by c
                    \* since it last came up empty
          wres,     \* wres[w]: what farm.write has told the client
          exec,     \* exec[w][c]: how many of w's tuples c has executed
          sts,      \* sts[w][c]: the outcome of w's goroutine for c
          reader,   \* reader[p]: the Select that p has under way
          queue,    \* queue[p]: the channel of Nonblocking
          job,      \* job[p]: the AllRepairs call that p has under way
          late,     \* repair commands whose sender gave up, still on the wire
          lost,     \* history: the clusters that have lost their data
          faults    \* failed connections and lost clusters so far

writeVars  == <<wres, exec, sts>>
repairVars == <<reader, queue, job>>
vars == <<rep, applied, writeVars, repairVars, late, lost, faults>>

\* A write command for one tuple, as a cluster receives it.
Cmd(side, s, m) == <<side, s, m>>

\* Cluster c executes the script for one tuple.
Execute(c, side, s, m) ==
    /\ rep' = [rep EXCEPT ![c] = Script(@, side, s, m)]
    /\ applied' = [applied EXCEPT ![c] = @ \cup {Cmd(side, s, m)}]

Fault == faults < MaxFaults /\ faults' = faults + 1
-----------------------------------------------------------------------------
(***************************************************************************)
(* Farm.write: scatter, gather, report.                                    *)
(***************************************************************************)
WriteStart(w) ==
    /\ wres[w] = "idle"
    /\ wres' = [wres EXCEPT ![w] = "run"]
    /\ UNCHANGED <<rep, applied, exec, sts, repairVars, late, faults>>

\* The pipeline of cluster.Insert or cluster.Delete: tuples in order, each
\* script atomic, other clients' commands in between.  The sender may have
\* given up already.
WriteExec(w, c) ==
    /\ wres[w] # "idle"
    /\ exec[w][c] < Len(WriteOp[w].tuples)
    /\ LET t == WriteOp[w].tuples[exec[w][c] + 1] IN Execute(c, WriteOp[w].side, t[1], t[2])
    /\ exec' = [exec EXCEPT ![w][c] = @ + 1]
    /\ UNCHANGED <<wres, sts, repairVars, late, faults>>

\* Mutant: one reply is read per pipeline.
WriteReplyFirst(w, c) ==
    /\ wres[w] # "idle" /\ sts[w][c] = "run"
    /\ exec[w][c] > 0
    /\ sts' = [sts EXCEPT ![w][c] = "ok"]
    /\ UNCHANGED <<rep, applied, wres, exec, repairVars, late, faults>>

WriteReply(w, c) ==
    /\ wres[w] # "idle" /\ sts[w][c] = "run"
    /\ exec[w][c] = Len(WriteOp[w].tuples)
    /\ sts' = [sts EXCEPT ![w][c] = "ok"]
    /\ UNCHANGED <<rep, applied, wres, exec, repairVars, late, faults>>

\* Dial, send or receive error: the commands already sent stay on the wire.
WriteFail(w, c) ==
    /\ wres[w] # "idle" /\ sts[w][c] = "run"
    /\ Fault
    /\ sts' = [sts EXCEPT ![w][c] = "err"]
    /\ UNCHANGED <<rep, applied, wres, exec, repairVars, late>>

Replied(w, outcome) == {c \in Cluster : sts[w][c] = outcome}

\* Mutant: errors count towards the quorum.
haveQuorumAnyReply(w) == Cardinality(Cluster \ Replied(w, "run")) >= Quorum

haveQuorum(w) == Cardinality(Replied(w, "ok")) >= Quorum

\* The gather loop breaks as soon as there is a quorum; the goroutines that
\* have not answered yet go on.
WriteReport(w) ==
    /\ wres[w] = "run"
    /\ \/ haveQuorum(w) /\ wres' = [wres EXCEPT ![w] = "ok"]
       \/ /\ ~haveQuorum(w) /\ Replied(w, "run") = {}
          /\ wres' = [wres EXCEPT ![w] = "err"]
    /\ UNCHANGED <<rep, applied, exec, sts, repairVars, late, faults>>
-----------------------------------------------------------------------------
(***************************************************************************)
(* SendAllReadAll: one ZREVRANGE per cluster, union, difference.           *)
(***************************************************************************)
\* reader.since is history: the writes acknowledged when the read began.
NoRead == [phase |-> "idle", wait |-> {}, resp |-> [c \in {} |-> 0], since |-> {}]

NoJob == [phase |-> "none", kms |-> {}, at |-> 0, left |-> {}, half |-> {},
          pres |-> [c \in Cluster |-> [m \in {} |-> 0]], plan |-> {}]

\* A walker waits for the repairs of its previous read, and only visits keys
\* that Keys emits: those with an inserts set on some cluster.
ReadStart(p) ==
    /\ reader[p].phase = "idle"
    /\ p \in Walkers => /\ job[p].phase = "none"
                        /\ \E c \in Cluster : DOMAIN rep[c]["ins"] # {}
    /\ reader' = [reader EXCEPT ![p] = [NoRead EXCEPT
                    !.phase = "read", !.wait = Cluster,
                    !.since = {w \in Writes : wres[w] = "ok"}]]
    /\ UNCHANGED <<rep, applied, writeVars, queue, job, late, faults>>

ReadElement(p, c) ==
    /\ c \in reader[p].wait
    /\ reader' = [reader EXCEPT
         ![p].wait = @ \ {c},
         ![p].resp = [x \in DOMAIN @ \cup {c} |->
                        IF x = c THEN ZTop(rep[c]["ins"], Limit) ELSE @[x]]]
    /\ UNCHANGED <<rep, applied, writeVars, queue, job, late, faults>>

\* An error element: dropped, and no cause for repair.
ReadError(p, c) ==
    /\ c \in reader[p].wait
    /\ Fault
    /\ reader' = [reader EXCEPT ![p].wait = @ \ {c}]
    /\ UNCHANGED <<rep, applied, writeVars, queue, job, late>>

\* unionDifference: every member with its best score, and the members on
\* which the responses disagree.
Union(resp) ==
    LET found == UNION {DOMAIN resp[c] : c \in DOMAIN resp}
        scores(m) == {resp[c][m] : c \in {d \in DOMAIN resp : m \in DOMAIN resp[d]}}
    IN  [m \in found |-> CHOOSE s \in scores(m) : \A t \in scores(m) : t <= s]

Difference(resp) ==
    {m \in UNION {DOMAIN resp[c] : c \in DOMAIN resp} :
        \E c, d \in DOMAIN resp :
            m \in DOMAIN resp[c] /\ (m \notin DOMAIN resp[d] \/ resp[d][m] # resp[c][m])}

StartJob(kms) == [NoJob EXCEPT !.phase = "score", !.kms = kms, !.at = 1, !.left = kms]

\* All responses are in.  A walker calls AllRepairs and waits for it; a server
\* offers the difference to the channel of Nonblocking, which drops it if full;
\* NoRepairs does nothing.
ReadDone(p) ==
    LET kms == Difference(reader[p].resp) IN
    /\ reader[p].phase = "read" /\ reader[p].wait = {}
    /\ reader' = [reader EXCEPT ![p] = NoRead]
    /\ \/ (kms = {} \/ p \in Readers) /\ UNCHANGED <<queue, job>>
       \/ /\ kms # {} /\ p \in Walkers
          /\ job' = [job EXCEPT ![p] = StartJob(kms)]
          /\ UNCHANGED queue
       \/ /\ kms # {} /\ p \in Servers
          /\ queue' = [queue EXCEPT ![p] = IF Len(@) < Buffer THEN Append(@, kms) ELSE @]
          /\ UNCHANGED job
    /\ UNCHANGED <<rep, applied, writeVars, late, faults>>
-----------------------------------------------------------------------------
(***************************************************************************)
(* Repair: Nonblocking's goroutine, RateLimited, AllRepairs.               *)
(***************************************************************************)
\* The goroutine takes the next request; RateLimited may discard it.
RepairTake(p) ==
    /\ queue[p] # <<>> /\ job[p].phase = "none"
    /\ queue' = [queue EXCEPT ![p] = Tail(@)]
    /\ \/ job' = [job EXCEPT ![p] = StartJob(Head(queue[p]))]
       \/ UNCHANGED job
    /\ UNCHANGED <<rep, applied, writeVars, reader, late, faults>>

\* The first walk of AllRepairs over a member's presences, in cluster order:
\* cluster i's presence is taken when its score is no lower than the highest
\* so far, which starts at 0.
Taken(pres, m, i) ==
    /\ m \in DOMAIN pres[i] /\ pres[i][m][2] >= 0
    /\ \A j \in 1..(i-1) : m \in DOMAIN pres[j] => pres[j][m][2] <= pres[i][m][2]

\* The presence taken last has the highest score.
Highest(pres, m, i) == Taken(pres, m, i) /\ \A j \in (i+1)..N : ~Taken(pres, m, j)

\* wasInserted: some presence taken on the way was in the inserts set.  It is
\* not reset when a higher score is found later.
wasInserted(pres, m) == \E i \in Cluster : Taken(pres, m, i) /\ pres[i][m][1] = "ins"

\* Mutant: a member of the right score in the wrong set is left alone.
NeedsWriteByScore(pres, c, side, s, m) == m \notin DOMAIN pres[c] \/ pres[c][m][2] < s

\* The second walk: cluster c needs a write if the member is absent there, has
\* a lower score, or is in the wrong set.
NeedsWrite(pres, c, side, s, m) ==
    \/ m \notin DOMAIN pres[c]
    \/ pres[c][m][2] < s
    \/ pres[c][m][1] # side

Plan(kms, pres) ==
    {k \in Cluster \X Sides \X Score \X kms :
        LET m == k[4] IN
        /\ k[2] = IF wasInserted(pres, m) THEN "ins" ELSE "del"
        /\ \E i \in Cluster : Highest(pres, m, i) /\ k[3] = pres[i][m][2]
        /\ NeedsWrite(pres, k[1], k[2], k[3], m)}

\* Mutant: one cluster too many.
NextClusterPastEnd(j) ==
    IF j.at <= N THEN [j EXCEPT !.at = @ + 1, !.left = j.kms, !.half = {}] ELSE NoJob

\* Move on to the next cluster, or to the writes when all are scored.
NextCluster(j) ==
    IF j.at < N
    THEN [j EXCEPT !.at = @ + 1, !.left = j.kms, !.half = {}]
    ELSE LET plan == Plan(j.kms, j.pres)
         IN  IF plan = {} THEN NoJob
             ELSE [NoJob EXCEPT !.phase = "write", !.plan = plan, !.pres = j.pres]

\* pipelineScore, first ZSCORE of a member: its score in the inserts set.
ScoreIns(p) ==
    /\ job[p].phase = "score" /\ job[p].half = {}
    /\ \E m \in job[p].left :
         job' = [job EXCEPT ![p].left = @ \ {m},
                   ![p].half = {<<m, {st \in Standing(rep[job[p].at], m) : st[1] = "ins"}>>}]
    /\ UNCHANGED <<rep, applied, writeVars, reader, queue, late, faults>>

\* Second ZSCORE: its score in the deletes set.  If both answered, the whole
\* response of this cluster is an error and every presence stays empty.
ScoreDel(p) ==
    /\ job[p].phase = "score"
    /\ \E h \in job[p].half :
         LET j == job[p]
             m == h[1]
             both == h[2] \cup {st \in Standing(rep[j.at], m) : st[1] = "del"}
             bad == Cardinality(both) = 2
             pres == IF bad THEN [x \in {} |-> 0]
                     ELSE [x \in DOMAIN j.pres[j.at] \cup {y \in {m} : both # {}} |->
                             IF x \in DOMAIN j.pres[j.at] THEN j.pres[j.at][x]
                             ELSE CHOOSE st \in both : TRUE]
             k == [j EXCEPT !.half = {}, !.pres[j.at] = pres]
         IN  job' = [job EXCEPT ![p] = IF bad \/ j.left = {} THEN NextCluster(k) ELSE k]
    /\ UNCHANGED <<rep, applied, writeVars, reader, queue, late, faults>>

\* The instance is unreachable: Score reports no error, only no presence.
ScoreFail(p) ==
    /\ job[p].phase = "score"
    /\ Fault
    /\ LET j == job[p] IN
         job' = [job EXCEPT ![p] = NextCluster([j EXCEPT !.pres[j.at] = [x \in {} |-> 0]])]
    /\ UNCHANGED <<rep, applied, writeVars, reader, queue, late>>

\* The writes ks are done; after the last one the job is over.
EndWrites(j, ks) == IF j.plan \subseteq ks THEN NoJob ELSE [j EXCEPT !.plan = @ \ ks]

\* All inserts are written before any delete.
Ready(j) == {k \in j.plan : k[2] = "ins" \/ \A x \in j.plan : x[2] = "del"}

RepairWrite(p) ==
    /\ job[p].phase = "write"
    /\ \E k \in Ready(job[p]) :
         /\ Execute(k[1], k[2], k[3], k[4])
         /\ job' = [job EXCEPT ![p] = EndWrites(@, {k})]
    /\ UNCHANGED <<writeVars, reader, queue, late, faults>>

\* A repair Insert or Delete to cluster c fails: its error is logged, its
\* commands are dropped or stay on the wire.
RepairFail(p) ==
    /\ job[p].phase = "write"
    /\ Fault
    /\ \E k \in Ready(job[p]) :
         LET same == {x \in job[p].plan : x[1] = k[1] /\ x[2] = k[2]}
         IN  /\ \E sent \in SUBSET same : late' = late \cup sent
             /\ job' = [job EXCEPT ![p] = EndWrites(@, same)]
    /\ UNCHANGED <<rep, applied, writeVars, reader, queue>>

\* Redis executes a command whose sender, of a repair's inserts or deletes, has
\* given up on its pipeline.
LateExec(k) ==
    /\ late' = late \ {k}
    /\ Execute(k[1], k[2], k[3], k[4])
    /\ UNCHANGED <<writeVars, repairVars, faults>>
-----------------------------------------------------------------------------
(***************************************************************************)
(* A lost cluster.                                                         *)
(***************************************************************************)
\* "If a Redis instance is permanently lost", it is replaced "with an empty
\* instance" (README.md).  Requests under way may fail with it (WriteFail,
\* ScoreFail, ...) or go on at the new one.
Lose(c) ==
    /\ c \in Fragile /\ Fault
    /\ rep' = [rep EXCEPT ![c] = EmptyReplica]
    /\ applied' = [applied EXCEPT ![c] = {}]
    /\ lost' = lost \cup {c}
    /\ UNCHANGED <<writeVars, repairVars, late>>
-----------------------------------------------------------------------------
Init ==
    /\ rep = [c \in Cluster |-> EmptyReplica]
    /\ applied = [c \in Cluster |-> {}]
    /\ wres = [w \in Writes |-> "idle"]
    /\ exec = [w \in Writes |-> [c \in Cluster |-> 0]]
    /\ sts = [w \in Writes |-> [c \in Cluster |-> "run"]]
    /\ reader = [p \in Proc |-> NoRead]
    /\ queue = [p \in Proc |-> <<>>]
    /\ job = [p \in Proc |-> NoJob]
    /\ late = {}
    /\ lost = {}
    /\ faults = 0

WriteNext(w) == \/ WriteStart(w)
                \/ WriteReport(w)
                \/ \E c \in Cluster : WriteExec(w, c) \/ WriteReply(w, c) \/ WriteFail(w, c)

\* The steps a reader takes unless something fails.
ReadStep(p) == ReadStart(p) \/ ReadDone(p) \/ \E c \in Cluster : ReadElement(p, c)

RepairStep(p) == RepairTake(p) \/ ScoreIns(p) \/ ScoreDel(p) \/ RepairWrite(p)

FailStep(p) == ScoreFail(p) \/ RepairFail(p) \/ \E c \in Cluster : ReadError(p, c)

Request == \/ \E w \in Writes : WriteNext(w)
           \/ \E p \in Proc : ReadStep(p) \/ RepairStep(p) \/ FailStep(p)
           \/ \E k \in late : LateExec(k)

Next == \/ Request /\ UNCHANGED lost
        \/ \E c \in Cluster : Lose(c)

Spec == Init /\ [][Next]_vars

\* roshi-walker walks for ever, and a goroutine that can run does.
Fairness == \A p \in Walkers : /\ WF_vars(ReadStep(p) /\ UNCHANGED lost)
                               /\ WF_vars(RepairStep(p) /\ UNCHANGED lost)

FairSpec == Spec /\ Fairness
-----------------------------------------------------------------------------
(***************************************************************************)
(* Properties.                                                             *)
(***************************************************************************)
Presences == UNION {[D -> Sides \X Score] : D \in SUBSET Member}

\* Every variable has its type (the shape of the Go values it stands for).
TypeOK ==
    /\ rep \in [Cluster -> Replica]
    /\ applied \in [Cluster -> SUBSET (Sides \X Score \X Member)]
    /\ wres \in [Writes -> {"idle", "run", "ok", "err"}]
    /\ DOMAIN exec = Writes
    /\ \A w \in Writes : exec[w] \in [Cluster -> 0..Len(WriteOp[w].tuples)]
    /\ sts \in [Writes -> [Cluster -> {"run", "ok", "err"}]]
    /\ reader \in [Proc -> [phase : {"idle", "read"}, wait : SUBSET Cluster,
                            resp : UNION {[D -> ZSet] : D \in SUBSET Cluster},
                            since : SUBSET Writes]]
    /\ queue \in [Proc -> Seq(SUBSET Member)]
    /\ job \in [Proc -> [phase : {"none", "score", "write"}, kms : SUBSET Member,
                         at : 0..N, left : SUBSET Member,
                         half : SUBSET (Member \X SUBSET (Sides \X Score)),
                         pres : [Cluster -> Presences],
                         plan : SUBSET (Cluster \X Sides \X Score \X Member)]]
    /\ late \subseteq Cluster \X Sides \X Score \X Member
    /\ lost \subseteq Fragile
    /\ faults \in 0..MaxFaults

\* The scores with which cluster c has executed a command for member m.
Seen(c, m) == {k[2] : k \in {x \in applied[c] : x[3] = m}}

\* While no set can overflow, a cluster's standing for a member is that of the
\* highest-scored command it has executed for it since it last came up empty,
\* whatever the order in which writes, repairs and late commands arrived: the
\* last writer wins.
LastWriterWins ==
    MaxSize >= Cardinality(Member) =>
      \A c \in Cluster, m \in Member :
        /\ Seen(c, m) = {} => Standing(rep[c], m) = {}
        /\ Seen(c, m) # {} =>
             \E k \in applied[c] :
               /\ k[3] = m /\ \A s \in Seen(c, m) : s <= k[2]
               /\ Standing(rep[c], m) = {<<k[1], k[2]>>}

\* The farm implements one last-writer-wins element set per cluster, while no
\* set can overflow (README.md, "CRDT").
LWW == INSTANCE LWWElementSet WITH
         Replicas <- Cluster, Elements <- Member, Stamps <- Score, log <- applied,
         state <- [c \in Cluster |-> [m \in Member |-> Standing(rep[c], m)]]

ImplementsLWW == LWW!LWWSpec

\* "Every possible finite set of (WriteOp + KeyScoreMember) operations resolves
\* to the same final state, regardless of the execution order"
\* (cluster/README.md): clusters that executed the same commands agree.
OrderIndependent ==
    \A c, d \in Cluster : applied[c] = applied[d] => rep[c] = rep[d]

\* "An element will always be in either the add or the remove set exclusively"
\* (README.md), also when the sets overflow and evict, and neither set is
\* ever larger than maxSize.
ExclusiveAndBounded ==
    \A c \in Cluster :
      /\ DOMAIN rep[c]["ins"] \cap DOMAIN rep[c]["del"] = {}
      /\ \A side \in Sides : Cardinality(DOMAIN rep[c][side]) <= MaxSize

\* A cluster never forgets a member nor lowers its score unless it loses all its
\* data, so a late, repeated or repaired write cannot undo a newer one (no set
\* can overflow).
NeverOlder ==
    [][MaxSize >= Cardinality(Member) =>
         \A c \in Cluster, m \in Member : ~Lose(c) =>
           \A old \in Standing(rep[c], m) :
             \E new \in Standing(rep'[c], m) : new[2] >= old[2]]_vars

\* A write reported as successful is, on a quorum of clusters, in place or
\* superseded by a newer one, or was until the cluster lost its data, whatever
\* goroutines, repairs and late commands do afterwards: it is gone only if the
\* whole quorum has been lost.
AckedWritesOnQuorum ==
    \A w \in Writes : wres[w] = "ok" =>
      \A i \in DOMAIN WriteOp[w].tuples :
        Cardinality({c \in Cluster :
                       c \in lost \/ \E st \in Standing(rep[c], WriteOp[w].tuples[i][2]) :
                                         st[2] >= WriteOp[w].tuples[i][1]}) >= Quorum

\* A SendAllReadAll that starts after an insert was acknowledged, and gets answers
\* from enough clusters that kept their data to meet its quorum, returns the member
\* with that score or a newer one, unless a command to delete it with such a score
\* exists.
ReadYourInserts ==
    \A p \in Proc :
      LET resp == reader[p].resp IN
      /\ reader[p].phase = "read" /\ reader[p].wait = {}
      /\ Cardinality(DOMAIN resp \ lost) + Quorum > N
      => \A w \in reader[p].since : WriteOp[w].side = "ins" =>
           \A i \in DOMAIN WriteOp[w].tuples :
             LET s == WriteOp[w].tuples[i][1]
                 m == WriteOp[w].tuples[i][2]
             IN  \/ m \in DOMAIN Union(resp) /\ Union(resp)[m] >= s
                 \/ \E c \in Cluster, t \in Score :
                      t >= s /\ <<"del", t, m>> \in applied[c]

\* While a cluster has executed only inserts, its inserts set holds the MaxSize
\* highest-ranked members by best score, in whatever order they came: what was
\* refused or evicted at capacity stays out, what should be in is in.
TopOfInserts ==
    \A c \in Cluster :
      (\A k \in applied[c] : k[1] = "ins") =>
        rep[c]["ins"] =
          ZTop([m \in {x \in Member : Seen(c, x) # {}} |->
                  CHOOSE s \in Seen(c, m) : \A t \in Seen(c, m) : t <= s], MaxSize)

\* Read repair follows the highest score: "it might detect that member B is in
\* the delete set on C2 and C3 with score 22, but only in the add set on C1
\* with score 20, and so would reissue a Delete(S, 22, B) to cluster C1"
\* (farm/README.md): what a repair writes, some cluster reported.
RepairsWhatWasReported ==
    \A p \in Proc : \A k \in job[p].plan :
      \E c \in Cluster : /\ k[4] \in DOMAIN job[p].pres[c]
                         /\ job[p].pres[c][k[4]] = <<k[2], k[3]>>

\* "In this way, Roshi becomes eventually consistent" (farm/README.md): once the
\* clients are done and no more clusters are lost, walking the key makes all
\* clusters agree on what reads return, those that came up empty too, and they
\* keep agreeing.
Agree == \A c, d \in Cluster : rep[c]["ins"] = rep[d]["ins"]

EventuallyConsistent == <>[]Agree
=============================================================================
