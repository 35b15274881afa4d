----------------------------- MODULE FarmProofs -----------------------------
(***************************************************************************)
(* Theorems about Farm: its types, what a sorted set holds, who wins, what *)
(* acknowledged writes, reads and repairs leave or find; for any number of *)
(* clusters, any clients' writes, any population of walkers, servers and   *)
(* readers, any number of faults, and whichever clusters lose their data.  *)
(*                                                                         *)
(* Only WriteExec, RepairWrite and LateExec change a replica, each by one  *)
(* application of the script, and Lose, which empties it.  What the script *)
(* is given comes from a client's call, from a repair plan or from a late  *)
(* command, so the type of every variable on the way to a plan belongs to  *)
(* the invariant, and JobOK with it: a job that is scoring is at one of    *)
(* the clusters.                                                           *)
(***************************************************************************)
EXTENDS Farm, LWWSetProofs, SequenceTheorems

Command == Cluster \X Sides \X Score \X Member

JobType == [phase : {"none", "score", "write"}, kms : SUBSET Member,
            at : 0..N, left : SUBSET Member,
            half : SUBSET (Member \X SUBSET (Sides \X Score)),
            pres : [Cluster -> Presences], plan : SUBSET Command]

ReaderType == [phase : {"idle", "read"}, wait : SUBSET Cluster,
               resp : UNION {[D -> ZSet] : D \in SUBSET Cluster},
               since : SUBSET Writes]

JobOK == \A p \in Proc : job[p].phase = "score" => job[p].at # 0

-----------------------------------------------------------------------------
(***************************************************************************)
(* Types of the operators.                                                 *)
(***************************************************************************)
LEMMA EmptyPresences == [x \in {} |-> 0] \in Presences
<1>1. [x \in {} |-> 0] \in [{} -> Sides \X Score]
  OBVIOUS
<1>2. QED
  BY <1>1 DEF Presences

LEMMA ClusterRange == N \in Nat \ {0} /\ Cluster = 1..N
  BY FarmAssumption DEF Cluster

LEMMA NoJobType == NoJob \in JobType
<1>1. [c \in Cluster |-> [m \in {} |-> 0]] \in [Cluster -> Presences]
  BY EmptyPresences
<1>2. QED
  BY <1>1, FarmAssumption DEF NoJob, JobType

LEMMA StartJobType ==
    ASSUME NEW kms \in SUBSET Member
    PROVE  /\ StartJob(kms) \in JobType
           /\ StartJob(kms).at = 1
<1>1. NoJob \in JobType /\ 1 \in 0..N
  BY NoJobType, FarmAssumption
<1>2. StartJob(kms) \in JobType
  BY <1>1 DEF StartJob, JobType
<1>3. \A j \in JobType : [j EXCEPT !.phase = "score", !.kms = kms, !.at = 1, !.left = kms].at = 1
  BY DEF JobType
<1>4. QED
  BY <1>1, <1>2, <1>3 DEF StartJob

LEMMA PlanType ==
    ASSUME NEW kms \in SUBSET Member, NEW pres
    PROVE  Plan(kms, pres) \subseteq Command
  BY DEF Plan, Command

LEMMA NextClusterType ==
    ASSUME NEW j \in JobType, j.at # 0, j.phase = "score"
    PROVE  /\ NextCluster(j) \in JobType
           /\ NextCluster(j).phase = "score" => NextCluster(j).at # 0
<1>1. CASE j.at < N
  <2>1. NextCluster(j) = [j EXCEPT !.at = @ + 1, !.left = j.kms, !.half = {}]
    BY <1>1 DEF NextCluster
  <2>2. j.at + 1 \in 0..N /\ j.at + 1 # 0 /\ j.kms \in SUBSET Member
    BY <1>1, FarmAssumption DEF JobType
  <2>3. QED
    BY <2>1, <2>2 DEF JobType
<1>2. CASE ~(j.at < N)
  <2>1. Plan(j.kms, j.pres) \subseteq Command
    BY PlanType DEF JobType
  <2>2. QED
    BY <1>2, <2>1, NoJobType DEF NextCluster, JobType, NoJob
<1>3. QED
  BY <1>1, <1>2

LEMMA EndWritesType ==
    ASSUME NEW j \in JobType, NEW ks
    PROVE  /\ EndWrites(j, ks) \in JobType
           /\ j.phase = "write" => EndWrites(j, ks).phase # "score"
<1>1. [j EXCEPT !.plan = j.plan \ ks] \in JobType
  BY DEF JobType
<1>2. [j EXCEPT !.plan = j.plan \ ks].phase = j.phase
  BY DEF JobType
<1>3. QED
  BY <1>1, <1>2, NoJobType DEF EndWrites, NoJob

\* A standing is a set of pairs of a side and a score.
LEMMA StandingType ==
    ASSUME NEW r \in Replica, NEW m
    PROVE  Standing(r, m) \subseteq Sides \X Score
<1>1. \A x \in Sides : r[x] \in ZSet
  BY DEF Replica
<1>2. \A x \in Sides : m \in DOMAIN r[x] => r[x][m] \in Score
  BY <1>1, ZSetFacts
<1>3. QED
  BY <1>2 DEF Standing

\* A presence more keeps the type.
LEMMA PresencesAdd ==
    ASSUME NEW f \in Presences, NEW m \in Member, NEW both \in SUBSET (Sides \X Score)
    PROVE  [x \in DOMAIN f \cup {y \in {m} : both # {}} |->
              IF x \in DOMAIN f THEN f[x] ELSE CHOOSE st \in both : TRUE] \in Presences
<1> DEFINE D == DOMAIN f \cup {y \in {m} : both # {}}
           g == [x \in D |-> IF x \in DOMAIN f THEN f[x] ELSE CHOOSE st \in both : TRUE]
<1>1. DOMAIN f \subseteq Member /\ \A x \in DOMAIN f : f[x] \in Sides \X Score
  BY DEF Presences
<1>2. D \subseteq Member
  BY <1>1
<1>3. \A x \in D : g[x] \in Sides \X Score
  <2>1. both # {} => (CHOOSE st \in both : TRUE) \in both
    OBVIOUS
  <2>2. QED
    BY <1>1, <2>1
<1>4. g \in [D -> Sides \X Score]
  BY <1>3
<1>5. QED
  BY <1>2, <1>4 DEF Presences
-----------------------------------------------------------------------------
(***************************************************************************)
(* Type correctness.                                                       *)
(***************************************************************************)
RepType == rep \in [Cluster -> Replica] /\ applied \in [Cluster -> SUBSET (Sides \X Score \X Member)]

WriteType == /\ wres \in [Writes -> {"idle", "run", "ok", "err"}]
             /\ DOMAIN exec = Writes
             /\ \A w \in Writes : exec[w] \in [Cluster -> 0..Len(WriteOp[w].tuples)]
             /\ sts \in [Writes -> [Cluster -> {"run", "ok", "err"}]]

RepairType == /\ reader \in [Proc -> ReaderType]
              /\ queue \in [Proc -> Seq(SUBSET Member)]
              /\ job \in [Proc -> JobType]

OtherType == late \subseteq Command /\ lost \subseteq Fragile /\ faults \in 0..MaxFaults

LEMMA TypeParts == /\ TypeOK <=> RepType /\ WriteType /\ RepairType /\ OtherType
                   /\ TypeOK' <=> RepType' /\ WriteType' /\ RepairType' /\ OtherType'
  BY DEF TypeOK, RepType, WriteType, RepairType, OtherType, ReaderType, JobType, Command

LEMMA ExecuteType ==
    ASSUME RepType, NEW c \in Cluster, NEW side \in Sides, NEW s \in Score, NEW m \in Member,
           Execute(c, side, s, m)
    PROVE  RepType'
<1>1. Script(rep[c], side, s, m) \in Replica
  BY ScriptType DEF RepType
<1>2. <<side, s, m>> \in Sides \X Score \X Member
  OBVIOUS
<1>3. QED
  BY <1>1, <1>2 DEF Execute, RepType, Cmd

LEMMA FaultType == ASSUME OtherType, Fault PROVE faults' \in 0..MaxFaults
  BY FarmAssumption DEF OtherType, Fault

\* What a client writes.
LEMMA WriteOpType ==
    ASSUME NEW w \in Writes
    PROVE  /\ WriteOp[w].side \in Sides /\ Len(WriteOp[w].tuples) \in Nat
           /\ \A i \in 1..Len(WriteOp[w].tuples) :
                WriteOp[w].tuples[i][1] \in Score /\ WriteOp[w].tuples[i][2] \in Member
<1>1. WriteOp[w].side \in Sides /\ WriteOp[w].tuples \in Seq(Score \X Member)
  BY FarmAssumption
<1>2. Len(WriteOp[w].tuples) \in Nat
  BY <1>1, LenProperties
<1>3. \A i \in 1..Len(WriteOp[w].tuples) : WriteOp[w].tuples[i] \in Score \X Member
  BY <1>1, ElementOfSeq
<1>4. QED
  BY <1>1, <1>2, <1>3

\* The steps of a write.
LEMMA WriteNextType ==
    ASSUME TypeOK, NEW w \in Writes, WriteNext(w), lost' = lost
    PROVE  TypeOK'
<1>0. RepType /\ WriteType /\ RepairType /\ OtherType
  BY TypeParts
<1>1. CASE WriteStart(w)
  <2>1. WriteType'
    BY <1>0, <1>1 DEF WriteStart, WriteType
  <2>2. RepType' /\ RepairType' /\ OtherType'
    BY <1>0, <1>1 DEF WriteStart, RepType, RepairType, OtherType, repairVars
  <2>3. QED
    BY <2>1, <2>2, TypeParts
<1>2. CASE WriteReport(w)
  <2>1. WriteType'
    BY <1>0, <1>2 DEF WriteReport, WriteType
  <2>2. RepType' /\ RepairType' /\ OtherType'
    BY <1>0, <1>2 DEF WriteReport, RepType, RepairType, OtherType, repairVars
  <2>3. QED
    BY <2>1, <2>2, TypeParts
<1>3. ASSUME NEW c \in Cluster, WriteExec(w, c) PROVE TypeOK'
  <2> DEFINE t == WriteOp[w].tuples[exec[w][c] + 1]
  <2>1. exec[w][c] \in 0..Len(WriteOp[w].tuples) /\ exec[w][c] + 1 \in 1..Len(WriteOp[w].tuples)
    BY <1>0, <1>3, WriteOpType DEF WriteExec, WriteType
  <2>2. WriteOp[w].side \in Sides /\ t[1] \in Score /\ t[2] \in Member
    BY <2>1, WriteOpType
  <2>3. Execute(c, WriteOp[w].side, t[1], t[2])
    BY <1>3 DEF WriteExec
  <2>4. RepType'
    BY <1>0, <2>2, <2>3, ExecuteType
  <2>5. WriteType'
    BY <1>0, <1>3, <2>1 DEF WriteExec, WriteType
  <2>6. RepairType' /\ OtherType'
    BY <1>0, <1>3 DEF WriteExec, RepairType, OtherType, repairVars
  <2>7. QED
    BY <2>4, <2>5, <2>6, TypeParts
<1>4. ASSUME NEW c \in Cluster, WriteReply(w, c) PROVE TypeOK'
  <2>1. WriteType'
    BY <1>0, <1>4 DEF WriteReply, WriteType
  <2>2. RepType' /\ RepairType' /\ OtherType'
    BY <1>0, <1>4 DEF WriteReply, RepType, RepairType, OtherType, repairVars
  <2>3. QED
    BY <2>1, <2>2, TypeParts
<1>5. ASSUME NEW c \in Cluster, WriteFail(w, c) PROVE TypeOK'
  <2>1. WriteType'
    BY <1>0, <1>5 DEF WriteFail, WriteType
  <2>2. OtherType'
    BY <1>0, <1>5, FaultType DEF WriteFail, OtherType
  <2>3. RepType' /\ RepairType'
    BY <1>0, <1>5 DEF WriteFail, RepType, RepairType, repairVars
  <2>4. QED
    BY <2>1, <2>2, <2>3, TypeParts
<1>6. QED
  BY <1>1, <1>2, <1>3, <1>4, <1>5 DEF WriteNext

-----------------------------------------------------------------------------
\* The sets that read repair computes.
LEMMA ResponseType ==
    ASSUME NEW resp, NEW D \in SUBSET Cluster, resp \in [D -> ZSet]
    PROVE  /\ Difference(resp) \subseteq Member
           /\ \A c \in Cluster, z \in ZSet :
                [x \in DOMAIN resp \cup {c} |-> IF x = c THEN z ELSE resp[x]] \in [D \cup {c} -> ZSet]
<1>1. \A c \in D : DOMAIN resp[c] \subseteq Member
  BY ZSetFacts
<1>2. QED
  BY <1>1 DEF Difference

LEMMA ReaderResp ==
    ASSUME NEW r \in ReaderType
    PROVE  \E D \in SUBSET Cluster : r.resp \in [D -> ZSet]
<1>1. r.resp \in UNION {[D -> ZSet] : D \in SUBSET Cluster}
  BY DEF ReaderType
<1>2. QED
  BY <1>1

\* One job is replaced by another.
LEMMA JobReplaced ==
    ASSUME job \in [Proc -> JobType], JobOK, NEW p \in Proc, NEW j \in JobType,
           j.phase = "score" => j.at # 0, job' = [job EXCEPT ![p] = j]
    PROVE  job' \in [Proc -> JobType] /\ JobOK'
<1>1. job' \in [Proc -> JobType]
  OBVIOUS
<1>2. \A q \in Proc : job'[q] = IF q = p THEN j ELSE job[q]
  OBVIOUS
<1>3. QED
  BY <1>1, <1>2 DEF JobOK

\* The steps of a read.
LEMMA ReadStepType ==
    ASSUME TypeOK, JobOK, NEW p \in Proc, ReadStep(p), lost' = lost
    PROVE  TypeOK' /\ JobOK'
<1>0. RepType /\ WriteType /\ RepairType /\ OtherType
  BY TypeParts
<1>n. NoRead \in ReaderType
  <2>1. [c \in {} |-> 0] \in [{} -> ZSet]
    OBVIOUS
  <2>2. QED
    BY <2>1 DEF NoRead, ReaderType
<1>1. CASE ReadStart(p)
  <2> DEFINE r == [NoRead EXCEPT !.phase = "read", !.wait = Cluster,
                                 !.since = {w \in Writes : wres[w] = "ok"}]
  <2>1. r \in ReaderType
    BY <1>n DEF ReaderType
  <2>2. RepairType' /\ JobOK'
    BY <1>0, <1>1, <2>1 DEF ReadStart, RepairType, JobOK
  <2>3. RepType' /\ WriteType' /\ OtherType'
    BY <1>0, <1>1 DEF ReadStart, RepType, WriteType, OtherType, writeVars
  <2>4. QED
    BY <2>2, <2>3, TypeParts
<1>2. ASSUME NEW c \in Cluster, ReadElement(p, c) PROVE TypeOK' /\ JobOK'
  <2> DEFINE z == ZTop(rep[c]["ins"], Limit)
             resp == [x \in DOMAIN reader[p].resp \cup {c} |->
                        IF x = c THEN z ELSE reader[p].resp[x]]
  <2>1. z \in ZSet
    BY <1>0, ZType DEF RepType, Replica, Sides
  <2>2. PICK D \in SUBSET Cluster : reader[p].resp \in [D -> ZSet]
    BY <1>0, ReaderResp DEF RepairType
  <2>3. resp \in UNION {[E -> ZSet] : E \in SUBSET Cluster}
    <3>1. resp \in [D \cup {c} -> ZSet]
      BY <2>1, <2>2, ResponseType
    <3>2. QED
      BY <3>1
  <2>4. [reader[p] EXCEPT !.wait = @ \ {c}, !.resp = resp] \in ReaderType
    BY <1>0, <2>3 DEF RepairType, ReaderType
  <2>5. reader' = [reader EXCEPT ![p] = [reader[p] EXCEPT !.wait = @ \ {c}, !.resp = resp]]
    BY <1>0, <1>2 DEF ReadElement, RepairType, ReaderType
  <2>6. RepairType' /\ JobOK'
    BY <1>0, <1>2, <2>4, <2>5 DEF ReadElement, RepairType, JobOK
  <2>7. RepType' /\ WriteType' /\ OtherType'
    BY <1>0, <1>2 DEF ReadElement, RepType, WriteType, OtherType, writeVars
  <2>8. QED
    BY <2>6, <2>7, TypeParts
<1>3. CASE ReadDone(p)
  <2> DEFINE kms == Difference(reader[p].resp)
  <2>1. kms \in SUBSET Member
    <3>1. PICK D \in SUBSET Cluster : reader[p].resp \in [D -> ZSet]
      BY <1>0, ReaderResp DEF RepairType
    <3>2. QED
      BY <3>1, ResponseType
  <2>2. reader' \in [Proc -> ReaderType]
    BY <1>0, <1>3, <1>n DEF ReadDone, RepairType
  <2>3. job' = job \/ job' = [job EXCEPT ![p] = StartJob(kms)]
    BY <1>3 DEF ReadDone
  <2>4. job' \in [Proc -> JobType] /\ JobOK'
    <3>1. CASE job' = job
      BY <1>0, <3>1 DEF RepairType, JobOK
    <3>2. CASE job' = [job EXCEPT ![p] = StartJob(kms)]
      <4>1. StartJob(kms) \in JobType /\ StartJob(kms).at # 0
        BY <2>1, StartJobType
      <4>2. QED
        BY <1>0, <3>2, <4>1, JobReplaced DEF RepairType
    <3>3. QED
      BY <2>3, <3>1, <3>2
  <2>5. queue[p] \in Seq(SUBSET Member) /\ Append(queue[p], kms) \in Seq(SUBSET Member)
    BY <1>0, <2>1, AppendProperties DEF RepairType
  <2>6. queue' \in [Proc -> Seq(SUBSET Member)]
    BY <1>0, <1>3, <2>5 DEF ReadDone, RepairType
  <2>7. RepType' /\ WriteType' /\ OtherType'
    BY <1>0, <1>3 DEF ReadDone, RepType, WriteType, OtherType, writeVars
  <2>8. QED
    BY <2>2, <2>4, <2>6, <2>7, TypeParts DEF RepairType
<1>4. QED
  BY <1>1, <1>2, <1>3 DEF ReadStep

\* The steps of a repair.
LEMMA RepairStepType ==
    ASSUME TypeOK, JobOK, NEW p \in Proc, RepairStep(p), lost' = lost
    PROVE  TypeOK' /\ JobOK'
<1>0. RepType /\ WriteType /\ RepairType /\ OtherType
  BY TypeParts
<1>j. job \in [Proc -> JobType] /\ job[p] \in JobType
  BY <1>0 DEF RepairType
<1>1. CASE RepairTake(p)
  <2>1. queue[p] \in Seq(SUBSET Member) /\ queue[p] # <<>>
    BY <1>0, <1>1 DEF RepairTake, RepairType
  <2>2. Head(queue[p]) \in SUBSET Member /\ Tail(queue[p]) \in Seq(SUBSET Member)
    BY <2>1, HeadTailProperties
  <2>3. queue' \in [Proc -> Seq(SUBSET Member)]
    BY <1>0, <1>1, <2>2 DEF RepairTake, RepairType
  <2>4. job' \in [Proc -> JobType] /\ JobOK'
    <3>1. CASE job' = job
      BY <1>j, <3>1 DEF JobOK
    <3>2. CASE job' = [job EXCEPT ![p] = StartJob(Head(queue[p]))]
      <4>1. StartJob(Head(queue[p])) \in JobType /\ StartJob(Head(queue[p])).at # 0
        BY <2>2, StartJobType
      <4>2. QED
        BY <1>j, <3>2, <4>1, JobReplaced
    <3>3. QED
      BY <1>1, <3>1, <3>2 DEF RepairTake
  <2>5. RepType' /\ WriteType' /\ OtherType' /\ reader' = reader
    BY <1>0, <1>1 DEF RepairTake, RepType, WriteType, OtherType, writeVars
  <2>6. QED
    BY <1>0, <2>3, <2>4, <2>5, TypeParts DEF RepairType
<1>2. CASE ScoreIns(p)
  <2>1. PICK m \in job[p].left :
          job' = [job EXCEPT ![p].left = @ \ {m},
                    ![p].half = {<<m, {st \in Standing(rep[job[p].at], m) : st[1] = "ins"}>>}]
    BY <1>2 DEF ScoreIns
  <2> DEFINE h == {<<m, {st \in Standing(rep[job[p].at], m) : st[1] = "ins"}>>}
             j == [job[p] EXCEPT !.left = job[p].left \ {m}, !.half = h]
  <2>2. m \in Member /\ job[p].at \in Cluster
    <3>1. job[p].at \in 0..N /\ job[p].at # 0
      BY <1>j, <1>2 DEF JobType, JobOK, ScoreIns
    <3>2. QED
      BY <1>j, <3>1, ClusterRange DEF JobType
  <2>3. h \in SUBSET (Member \X SUBSET (Sides \X Score))
    <3>1. Standing(rep[job[p].at], m) \subseteq Sides \X Score
      BY <1>0, <2>2, StandingType DEF RepType
    <3>2. QED
      BY <2>2, <3>1
  <2>4. j \in JobType /\ j.at = job[p].at
    BY <1>j, <2>3 DEF JobType
  <2>5. job' = [job EXCEPT ![p] = j]
    BY <1>j, <2>1 DEF JobType
  <2>6. job[p].at # 0
    BY <1>2 DEF ScoreIns, JobOK
  <2>7. job' \in [Proc -> JobType] /\ JobOK'
    BY <1>j, <2>4, <2>5, <2>6, JobReplaced
  <2>8. RepType' /\ WriteType' /\ OtherType' /\ reader' = reader /\ queue' = queue
    BY <1>0, <1>2 DEF ScoreIns, RepType, WriteType, OtherType, writeVars
  <2>9. QED
    BY <1>0, <2>7, <2>8, TypeParts DEF RepairType
<1>3. CASE ScoreDel(p)
  <2>1. PICK h \in job[p].half :
          LET j == job[p]
              m == h[1]
              both == h[2] \cup {st \in Standing(rep[j.at], m) : st[1] = "del"}
              bad == Cardinality(both) = 2
              pres == IF bad THEN [x \in {} |-> 0]
                      ELSE [x \in DOMAIN j.pres[j.at] \cup {y \in {m} : both # {}} |->
                              IF x \in DOMAIN j.pres[j.at] THEN j.pres[j.at][x]
                              ELSE CHOOSE st \in both : TRUE]
              k == [j EXCEPT !.half = {}, !.pres[j.at] = pres]
          IN  job' = [job EXCEPT ![p] = IF bad \/ j.left = {} THEN NextCluster(k) ELSE k]
    BY <1>3 DEF ScoreDel
  <2> DEFINE j == job[p]
             m == h[1]
             both == h[2] \cup {st \in Standing(rep[j.at], m) : st[1] = "del"}
             bad == Cardinality(both) = 2
             pres == IF bad THEN [x \in {} |-> 0]
                     ELSE [x \in DOMAIN j.pres[j.at] \cup {y \in {m} : both # {}} |->
                             IF x \in DOMAIN j.pres[j.at] THEN j.pres[j.at][x]
                             ELSE CHOOSE st \in both : TRUE]
             k == [j EXCEPT !.half = {}, !.pres[j.at] = pres]
             i == IF bad \/ j.left = {} THEN NextCluster(k) ELSE k
  <2>2. j.at # 0 /\ j.phase = "score" /\ j.at \in Cluster
    <3>1. j.phase = "score"
      BY <1>3 DEF ScoreDel
    <3>2. QED
      BY <1>j, <3>1, FarmAssumption DEF JobOK, JobType, Cluster
  <2>3. m \in Member /\ h[2] \in SUBSET (Sides \X Score)
    BY <1>j DEF JobType
  <2>4. both \in SUBSET (Sides \X Score)
    <3>1. Standing(rep[j.at], m) \subseteq Sides \X Score
      BY <1>0, <2>2, StandingType DEF RepType
    <3>2. QED
      BY <2>3, <3>1
  <2>5. j.pres[j.at] \in Presences
    BY <1>j, <2>2 DEF JobType
  <2>6. pres \in Presences
    BY <2>3, <2>4, <2>5, EmptyPresences, PresencesAdd, ZenonT(40)
  <2>7. k \in JobType /\ k.at # 0 /\ k.phase = "score"
    <3> HIDE DEF pres
    <3>1. QED
      BY <1>j, <2>2, <2>6 DEF JobType
  <2>8. i \in JobType /\ (i.phase = "score" => i.at # 0)
    <3> HIDE DEF k
    <3>1. QED
      BY <2>7, NextClusterType
  <2>9. job' = [job EXCEPT ![p] = i]
    BY <2>1
  <2>10. job' \in [Proc -> JobType] /\ JobOK'
    <3> HIDE DEF i
    <3>1. QED
      BY <1>j, <2>8, <2>9, JobReplaced
  <2>11. RepType' /\ WriteType' /\ OtherType' /\ reader' = reader /\ queue' = queue
    BY <1>0, <1>3 DEF ScoreDel, RepType, WriteType, OtherType, writeVars
  <2>12. QED
    BY <1>0, <2>10, <2>11, TypeParts DEF RepairType
<1>4. CASE RepairWrite(p)
  <2>1. PICK k \in Ready(job[p]) :
          /\ Execute(k[1], k[2], k[3], k[4])
          /\ job' = [job EXCEPT ![p] = EndWrites(@, {k})]
    BY <1>4 DEF RepairWrite
  <2>2. k \in Command
    BY <1>j DEF Ready, JobType
  <2>3. RepType'
    BY <1>0, <2>1, <2>2, ExecuteType DEF Command
  <2>4. job[p].phase = "write"
    BY <1>4 DEF RepairWrite
  <2>5. job' = [job EXCEPT ![p] = EndWrites(job[p], {k})]
    BY <2>1
  <2>6. job' \in [Proc -> JobType] /\ JobOK'
    <3>1. EndWrites(job[p], {k}) \in JobType /\ EndWrites(job[p], {k}).phase # "score"
      BY <1>j, <2>4, EndWritesType
    <3>2. QED
      BY <1>j, <2>5, <3>1, JobReplaced
  <2>7. WriteType' /\ OtherType' /\ reader' = reader /\ queue' = queue
    BY <1>0, <1>4 DEF RepairWrite, WriteType, OtherType, writeVars
  <2>8. QED
    BY <1>0, <2>3, <2>6, <2>7, TypeParts DEF RepairType
<1>5. QED
  BY <1>1, <1>2, <1>3, <1>4 DEF RepairStep

\* The steps that fail.
LEMMA FailStepType ==
    ASSUME TypeOK, JobOK, NEW p \in Proc, FailStep(p), lost' = lost
    PROVE  TypeOK' /\ JobOK'
<1>0. RepType /\ WriteType /\ RepairType /\ OtherType
  BY TypeParts
<1>j. job \in [Proc -> JobType] /\ job[p] \in JobType
  BY <1>0 DEF RepairType
<1>1. CASE ScoreFail(p)
  <2> DEFINE j == job[p]
             k == [j EXCEPT !.pres[j.at] = [x \in {} |-> 0]]
  <2>1. j.at # 0 /\ j.phase = "score"
    BY <1>1 DEF ScoreFail, JobOK
  <2>2. k \in JobType /\ k.at # 0 /\ k.phase = "score"
    BY <1>j, <2>1, EmptyPresences DEF JobType
  <2>3. job' = [job EXCEPT ![p] = NextCluster(k)]
    BY <1>1 DEF ScoreFail
  <2>4. job' \in [Proc -> JobType] /\ JobOK'
    <3> HIDE DEF k
    <3>1. QED
      BY <1>j, <2>2, <2>3, NextClusterType, JobReplaced
  <2>5. OtherType'
    BY <1>0, <1>1, FaultType DEF ScoreFail, OtherType
  <2>6. RepType' /\ WriteType' /\ reader' = reader /\ queue' = queue
    BY <1>0, <1>1 DEF ScoreFail, RepType, WriteType, writeVars
  <2>7. QED
    BY <1>0, <2>4, <2>5, <2>6, TypeParts DEF RepairType
<1>2. CASE RepairFail(p)
  <2>1. PICK k \in Ready(job[p]) :
          LET same == {x \in job[p].plan : x[1] = k[1] /\ x[2] = k[2]}
          IN  /\ \E sent \in SUBSET same : late' = late \cup sent
              /\ job' = [job EXCEPT ![p] = EndWrites(@, same)]
    BY <1>2 DEF RepairFail
  <2> DEFINE same == {x \in job[p].plan : x[1] = k[1] /\ x[2] = k[2]}
  <2>2. same \subseteq Command
    BY <1>j DEF JobType
  <2>3. OtherType'
    BY <1>0, <1>2, <2>1, <2>2, FaultType DEF RepairFail, OtherType
  <2>4. job[p].phase = "write"
    BY <1>2 DEF RepairFail
  <2>5. job' = [job EXCEPT ![p] = EndWrites(job[p], same)]
    BY <2>1
  <2>6. job' \in [Proc -> JobType] /\ JobOK'
    <3>1. EndWrites(job[p], same) \in JobType /\ EndWrites(job[p], same).phase # "score"
      BY <1>j, <2>4, EndWritesType
    <3>2. QED
      BY <1>j, <2>5, <3>1, JobReplaced
  <2>7. RepType' /\ WriteType' /\ reader' = reader /\ queue' = queue
    BY <1>0, <1>2 DEF RepairFail, RepType, WriteType, writeVars
  <2>8. QED
    BY <1>0, <2>3, <2>6, <2>7, TypeParts DEF RepairType
<1>3. ASSUME NEW c \in Cluster, ReadError(p, c) PROVE TypeOK' /\ JobOK'
  <2>1. reader[p] \in ReaderType
    BY <1>0 DEF RepairType
  <2>2. [reader[p] EXCEPT !.wait = reader[p].wait \ {c}] \in ReaderType
    BY <2>1 DEF ReaderType
  <2>3. reader' = [reader EXCEPT ![p] = [reader[p] EXCEPT !.wait = reader[p].wait \ {c}]]
    BY <1>3 DEF ReadError
  <2>4. RepairType' /\ JobOK'
    BY <1>0, <1>3, <2>2, <2>3 DEF ReadError, RepairType, JobOK
  <2>5. OtherType'
    BY <1>0, <1>3, FaultType DEF ReadError, OtherType
  <2>6. RepType' /\ WriteType'
    BY <1>0, <1>3 DEF ReadError, RepType, WriteType, writeVars
  <2>7. QED
    BY <2>4, <2>5, <2>6, TypeParts
<1>4. QED
  BY <1>1, <1>2, <1>3 DEF FailStep

LEMMA EmptyReplicaType == EmptyReplica \in Replica
<1>1. [m \in {} |-> 0] \in ZSet
  BY DEF ZSet
<1>2. QED
  BY <1>1 DEF EmptyReplica, Replica

LEMMA InitType == Init => TypeOK /\ JobOK
<1> SUFFICES ASSUME Init PROVE TypeOK /\ JobOK
  OBVIOUS
<1>1. EmptyReplica \in Replica
  BY EmptyReplicaType
<1>2. RepType
  BY <1>1 DEF Init, RepType
<1>3. WriteType
  BY WriteOpType DEF Init, WriteType
<1>4. NoRead \in ReaderType
  <2>1. [c \in {} |-> 0] \in [{} -> ZSet]
    OBVIOUS
  <2>2. QED
    BY <2>1 DEF NoRead, ReaderType
<1>5. RepairType
  <2>1. <<>> \in Seq(SUBSET Member)
    BY EmptySeq
  <2>2. QED
    BY <1>4, <2>1, NoJobType DEF Init, RepairType
<1>6. OtherType
  BY FarmAssumption DEF Init, OtherType
<1>7. JobOK
  BY DEF Init, JobOK, NoJob
<1>8. QED
  BY <1>2, <1>3, <1>5, <1>6, <1>7, TypeParts

LEMMA LoseType ==
    ASSUME TypeOK, JobOK, NEW c \in Cluster, Lose(c)
    PROVE  TypeOK' /\ JobOK'
<1>0. RepType /\ WriteType /\ RepairType /\ OtherType
  BY TypeParts
<1>1. EmptyReplica \in Replica
  BY EmptyReplicaType
<1>2. RepType'
  BY <1>0, <1>1 DEF Lose, RepType
<1>3. WriteType' /\ RepairType' /\ JobOK'
  BY <1>0 DEF Lose, WriteType, RepairType, JobOK, writeVars, repairVars
<1>4. OtherType'
  BY <1>0, FaultType DEF Lose, OtherType
<1>5. QED
  BY <1>2, <1>3, <1>4, TypeParts

LEMMA NextType == TypeOK /\ JobOK /\ [Next]_vars => TypeOK' /\ JobOK'
<1> SUFFICES ASSUME TypeOK, JobOK, [Next]_vars PROVE TypeOK' /\ JobOK'
  OBVIOUS
<1>0. RepType /\ WriteType /\ RepairType /\ OtherType
  BY TypeParts
<1>1. ASSUME NEW w \in Writes, WriteNext(w), lost' = lost PROVE TypeOK' /\ JobOK'
  <2>1. job' = job
    BY <1>1 DEF WriteNext, WriteStart, WriteReport, WriteExec, WriteReply, WriteFail, repairVars
  <2>2. QED
    BY <1>1, <2>1, WriteNextType DEF JobOK
<1>2. ASSUME NEW p \in Proc, ReadStep(p) \/ RepairStep(p) \/ FailStep(p), lost' = lost
      PROVE  TypeOK' /\ JobOK'
  BY <1>2, ReadStepType, RepairStepType, FailStepType
<1>3. ASSUME NEW k \in late, LateExec(k), lost' = lost PROVE TypeOK' /\ JobOK'
  <2>1. k \in Command /\ Execute(k[1], k[2], k[3], k[4])
    BY <1>0, <1>3 DEF LateExec, OtherType
  <2>2. RepType'
    BY <1>0, <2>1, ExecuteType DEF Command
  <2>3. WriteType' /\ RepairType' /\ OtherType' /\ JobOK'
    BY <1>0, <1>3 DEF LateExec, WriteType, RepairType, OtherType, JobOK, writeVars, repairVars
  <2>4. QED
    BY <2>2, <2>3, TypeParts
<1>4. CASE UNCHANGED vars
  <2>1. RepType' /\ WriteType' /\ RepairType' /\ OtherType' /\ JobOK'
    BY <1>0, <1>4 DEF vars, writeVars, repairVars, RepType, WriteType, RepairType, OtherType, JobOK
  <2>2. QED
    BY <2>1, TypeParts
<1>5. ASSUME NEW c \in Cluster, Lose(c) PROVE TypeOK' /\ JobOK'
  BY <1>5, LoseType
<1>6. QED
  BY <1>1, <1>2, <1>3, <1>4, <1>5 DEF Next, Request

\* The farm's variables always have their types, and a scoring job is at a cluster.
THEOREM TypeCorrect == Spec => []TypeOK
<1>1. Init => TypeOK /\ JobOK
  BY InitType
<1>2. (TypeOK /\ JobOK) /\ [Next]_vars => (TypeOK /\ JobOK)'
  BY NextType
<1>3. QED
  BY <1>1, <1>2, PTL DEF Spec
-----------------------------------------------------------------------------
(***************************************************************************)
(* What a step does to the replicas: nothing, one command on one of them,  *)
(* whoever sent it, or the loss of one.                                    *)
(***************************************************************************)
LEMMA StepExecutes ==
    ASSUME TypeOK, [Next]_vars
    PROVE  \/ rep' = rep /\ applied' = applied
           \/ \E c \in Cluster, side \in Sides, s \in Score, m \in Member : Execute(c, side, s, m)
           \/ \E c \in Cluster : Lose(c)
<1>0. RepType /\ WriteType /\ RepairType /\ OtherType
  BY TypeParts
<1>1. ASSUME NEW w \in Writes, NEW c \in Cluster, WriteExec(w, c)
      PROVE  \E side \in Sides, s \in Score, m \in Member : Execute(c, side, s, m)
  <2> DEFINE t == WriteOp[w].tuples[exec[w][c] + 1]
  <2>1. exec[w][c] + 1 \in 1..Len(WriteOp[w].tuples)
    BY <1>0, <1>1, WriteOpType DEF WriteExec, WriteType
  <2>2. WriteOp[w].side \in Sides /\ t[1] \in Score /\ t[2] \in Member
    BY <2>1, WriteOpType
  <2>3. Execute(c, WriteOp[w].side, t[1], t[2])
    BY <1>1 DEF WriteExec
  <2>4. QED
    BY <2>2, <2>3
<1>2. ASSUME NEW k \in Command, Execute(k[1], k[2], k[3], k[4])
      PROVE  \E c \in Cluster, side \in Sides, s \in Score, m \in Member : Execute(c, side, s, m)
  BY <1>2 DEF Command
<1>3. ASSUME NEW p \in Proc, RepairWrite(p)
      PROVE  \E k \in Command : Execute(k[1], k[2], k[3], k[4])
  <2>1. job[p] \in JobType
    BY <1>0 DEF RepairType
  <2>2. Ready(job[p]) \subseteq Command
    BY <2>1 DEF Ready, JobType
  <2>3. QED
    BY <1>3, <2>2 DEF RepairWrite
<1>4. ASSUME NEW k \in late, LateExec(k) PROVE k \in Command /\ Execute(k[1], k[2], k[3], k[4])
  BY <1>0, <1>4 DEF LateExec, OtherType
<1>5. ASSUME NEW w \in Writes, WriteNext(w)
      PROVE  \/ rep' = rep /\ applied' = applied
             \/ \E c \in Cluster : WriteExec(w, c)
  BY <1>5 DEF WriteNext, WriteStart, WriteReport, WriteReply, WriteFail
<1>6. ASSUME NEW p \in Proc, ReadStep(p) \/ RepairStep(p) \/ FailStep(p)
      PROVE  \/ rep' = rep /\ applied' = applied
             \/ RepairWrite(p)
  BY <1>6 DEF ReadStep, ReadStart, ReadDone, ReadElement, RepairStep, RepairTake, ScoreIns,
              ScoreDel, FailStep, ScoreFail, RepairFail, ReadError
<1>7. CASE UNCHANGED vars
  BY <1>7 DEF vars
<1>8. QED
  BY <1>1, <1>2, <1>3, <1>4, <1>5, <1>6, <1>7 DEF Next, Request

\* A lost cluster knows nothing, the others what they knew.
LEMMA LoseEmpties ==
    ASSUME RepType, NEW c \in Cluster, Lose(c), NEW d \in Cluster
    PROVE  /\ d # c => rep'[d] = rep[d] /\ applied'[d] = applied[d]
           /\ d = c => rep'[d] = EmptyReplica /\ applied'[d] = {}
  BY DEF Lose, RepType

LEMMA EmptyStanding ==
    /\ \A side \in Sides : DOMAIN EmptyReplica[side] = {}
    /\ \A m : Standing(EmptyReplica, m) = {}
  BY DEF EmptyReplica, Standing
-----------------------------------------------------------------------------
(***************************************************************************)
(* Exclusiveness and boundedness.                                          *)
(***************************************************************************)
LEMMA ExclusiveStep ==
    TypeOK /\ ExclusiveAndBounded /\ [Next]_vars => ExclusiveAndBounded'
<1> SUFFICES ASSUME TypeOK, ExclusiveAndBounded, [Next]_vars PROVE ExclusiveAndBounded'
  OBVIOUS
<1>0. RepType
  BY TypeParts
<1>1. CASE rep' = rep
  BY <1>1 DEF ExclusiveAndBounded
<1>2. ASSUME NEW c \in Cluster, NEW side \in Sides, NEW s \in Score, NEW m \in Member,
             Execute(c, side, s, m)
      PROVE  ExclusiveAndBounded'
  <2> DEFINE r == rep[c]
             q == Script(r, side, s, m)
  <2>1. r \in Replica /\ DOMAIN r["ins"] \cap DOMAIN r["del"] = {}
        /\ \A x \in Sides : Cardinality(DOMAIN r[x]) <= MaxSize
    BY <1>0 DEF RepType, ExclusiveAndBounded
  <2>2. DOMAIN q["ins"] \cap DOMAIN q["del"] = {}
    BY <2>1, ScriptExclusive
  <2>3. \A x \in Sides : Cardinality(DOMAIN q[x]) <= MaxSize
    BY <2>1, ScriptBounded
  <2>4. rep' = [rep EXCEPT ![c] = q]
    BY <1>2 DEF Execute
  <2>5. \A d \in Cluster : rep'[d] = IF d = c THEN q ELSE rep[d]
    BY <1>0, <2>4 DEF RepType
  <2> HIDE DEF q
  <2>6. QED
    BY <2>2, <2>3, <2>5 DEF ExclusiveAndBounded
<1>3. ASSUME NEW c \in Cluster, Lose(c) PROVE ExclusiveAndBounded'
  <2>1. \A d \in Cluster : rep'[d] = IF d = c THEN EmptyReplica ELSE rep[d]
    BY <1>0, <1>3, LoseEmpties
  <2>2. DOMAIN EmptyReplica["ins"] = {} /\ \A x \in Sides : Cardinality(DOMAIN EmptyReplica[x]) <= MaxSize
    BY EmptyStanding, FS_EmptySet, LWWSetAssumption DEF Sides
  <2>3. QED
    BY <2>1, <2>2 DEF ExclusiveAndBounded
<1>4. QED
  BY <1>1, <1>2, <1>3, StepExecutes

\* On every cluster an element is in the add set or in the remove set, never in
\* both, and neither set is larger than maxSize, whatever clients, repairs and
\* late commands do.
THEOREM ExclusiveCorrect == Spec => []ExclusiveAndBounded
<1>1. Init => TypeOK /\ JobOK /\ ExclusiveAndBounded
  <2>1. ASSUME Init PROVE ExclusiveAndBounded
    <3>1. \A c \in Cluster, side \in Sides : DOMAIN rep[c][side] = {}
      BY <2>1 DEF Init, EmptyReplica
    <3>2. QED
      BY <3>1, FS_EmptySet, LWWSetAssumption DEF ExclusiveAndBounded, Sides
  <2>2. QED
    BY <2>1, InitType
<1>2. (TypeOK /\ JobOK /\ ExclusiveAndBounded) /\ [Next]_vars
        => (TypeOK /\ JobOK /\ ExclusiveAndBounded)'
  BY NextType, ExclusiveStep
<1>3. QED
  BY <1>1, <1>2, PTL DEF Spec
-----------------------------------------------------------------------------
(***************************************************************************)
(* The last writer wins, while no set can overflow.                        *)
(***************************************************************************)
\* The order of scores.
LEMMA IntOrder ==
    ASSUME NEW a \in Int, NEW b \in Int
    PROVE  /\ ~(a < b) <=> b <= a
           /\ \A c \in Int : c <= b /\ b <= a => c <= a
           /\ a < b => a <= b
           /\ a <= a
  OBVIOUS

\* What a cluster knows of a member, against a new command for it.
LEMMA StaleByStanding ==
    ASSUME NEW r \in Replica, NEW s \in Score, NEW m
    PROVE  Stale(r, s, m) <=> \E st \in Standing(r, m) : s < st[2]
<1>1. ASSUME Stale(r, s, m) PROVE \E st \in Standing(r, m) : s < st[2]
  <2>1. PICK side \in Sides : m \in DOMAIN r[side] /\ s < r[side][m]
    BY <1>1 DEF Stale
  <2>2. <<side, r[side][m]>> \in Standing(r, m)
    BY <2>1 DEF Standing
  <2>3. <<side, r[side][m]>>[2] = r[side][m]
    OBVIOUS
  <2>4. QED
    BY <2>1, <2>2, <2>3
<1>2. ASSUME NEW st \in Standing(r, m), s < st[2] PROVE Stale(r, s, m)
  <2>1. PICK side \in Sides : m \in DOMAIN r[side] /\ st = <<side, r[side][m]>>
    BY DEF Standing
  <2>2. st[2] = r[side][m]
    BY <2>1
  <2>3. QED
    BY <1>2, <2>1, <2>2 DEF Stale
<1>3. QED
  BY <1>1, <1>2

\* Command k is the highest for member m of those with scores seen, and st is the
\* standing it gives.
IsTop(k, seen, st, m) ==
    k[3] = m /\ (\A s \in seen : s <= k[2]) /\ st = {<<k[1], k[2]>>}

ScoresOf(cmds, m) == {k[2] : k \in {x \in cmds : x[3] = m}}

\* One cluster and one member of LastWriterWins.
Wins(r, cmds, m) ==
    /\ ScoresOf(cmds, m) = {} => Standing(r, m) = {}
    /\ ScoresOf(cmds, m) # {} => \E k \in cmds : IsTop(k, ScoresOf(cmds, m), Standing(r, m), m)

LEMMA WinsParts ==
    /\ LastWriterWins <=> (Fits => \A c \in Cluster, m \in Member : Wins(rep[c], applied[c], m))
    /\ LastWriterWins' <=> (Fits => \A c \in Cluster, m \in Member : Wins(rep'[c], applied'[c], m))
<1>1. Fits <=> MaxSize >= Cardinality(Member)
  <2>1. Cardinality(Member) \in Nat /\ MaxSize \in Nat
    BY LWWSetAssumption, FS_CardinalityType
  <2>2. QED
    BY <2>1 DEF Fits
<1>2. QED
  BY <1>1 DEF LastWriterWins, Wins, Seen, IsTop, ScoresOf

\* One command keeps a cluster's standings those of the highest commands.
LEMMA WinsStep ==
    ASSUME Fits, NEW r \in Replica, NEW cmds \in SUBSET (Sides \X Score \X Member),
           NEW side \in Sides, NEW s \in Score, NEW m \in Member, NEW x \in Member,
           Wins(r, cmds, x)
    PROVE  Wins(Script(r, side, s, m), cmds \cup {<<side, s, m>>}, x)
<1> DEFINE q == Script(r, side, s, m)
           cmd == <<side, s, m>>
           seen == ScoresOf(cmds, x)
           seen2 == ScoresOf(cmds \cup {cmd}, x)
<1>0. Score \subseteq Int /\ seen \subseteq Int /\ s \in Int
  BY LWWSetAssumption DEF ScoresOf
<1>1. cmd[1] = side /\ cmd[2] = s /\ cmd[3] = m
  OBVIOUS
<1>2. /\ x # m => seen2 = seen
      /\ x = m => seen2 = seen \cup {s}
  <2> HIDE DEF cmd
  <2>1. {y \in cmds \cup {cmd} : y[3] = x} =
          IF x = m THEN {y \in cmds : y[3] = x} \cup {cmd} ELSE {y \in cmds : y[3] = x}
    BY <1>1
  <2>2. QED
    BY <1>1, <2>1 DEF ScoresOf
<1>3. /\ Stale(r, s, m) => q = r
      /\ ~Stale(r, s, m) => Standing(q, m) = {<<side, s>>}
      /\ x # m => Standing(q, x) = Standing(r, x)
  BY ScriptStanding
<1>4. /\ seen = {} => Standing(r, x) = {}
      /\ seen # {} => \E k \in cmds : IsTop(k, seen, Standing(r, x), x)
  BY DEF Wins
<1>5. SUFFICES /\ seen2 = {} => Standing(q, x) = {}
               /\ seen2 # {} => \E k \in cmds \cup {cmd} : IsTop(k, seen2, Standing(q, x), x)
  BY DEF Wins
<1> HIDE DEF q, seen, seen2, cmd
<1>6. CASE x # m
  BY <1>2, <1>3, <1>4, <1>6
<1>7. CASE x = m /\ ~Stale(r, s, m)
  <2>1. \A t \in seen : t <= s
    <3>1. SUFFICES ASSUME seen # {} PROVE \A t \in seen : t <= s
      OBVIOUS
    <3>2. PICK k \in cmds : IsTop(k, seen, Standing(r, x), x)
      BY <1>4, <3>1
    <3>3. k[2] \in Int /\ k[2] <= s
      <4>1. k[2] \in Score
        OBVIOUS
      <4>2. <<k[1], k[2]>> \in Standing(r, m) /\ <<k[1], k[2]>>[2] = k[2]
        BY <1>7, <3>2 DEF IsTop
      <4>3. ~(s < k[2])
        BY <1>7, <4>2, StaleByStanding
      <4>4. k[2] \in Int
        BY <1>0, <4>1
      <4>5. QED
        BY <1>0, <4>3, <4>4, IntOrder
    <3>4. \A t \in seen : t \in Int /\ t <= k[2]
      BY <1>0, <3>2 DEF IsTop
    <3>5. QED
      BY <1>0, <3>3, <3>4, IntOrder
  <2>2. \A t \in seen2 : t <= s
    <3>1. s <= s
      BY <1>0, IntOrder
    <3>2. QED
      BY <1>2, <1>7, <2>1, <3>1
  <2>3. IsTop(cmd, seen2, Standing(q, x), x)
    BY <1>1, <1>3, <1>7, <2>2 DEF IsTop
  <2>4. QED
    BY <1>2, <1>7, <2>3
<1>8. CASE x = m /\ Stale(r, s, m)
  <2>1. PICK st \in Standing(r, m) : s < st[2]
    BY <1>8, StaleByStanding
  <2>2. PICK k \in cmds : IsTop(k, seen, Standing(r, x), x)
    BY <1>4, <1>8, <2>1
  <2>3. st = <<k[1], k[2]>> /\ st[2] = k[2]
    BY <1>8, <2>1, <2>2 DEF IsTop
  <2>4. s <= k[2]
    <3>1. k[2] \in Score
      OBVIOUS
    <3>2. k[2] \in Int /\ s < k[2]
      BY <1>0, <2>1, <2>3, <3>1
    <3>3. QED
      BY <1>0, <3>2, IntOrder
  <2>5. \A t \in seen2 : t <= k[2]
    BY <1>2, <1>8, <2>2, <2>4 DEF IsTop
  <2>6. IsTop(k, seen2, Standing(q, x), x)
    BY <1>3, <1>8, <2>2, <2>5 DEF IsTop
  <2>7. QED
    BY <1>2, <1>8, <2>6
<1>9. QED
  BY <1>6, <1>7, <1>8

LEMMA LastWriterStep == TypeOK /\ LastWriterWins /\ [Next]_vars => LastWriterWins'
<1> SUFFICES ASSUME TypeOK, LastWriterWins, [Next]_vars, Fits, NEW d \in Cluster, NEW x \in Member
             PROVE  Wins(rep'[d], applied'[d], x)
  BY WinsParts
<1>0. RepType /\ Wins(rep[d], applied[d], x)
  BY TypeParts, WinsParts
<1>1. CASE rep' = rep /\ applied' = applied
  BY <1>0, <1>1
<1>2. ASSUME NEW c \in Cluster, NEW side \in Sides, NEW s \in Score, NEW m \in Member,
             Execute(c, side, s, m)
      PROVE  Wins(rep'[d], applied'[d], x)
  <2>1. CASE d # c
    <3>1. rep'[d] = rep[d] /\ applied'[d] = applied[d]
      BY <1>0, <1>2, <2>1 DEF Execute, RepType
    <3>2. QED
      BY <1>0, <3>1
  <2>2. CASE d = c
    <3>1. rep[d] \in Replica /\ applied[d] \in SUBSET (Sides \X Score \X Member)
      BY <1>0 DEF RepType
    <3>2. /\ rep'[d] = Script(rep[d], side, s, m)
          /\ applied'[d] = applied[d] \cup {<<side, s, m>>}
      BY <1>0, <1>2, <2>2 DEF Execute, RepType, Cmd
    <3>3. QED
      BY <1>0, <3>1, <3>2, WinsStep
  <2>3. QED
    BY <2>1, <2>2
<1>3. ASSUME NEW c \in Cluster, Lose(c) PROVE Wins(rep'[d], applied'[d], x)
  <2>1. Wins(EmptyReplica, {}, x)
    BY EmptyStanding DEF Wins, ScoresOf
  <2>2. QED
    BY <1>0, <1>3, <2>1, LoseEmpties
<1>4. QED
  BY <1>1, <1>2, <1>3, StepExecutes

\* While no set can overflow, every cluster's standing for a member is at all
\* times that of the highest-scored command it has executed for it.
THEOREM LastWriterCorrect == Spec => []LastWriterWins
<1>1. Init => TypeOK /\ JobOK /\ LastWriterWins
  <2>1. ASSUME Init PROVE LastWriterWins
    <3>1. ASSUME NEW c \in Cluster, NEW m \in Member PROVE Standing(rep[c], m) = {} /\ Seen(c, m) = {}
      BY <2>1 DEF Init, EmptyReplica, Standing, Seen
    <3>2. QED
      BY <3>1 DEF LastWriterWins
  <2>2. QED
    BY <2>1, InitType
<1>2. (TypeOK /\ JobOK /\ LastWriterWins) /\ [Next]_vars => (TypeOK /\ JobOK /\ LastWriterWins)'
  BY NextType, LastWriterStep
<1>3. QED
  BY <1>1, <1>2, PTL DEF Spec

\* One step, one cluster, one member.
LEMMA NeverOlderStep ==
    ASSUME Fits, TypeOK, [Next]_vars, NEW d \in Cluster, ~Lose(d),
           NEW x \in Member, NEW old \in Standing(rep[d], x)
    PROVE  \E new \in Standing(rep'[d], x) : new[2] >= old[2]
<1>1. RepType /\ rep[d] \in Replica
  BY TypeParts DEF RepType
<1>2. old[2] \in Int
  <2>1. old \in Sides \X Score
    BY <1>1, StandingType
  <2>2. QED
    BY <2>1, LWWSetAssumption
<1>3. CASE rep' = rep
  BY <1>2, <1>3
<1>4. ASSUME NEW c \in Cluster, NEW side \in Sides, NEW s \in Score, NEW m \in Member,
             Execute(c, side, s, m)
      PROVE  \E new \in Standing(rep'[d], x) : new[2] >= old[2]
  <2>1. rep'[d] = IF d = c THEN Script(rep[d], side, s, m) ELSE rep[d]
    BY <1>1, <1>4 DEF Execute, RepType
  <2>2. CASE d # c \/ x # m \/ Stale(rep[d], s, m)
    <3>1. Standing(rep'[d], x) = Standing(rep[d], x)
      BY <1>1, <2>1, <2>2, ScriptStanding
    <3>2. QED
      BY <1>2, <3>1
  <2>3. CASE d = c /\ x = m /\ ~Stale(rep[d], s, m)
    <3>1. Standing(rep'[d], x) = {<<side, s>>}
      BY <1>1, <2>1, <2>3, ScriptStanding
    <3>2. s \in Int /\ ~(s < old[2])
      BY <1>1, <2>3, StaleByStanding, LWWSetAssumption
    <3>3. QED
      BY <1>2, <3>1, <3>2
  <2>4. QED
    BY <2>2, <2>3
<1>5. ASSUME NEW c \in Cluster, Lose(c)
      PROVE  \E new \in Standing(rep'[d], x) : new[2] >= old[2]
  <2>1. d # c
    BY <1>5
  <2>2. rep'[d] = rep[d]
    BY <1>1, <1>5, <2>1, LoseEmpties
  <2>3. QED
    BY <1>2, <2>2
<1>6. QED
  BY <1>3, <1>4, <1>5, StepExecutes

\* No step of a client, a repair or the network makes a cluster forget a member or
\* lower its score, while no set can overflow; only the loss of the cluster does.
THEOREM NeverOlderCorrect == Spec => NeverOlder
<1> DEFINE A == MaxSize >= Cardinality(Member) =>
                  \A c \in Cluster, m \in Member : ~Lose(c) =>
                    \A old \in Standing(rep[c], m) :
                      \E new \in Standing(rep'[c], m) : new[2] >= old[2]
<1>1. TypeOK /\ [Next]_vars => A
  <2> SUFFICES ASSUME TypeOK, [Next]_vars, MaxSize >= Cardinality(Member) PROVE A
    OBVIOUS
  <2>1. Fits
    BY LWWSetAssumption, FS_CardinalityType DEF Fits
  <2>2. QED
    BY <2>1, NeverOlderStep
<1>2. TypeOK /\ [Next]_vars => [A]_vars
  BY <1>1
<1>3. QED
  BY <1>2, TypeCorrect, PTL DEF Spec, NeverOlder
-----------------------------------------------------------------------------
(***************************************************************************)
(* What was acknowledged stays on a quorum.  QuorumInv follows a write     *)
(* from the script to the client: what a cluster that was never lost has   *)
(* executed is in place or superseded, a cluster that answered has         *)
(* executed everything, and success is only reported with a quorum of      *)
(* answers.                                                                *)
(***************************************************************************)
\* Member m has score s or a newer one at replica r.
Covered(r, s, m) == \E st \in Standing(r, m) : st[2] >= s

ExecutedIsCovered ==
    \A w \in Writes, c \in Cluster \ lost : \A i \in 1..exec[w][c] :
      Covered(rep[c], WriteOp[w].tuples[i][1], WriteOp[w].tuples[i][2])

AnsweredIsExecuted ==
    \A w \in Writes, c \in Cluster : sts[w][c] = "ok" => exec[w][c] = Len(WriteOp[w].tuples)

ReportedIsAnswered == \A w \in Writes : wres[w] = "ok" => haveQuorum(w)

QuorumInv == ExecutedIsCovered /\ AnsweredIsExecuted /\ ReportedIsAnswered

LEMMA CoveredStep ==
    ASSUME Fits, TypeOK, TypeOK', [Next]_vars,
           NEW c \in Cluster, ~Lose(c), NEW s \in Score, NEW m \in Member, Covered(rep[c], s, m)
    PROVE  Covered(rep'[c], s, m)
<1>1. PICK old \in Standing(rep[c], m) : old[2] >= s
  BY DEF Covered
<1>2. PICK new \in Standing(rep'[c], m) : new[2] >= old[2]
  BY NeverOlderStep
<1>3. rep[c] \in Replica /\ rep'[c] \in Replica
  BY TypeParts DEF RepType
<1>4. s \in Int /\ old[2] \in Int /\ new[2] \in Int
  <2>1. old \in Sides \X Score /\ new \in Sides \X Score
    BY <1>3, StandingType
  <2>2. QED
    BY <2>1, LWWSetAssumption
<1>5. new[2] >= s
  BY <1>1, <1>2, <1>4
<1>6. QED
  BY <1>5 DEF Covered

LEMMA ExecuteCovers ==
    ASSUME Fits, RepType, NEW c \in Cluster, NEW side \in Sides, NEW s \in Score,
           NEW m \in Member, Execute(c, side, s, m)
    PROVE  Covered(rep'[c], s, m)
<1>1. rep[c] \in Replica /\ rep'[c] = Script(rep[c], side, s, m)
  BY DEF RepType, Execute
<1>2. CASE Stale(rep[c], s, m)
  <2>1. PICK st \in Standing(rep[c], m) : s < st[2]
    BY <1>1, <1>2, StaleByStanding
  <2>2. st[2] \in Int /\ s \in Int
    <3>1. st \in Sides \X Score
      BY <1>1, StandingType
    <3>2. QED
      BY <3>1, LWWSetAssumption
  <2>3. st \in Standing(rep'[c], m)
    BY <1>1, <1>2, ScriptStanding
  <2>4. QED
    BY <2>1, <2>2, <2>3 DEF Covered
<1>3. CASE ~Stale(rep[c], s, m)
  <2>1. Standing(rep'[c], m) = {<<side, s>>}
    BY <1>1, <1>3, ScriptStanding
  <2>2. s \in Int
    BY LWWSetAssumption
  <2>3. QED
    BY <2>1, <2>2 DEF Covered
<1>4. QED
  BY <1>2, <1>3

\* Only the steps of write w change what is recorded of it.
LEMMA WriteProgress ==
    ASSUME TypeOK, [Next]_vars, NEW w \in Writes
    PROVE  WriteNext(w) \/ (/\ wres'[w] = wres[w] /\ exec'[w] = exec[w] /\ sts'[w] = sts[w])
<1>0. WriteType
  BY TypeParts
<1>1. ASSUME NEW v \in Writes, v # w, WriteNext(v)
      PROVE  wres'[w] = wres[w] /\ exec'[w] = exec[w] /\ sts'[w] = sts[w]
  BY <1>0, <1>1 DEF WriteNext, WriteStart, WriteReport, WriteExec, WriteReply, WriteFail, WriteType
<1>2. ASSUME NEW p \in Proc, ReadStep(p) \/ RepairStep(p) \/ FailStep(p) PROVE UNCHANGED writeVars
  BY <1>2 DEF ReadStep, ReadStart, ReadDone, ReadElement, RepairStep, RepairTake, ScoreIns,
              ScoreDel, RepairWrite, FailStep, ScoreFail, RepairFail, ReadError
<1>3. ASSUME NEW k \in late, LateExec(k) PROVE UNCHANGED writeVars
  BY <1>3 DEF LateExec
<1>4. UNCHANGED vars \/ (\E c \in Cluster : Lose(c)) => UNCHANGED writeVars
  BY DEF vars, Lose
<1>5. UNCHANGED writeVars => wres'[w] = wres[w] /\ exec'[w] = exec[w] /\ sts'[w] = sts[w]
  BY DEF writeVars
<1>6. QED
  BY <1>1, <1>2, <1>3, <1>4, <1>5 DEF Next, Request

LEMMA ExecutedStep ==
    ASSUME Fits, TypeOK, TypeOK', ExecutedIsCovered, [Next]_vars
    PROVE  ExecutedIsCovered'
<1> SUFFICES ASSUME NEW w \in Writes, NEW c \in Cluster \ lost', NEW i \in 1..exec'[w][c]
             PROVE  Covered(rep'[c], WriteOp[w].tuples[i][1], WriteOp[w].tuples[i][2])
  BY DEF ExecutedIsCovered, Covered
<1> DEFINE s == WriteOp[w].tuples[i][1]
           m == WriteOp[w].tuples[i][2]
<1>1. /\ RepType /\ WriteType /\ exec[w][c] \in Nat
      /\ i \in Nat /\ s \in Score /\ m \in Member
  <2>1. exec'[w][c] \in 0..Len(WriteOp[w].tuples) /\ exec[w][c] \in 0..Len(WriteOp[w].tuples)
    BY TypeParts DEF WriteType
  <2>2. i \in 1..Len(WriteOp[w].tuples)
    BY <2>1, WriteOpType
  <2>3. QED
    BY <2>1, <2>2, WriteOpType, TypeParts
<1>l. c \in Cluster \ lost /\ ~Lose(c)
  BY DEF Next, Lose, vars
<1>2. CASE i \in 1..exec[w][c]
  <2>1. Covered(rep[c], s, m)
    BY <1>l, <1>2 DEF ExecutedIsCovered
  <2>2. QED
    BY <1>l, <1>1, <2>1, CoveredStep
<1>3. CASE i \notin 1..exec[w][c]
  <2>1. exec'[w][c] # exec[w][c]
    BY <1>3
  <2>2. WriteExec(w, c)
    BY <1>1, <2>1, WriteProgress
       DEF WriteNext, WriteStart, WriteReport, WriteExec, WriteReply, WriteFail, WriteType
  <2>3. exec'[w][c] = exec[w][c] + 1
    BY <1>1, <2>2 DEF WriteExec, WriteType
  <2>4. i = exec[w][c] + 1
    BY <1>1, <1>3, <2>3
  <2>5. Execute(c, WriteOp[w].side, s, m)
    BY <2>2, <2>4 DEF WriteExec
  <2>6. QED
    BY <1>1, <2>5, ExecuteCovers, WriteOpType
<1>4. QED
  BY <1>2, <1>3

LEMMA AnsweredStep ==
    ASSUME TypeOK, AnsweredIsExecuted, [Next]_vars
    PROVE  /\ AnsweredIsExecuted'
           /\ \A w \in Writes, c \in Cluster : sts[w][c] = "ok" => sts'[w][c] = "ok"
<1> SUFFICES ASSUME NEW w \in Writes, NEW c \in Cluster
             PROVE  /\ sts'[w][c] = "ok" => exec'[w][c] = Len(WriteOp[w].tuples)
                    /\ sts[w][c] = "ok" => sts'[w][c] = "ok"
  BY DEF AnsweredIsExecuted
<1>1. WriteType /\ exec[w][c] \in Nat /\ Len(WriteOp[w].tuples) \in Nat
  BY TypeParts, WriteOpType DEF WriteType
<1>2. sts[w][c] = "ok" => exec[w][c] = Len(WriteOp[w].tuples)
  BY DEF AnsweredIsExecuted
<1>3. CASE wres'[w] = wres[w] /\ exec'[w] = exec[w] /\ sts'[w] = sts[w]
  BY <1>2, <1>3
<1>4. CASE WriteStart(w) \/ WriteReport(w)
  BY <1>2, <1>4 DEF WriteStart, WriteReport
<1>5. ASSUME NEW d \in Cluster, WriteExec(w, d)
      PROVE  /\ sts'[w][c] = "ok" => exec'[w][c] = Len(WriteOp[w].tuples)
             /\ sts[w][c] = "ok" => sts'[w][c] = "ok"
  <2>1. sts' = sts /\ exec[w][d] < Len(WriteOp[w].tuples)
    BY <1>5 DEF WriteExec
  <2>2. c # d => exec'[w][c] = exec[w][c]
    BY <1>1, <1>5 DEF WriteExec, WriteType
  <2>3. QED
    BY <1>1, <1>2, <2>1, <2>2
<1>6. ASSUME NEW d \in Cluster, WriteReply(w, d) \/ WriteFail(w, d)
      PROVE  /\ sts'[w][c] = "ok" => exec'[w][c] = Len(WriteOp[w].tuples)
             /\ sts[w][c] = "ok" => sts'[w][c] = "ok"
  BY <1>1, <1>2, <1>6 DEF WriteReply, WriteFail, WriteType
<1>7. QED
  BY <1>3, <1>4, <1>5, <1>6, WriteProgress DEF WriteNext

\* Sets of clusters can be counted.
LEMMA ClusterSets ==
    ASSUME NEW S, NEW T, T \subseteq Cluster, S \subseteq T, Cardinality(S) >= Quorum
    PROVE  Cardinality(T) >= Quorum
<1>1. IsFiniteSet(Cluster)
  BY FS_Interval, FarmAssumption DEF Cluster
<1>2. IsFiniteSet(T)
  BY <1>1, FS_Subset
<1>3. Cardinality(S) \in Nat /\ Cardinality(T) \in Nat /\ Cardinality(S) <= Cardinality(T)
  BY <1>2, FS_Subset, FS_CardinalityType
<1>4. Quorum \in Nat
  BY FarmAssumption
<1>5. QED
  BY <1>3, <1>4

LEMMA ReportedStep ==
    ASSUME TypeOK, AnsweredIsExecuted, ReportedIsAnswered, [Next]_vars
    PROVE  ReportedIsAnswered'
<1> SUFFICES ASSUME NEW w \in Writes, wres'[w] = "ok" PROVE haveQuorum(w)'
  BY DEF ReportedIsAnswered
<1>1. Replied(w, "ok") \subseteq Replied(w, "ok")' /\ Replied(w, "ok")' \subseteq Cluster
  BY AnsweredStep DEF Replied
<1>2. haveQuorum(w)
  <2>1. WriteType
    BY TypeParts
  <2>2. CASE wres[w] = "ok"
    BY <2>2 DEF ReportedIsAnswered
  <2>3. CASE wres[w] # "ok"
    <3>1. WriteReport(w)
      BY <2>1, <2>3, WriteProgress
         DEF WriteNext, WriteStart, WriteExec, WriteReply, WriteFail, WriteType
    <3>2. QED
      BY <2>1, <3>1 DEF WriteReport, WriteType
  <2>4. QED
    BY <2>2, <2>3
<1>3. QED
  BY <1>1, <1>2, ClusterSets DEF haveQuorum

LEMMA QuorumSuffices ==
    ASSUME TypeOK, QuorumInv
    PROVE  AckedWritesOnQuorum
<1> SUFFICES ASSUME NEW w \in Writes, wres[w] = "ok", NEW i \in DOMAIN WriteOp[w].tuples
             PROVE  Cardinality({c \in Cluster :
                        c \in lost \/ \E st \in Standing(rep[c], WriteOp[w].tuples[i][2]) :
                                          st[2] >= WriteOp[w].tuples[i][1]}) >= Quorum
  BY DEF AckedWritesOnQuorum
<1> DEFINE T == {c \in Cluster :
                   c \in lost \/ \E st \in Standing(rep[c], WriteOp[w].tuples[i][2]) :
                                     st[2] >= WriteOp[w].tuples[i][1]}
<1>1. Cardinality(Replied(w, "ok")) >= Quorum
  BY DEF QuorumInv, ReportedIsAnswered, haveQuorum
<1>2. i \in 1..Len(WriteOp[w].tuples)
  <2>1. WriteOp[w].tuples \in Seq(Score \X Member)
    BY FarmAssumption
  <2>2. QED
    BY <2>1, LenProperties
<1>3. Replied(w, "ok") \subseteq T
  <2>1. ASSUME NEW c \in Replied(w, "ok") PROVE c \in T
    <3>1. c \in Cluster /\ exec[w][c] = Len(WriteOp[w].tuples)
      BY DEF Replied, QuorumInv, AnsweredIsExecuted
    <3>2. c \notin lost => Covered(rep[c], WriteOp[w].tuples[i][1], WriteOp[w].tuples[i][2])
      BY <1>2, <3>1 DEF QuorumInv, ExecutedIsCovered
    <3>3. QED
      BY <3>1, <3>2 DEF Covered
  <2>2. QED
    BY <2>1
<1>4. T \subseteq Cluster
  OBVIOUS
<1>5. QED
  BY <1>1, <1>3, <1>4, ClusterSets

\* A write that Farm.Insert or Farm.Delete reported as done is for ever in place or
\* superseded on a quorum of clusters, those that lose their data excepted, while
\* no set can overflow: neither the goroutines left behind nor repairs nor late
\* commands undo it.
THEOREM AckedCorrect == Fits => (Spec => []AckedWritesOnQuorum)
<1> SUFFICES ASSUME Fits PROVE Spec => []AckedWritesOnQuorum
  OBVIOUS
<1>1. Init => TypeOK /\ JobOK /\ QuorumInv
  <2>1. ASSUME Init PROVE QuorumInv
    <3>1. \A w \in Writes : /\ wres[w] = "idle"
                            /\ \A c \in Cluster : exec[w][c] = 0 /\ sts[w][c] = "run"
      BY <2>1 DEF Init
    <3>2. QED
      BY <3>1 DEF QuorumInv, ExecutedIsCovered, AnsweredIsExecuted, ReportedIsAnswered
  <2>2. QED
    BY <2>1, InitType
<1>2. (TypeOK /\ JobOK /\ QuorumInv) /\ [Next]_vars => (TypeOK /\ JobOK /\ QuorumInv)'
  BY NextType, ExecutedStep, AnsweredStep, ReportedStep DEF QuorumInv
<1>3. TypeOK /\ QuorumInv => AckedWritesOnQuorum
  BY QuorumSuffices
<1>4. QED
  BY <1>1, <1>2, <1>3, PTL DEF Spec
-----------------------------------------------------------------------------
(***************************************************************************)
(* A farm implements a last-writer-wins element set per cluster, while no  *)
(* set can overflow: a step of Farm is one LWWExecute, an LWWReset or a    *)
(* stutter.                                                                *)
(***************************************************************************)
\* The refinement mapping: LWW!state.
States == [c \in Cluster |-> [m \in Member |-> Standing(rep[c], m)]]

LEMMA RefinesInit == Init => LWW!LWWInit
<1> SUFFICES ASSUME Init PROVE LWW!LWWInit
  OBVIOUS
<1>1. \A c \in Cluster, m \in Member : Standing(rep[c], m) = {}
  BY DEF Init, EmptyReplica, Standing
<1>2. QED
  BY <1>1 DEF Init, LWW!LWWInit

\* The standing of the member that a command is for is one that the abstract set
\* allows.
LEMMA RefinesWinners ==
    ASSUME NEW r, NEW cmds, NEW k \in cmds, Wins(r, cmds, k[3])
    PROVE  Standing(r, k[3]) \in LWW!Winners(cmds, k[3])
<1> DEFINE mine == {x \in cmds : x[3] = k[3]}
<1>1. k[2] \in ScoresOf(cmds, k[3])
  BY DEF ScoresOf
<1>2. PICK t \in cmds : IsTop(t, ScoresOf(cmds, k[3]), Standing(r, k[3]), k[3])
  BY <1>1 DEF Wins
<1>3. t \in mine /\ k \in mine /\ \A y \in mine : y[2] <= t[2]
  BY <1>2 DEF IsTop, ScoresOf
<1>4. Standing(r, k[3]) = {<<t[1], t[2]>>}
  BY <1>2 DEF IsTop
<1>5. QED
  BY <1>3, <1>4 DEF LWW!Winners

LEMMA RefinesStep ==
    Fits /\ TypeOK /\ LastWriterWins /\ LastWriterWins' /\ [Next]_vars
      => [LWW!LWWNext]_<<applied, States>>
<1> SUFFICES ASSUME Fits, TypeOK, LastWriterWins', [Next]_vars
             PROVE  [LWW!LWWNext]_<<applied, States>>
  OBVIOUS
<1>0. RepType
  BY TypeParts
<1>1. CASE rep' = rep /\ applied' = applied
  <2>1. States' = States
    BY <1>1 DEF States
  <2>2. QED
    BY <1>1, <2>1
<1>2. ASSUME NEW c \in Cluster, NEW side \in Sides, NEW s \in Score, NEW m \in Member,
             Execute(c, side, s, m)
      PROVE  LWW!LWWNext
  <2> DEFINE k == <<side, s, m>>
             w == Standing(rep'[c], m)
  <2>1. k \in LWW!Ops /\ k[3] = m
    BY DEF LWW!Ops, Sides
  <2>2. applied' = [applied EXCEPT ![c] = @ \cup {k}] /\ k \in applied'[c]
    BY <1>0, <1>2 DEF Execute, Cmd, RepType
  <2>3. Wins(rep'[c], applied'[c], m)
    BY WinsParts
  <2>4. w \in LWW!Winners(applied'[c], m)
    BY <2>1, <2>2, <2>3, RefinesWinners
  <2>5. ASSUME NEW d \in Cluster, NEW x \in Member, d # c \/ x # m
        PROVE  Standing(rep'[d], x) = Standing(rep[d], x)
    <3>1. rep'[d] = IF d = c THEN Script(rep[d], side, s, m) ELSE rep[d]
      BY <1>0, <1>2 DEF Execute, RepType
    <3>2. rep[d] \in Replica
      BY <1>0 DEF RepType
    <3>3. QED
      BY <2>5, <3>1, <3>2, ScriptStanding
  <2>6. States' = [States EXCEPT ![c][m] = w]
    BY <2>5 DEF States
  <2>7. LWW!LWWExecute(c, k)
    BY <2>1, <2>2, <2>4, <2>6 DEF LWW!LWWExecute, States
  <2>8. QED
    BY <2>1, <2>7 DEF LWW!LWWNext
<1>3. ASSUME NEW c \in Cluster, Lose(c) PROVE LWW!LWWNext
  <2>1. \A d \in Cluster, x \in Member :
           Standing(rep'[d], x) = IF d = c THEN {} ELSE Standing(rep[d], x)
    BY <1>0, <1>3, LoseEmpties, EmptyStanding
  <2>2. States' = [States EXCEPT ![c] = [x \in Member |-> {}]]
    BY <2>1 DEF States
  <2>3. LWW!LWWReset(c)
    BY <1>3, <2>2 DEF LWW!LWWReset, States, Lose
  <2>4. QED
    BY <2>3 DEF LWW!LWWNext
<1>4. QED
  BY <1>1, <1>2, <1>3, StepExecutes

\* Whatever clients, readers, repairs and late commands do, every cluster behaves
\* like a last-writer-wins element set, while no set can overflow.
THEOREM Refinement == Fits => (Spec => ImplementsLWW)
<1> SUFFICES ASSUME Fits PROVE Spec => ImplementsLWW
  OBVIOUS
<1>1. Init => LWW!LWWInit
  BY RefinesInit
<1>2. TypeOK /\ LastWriterWins /\ LastWriterWins' /\ [Next]_vars
        => [LWW!LWWNext]_<<applied, States>>
  BY RefinesStep
<1>3. QED
  BY <1>1, <1>2, TypeCorrect, LastWriterCorrect, PTL DEF Spec, ImplementsLWW, LWW!LWWSpec, States
-----------------------------------------------------------------------------
(***************************************************************************)
(* What readers of a farm see, and what a cluster keeps at capacity.       *)
(*                                                                         *)
(* ReadYourInserts is a quorum argument over a read that takes several     *)
(* steps while writes, repairs and the loss of clusters go on: ReadInv     *)
(* counts, for every insert acknowledged before the read began, the        *)
(* clusters that have answered the write and have shown the reader its     *)
(* tuple, or will when they answer, or have lost their data.  Such a       *)
(* cluster remains one, so at the end of the read there still is a quorum  *)
(* of them, which meets every large enough set of answers.                 *)
(*                                                                         *)
(* TopOfInserts is about the script when sets overflow: TopInv says of a   *)
(* cluster that has only executed inserts that its deletes set is empty.   *)
(***************************************************************************)

\* The score and the member of write w's i-th tuple.
TupleScore(w, i) == WriteOp[w].tuples[i][1]
TupleMember(w, i) == WriteOp[w].tuples[i][2]

\* The response z of a cluster that has executed cmds has member m with score s or
\* a newer one, or the cluster has executed a newer Delete.
Shown(z, cmds, s, m) ==
    \/ m \in DOMAIN z /\ z[m] >= s
    \/ \E t \in Score : t >= s /\ <<"del", t, m>> \in cmds

\* The clusters that have answered write w and show its i-th tuple to reader p, or
\* have yet to answer p; or are lost.
Showing(p, w, i) ==
    {c \in Cluster :
       \/ c \in lost
       \/ /\ sts[w][c] = "ok"
          /\ c \in DOMAIN reader[p].resp =>
               Shown(reader[p].resp[c], applied[c], TupleScore(w, i), TupleMember(w, i))}

\* They are a quorum for every insert acknowledged before the read began.
ReadInv ==
    \A p \in Proc : reader[p].phase = "read" =>
      \A w \in reader[p].since : WriteOp[w].side = "ins" =>
        \A i \in 1..Len(WriteOp[w].tuples) : Cardinality(Showing(p, w, i)) >= Quorum

\* A cluster that has executed only inserts has its finitely many best ones and no
\* deletes.
Best(cmds) == [m \in {x \in Member : ScoresOf(cmds, x) # {}} |->
                 CHOOSE s \in ScoresOf(cmds, m) : \A t \in ScoresOf(cmds, m) : t <= s]

TopInv ==
    \A c \in Cluster :
      /\ IsFiniteSet(applied[c])
      /\ (\A k \in applied[c] : k[1] = "ins") =>
           /\ rep[c]["ins"] = ZTop(Best(applied[c]), MaxSize)
           /\ DOMAIN rep[c]["del"] = {}
-----------------------------------------------------------------------------
(***************************************************************************)
(* The best score of a finite set of commands.                             *)
(***************************************************************************)
\* The greatest element is the one that CHOOSE picks.
LEMMA ChosenGreatest ==
    ASSUME NEW S, S \subseteq Int, NEW g \in S, \A t \in S : t <= g
    PROVE  (CHOOSE s \in S : \A t \in S : t <= s) = g
<1> DEFINE h == CHOOSE s \in S : \A t \in S : t <= s
<1>1. h \in S /\ \A t \in S : t <= h
  OBVIOUS
<1>2. h \in Int /\ g \in Int /\ h <= g /\ g <= h
  BY <1>1
<1> HIDE DEF h
<1>3. h = g
  BY <1>2
<1> QED
  BY <1>3 DEF h

\* Finitely many commands have finitely many scores, of which one is the best.
LEMMA BestChosen ==
    ASSUME NEW cmds \in SUBSET (Sides \X Score \X Member), IsFiniteSet(cmds), NEW m,
           ScoresOf(cmds, m) # {}
    PROVE  LET b == CHOOSE s \in ScoresOf(cmds, m) : \A t \in ScoresOf(cmds, m) : t <= s
           IN  b \in ScoresOf(cmds, m) /\ \A t \in ScoresOf(cmds, m) : t <= b
<1>1. ScoresOf(cmds, m) \subseteq Int
  BY LWWSetAssumption DEF ScoresOf
<1>2. IsFiniteSet(ScoresOf(cmds, m))
  <2> DEFINE D == {x \in cmds : x[3] = m}
  <2>1. IsFiniteSet(D)
    BY FS_Subset
  <2>2. IsFiniteSet({k[2] : k \in D})
    <3> DEFINE T == {k[2] : k \in D}
               f == [k \in D |-> k[2]]
    <3>1. f \in [D -> T] /\ \A t \in T : \E k \in D : f[k] = t
      OBVIOUS
    <3> HIDE DEF T, f
    <3>2. f \in Surjection(D, T)
      BY <3>1 DEF Surjection
    <3>3. IsFiniteSet(T)
      BY <2>1, <3>2, FS_Surjection
    <3> QED
      BY <3>3 DEF T
  <2> QED
    BY <2>2 DEF ScoresOf
<1>3. \E s \in ScoresOf(cmds, m) : \A t \in ScoresOf(cmds, m) : t <= s
  BY <1>1, <1>2, GreatestInteger
<1> QED
  BY <1>3

\* One command more raises the best score of its member.
LEMMA BestAdd ==
    ASSUME NEW cmds \in SUBSET (Sides \X Score \X Member), IsFiniteSet(cmds),
           NEW side \in Sides, NEW s \in Score, NEW m \in Member
    PROVE  /\ Best(cmds) \in ZSet
           /\ Best(cmds \cup {<<side, s, m>>}) = Raise(Best(cmds), s, m)
<1> DEFINE more == cmds \cup {<<side, s, m>>}
           best(c, x) == CHOOSE u \in ScoresOf(c, x) : \A t \in ScoresOf(c, x) : t <= u
<1>1. /\ more \in SUBSET (Sides \X Score \X Member) /\ IsFiniteSet(more)
      /\ Score \subseteq Int
  <2>1. <<side, s, m>> \in Sides \X Score \X Member
    OBVIOUS
  <2>2. IsFiniteSet(more)
    BY FS_AddElement
  <2> QED
    BY <2>1, <2>2, LWWSetAssumption
<1>2. \A x : ScoresOf(more, x) = IF x = m THEN ScoresOf(cmds, x) \cup {s} ELSE ScoresOf(cmds, x)
  <2>1. /\ <<side, s, m>>[2] = s /\ <<side, s, m>>[3] = m
    OBVIOUS
  <2> QED
    BY <2>1 DEF ScoresOf
<1> HIDE DEF more
<1>3. \A x : /\ ScoresOf(cmds, x) \subseteq Score
             /\ ScoresOf(cmds, x) # {} =>
                  /\ best(cmds, x) \in ScoresOf(cmds, x)
                  /\ \A t \in ScoresOf(cmds, x) : t <= best(cmds, x)
  <2> SUFFICES ASSUME NEW x
               PROVE  /\ ScoresOf(cmds, x) \subseteq Score
                      /\ ScoresOf(cmds, x) # {} =>
                           /\ best(cmds, x) \in ScoresOf(cmds, x)
                           /\ \A t \in ScoresOf(cmds, x) : t <= best(cmds, x)
    OBVIOUS
  <2>1. ScoresOf(cmds, x) \subseteq Score
    BY DEF ScoresOf
  <2> QED
    BY <2>1, BestChosen
<1>4. /\ Best(cmds) = [x \in {y \in Member : ScoresOf(cmds, y) # {}} |-> best(cmds, x)]
      /\ Best(more) = [x \in {y \in Member : ScoresOf(more, y) # {}} |-> best(more, x)]
  BY DEF Best
<1>5. Best(cmds) \in ZSet
  <2>1. \A x \in DOMAIN Best(cmds) : Best(cmds)[x] \in Score
    BY <1>3, <1>4
  <2>2. DOMAIN Best(cmds) \subseteq Member /\ Best(cmds) = [x \in DOMAIN Best(cmds) |-> Best(cmds)[x]]
    BY <1>4
  <2> QED
    BY <2>1, <2>2, ZSetFacts
<1>6. \A x : x # m => best(more, x) = best(cmds, x)
  BY <1>2
<1>7. CASE ScoresOf(cmds, m) # {} /\ s < best(cmds, m)
  <2>1. best(cmds, m) \in Int /\ s \in Int
    BY <1>1, <1>3, <1>7
  <2>2. best(more, m) = best(cmds, m)
    <3>1. \A t \in ScoresOf(more, m) : t <= best(cmds, m)
      BY <1>2, <1>3, <1>7, <2>1
    <3>2. best(cmds, m) \in ScoresOf(more, m) /\ ScoresOf(more, m) \subseteq Int
      BY <1>1, <1>2, <1>3, <1>7
    <3> HIDE DEF best
    <3>3. (CHOOSE u \in ScoresOf(more, m) : \A t \in ScoresOf(more, m) : t <= u) = best(cmds, m)
      BY <3>1, <3>2, ChosenGreatest
    <3> QED
      BY <3>3 DEF best
  <2>3. \A x : ScoresOf(more, x) # {} <=> ScoresOf(cmds, x) # {}
    BY <1>2, <1>7
  <2>4. Best(more) = Best(cmds)
    <3> HIDE DEF best
    <3>1. \A x : best(more, x) = best(cmds, x)
      BY <1>6, <2>2
    <3> QED
      BY <1>4, <2>3, <3>1
  <2>5. m \in DOMAIN Best(cmds) /\ Best(cmds)[m] = best(cmds, m)
    BY <1>4, <1>7
  <2> HIDE DEF best
  <2>6. Raise(Best(cmds), s, m) = Best(cmds)
    BY <1>7, <2>5 DEF Raise
  <2> QED
    BY <1>5, <2>4, <2>6 DEF more
<1>8. CASE ~(ScoresOf(cmds, m) # {} /\ s < best(cmds, m))
  <2>1. \A t \in ScoresOf(more, m) : t <= s
    <3> SUFFICES ASSUME NEW t \in ScoresOf(cmds, m) PROVE t <= s
      BY <1>1, <1>2
    <3>1. t \in Int /\ best(cmds, m) \in Int /\ s \in Int /\ t <= best(cmds, m)
      BY <1>1, <1>3
    <3>2. ~(s < best(cmds, m))
      BY <1>8
    <3> HIDE DEF best
    <3> QED
      BY <3>1, <3>2
  <2>2. best(more, m) = s
    <3>1. s \in ScoresOf(more, m) /\ ScoresOf(more, m) \subseteq Int
      BY <1>1, <1>2, <1>3
    <3> QED
      BY <2>1, <3>1, ChosenGreatest
  <2>3. /\ ~(m \in DOMAIN Best(cmds) /\ s < Best(cmds)[m])
        /\ DOMAIN Best(cmds) = {y \in Member : ScoresOf(cmds, y) # {}}
        /\ \A x \in DOMAIN Best(cmds) : Best(cmds)[x] = best(cmds, x)
    BY <1>4, <1>8
  <2>4. Raise(Best(cmds), s, m) = ZAdd(Best(cmds), s, m)
    BY <2>3 DEF Raise
  <2>5. {y \in Member : ScoresOf(more, y) # {}} = DOMAIN Best(cmds) \cup {m}
    BY <1>2, <2>3
  <2> HIDE DEF best
  <2>6. \A x \in DOMAIN Best(cmds) \cup {m} :
           best(more, x) = IF x = m THEN s ELSE Best(cmds)[x]
    BY <1>6, <2>2, <2>3
  <2>7. Best(more) = ZAdd(Best(cmds), s, m)
    BY <1>4, <2>5, <2>6 DEF ZAdd
  <2> QED
    BY <1>5, <2>4, <2>7 DEF more
<1> QED
  BY <1>7, <1>8
-----------------------------------------------------------------------------
(***************************************************************************)
(* A cluster that has executed only inserts.                               *)
(***************************************************************************)
\* TopInv for one cluster.
TopOf(r, cmds) ==
    /\ IsFiniteSet(cmds)
    /\ (\A k \in cmds : k[1] = "ins") =>
         r["ins"] = ZTop(Best(cmds), MaxSize) /\ DOMAIN r["del"] = {}

LEMMA TopOfEmpty == TopOf(EmptyReplica, {})
<1>1. IsFiniteSet({})
  BY FS_EmptySet
<1>2. DOMAIN Best({}) = {}
  BY DEF Best, ScoresOf
<1>3. ZTop(Best({}), MaxSize) = [m \in {} |-> Best({})[m]]
  BY <1>2 DEF ZTop
<1>4. EmptyReplica["ins"] = [m \in {} |-> 0] /\ DOMAIN EmptyReplica["del"] = {}
  BY DEF EmptyReplica, Sides
<1>5. [m \in {} |-> Best({})[m]] = [m \in {} |-> 0]
  OBVIOUS
<1> QED
  BY <1>1, <1>3, <1>4, <1>5 DEF TopOf

LEMMA TopOfStep ==
    ASSUME NEW r \in Replica, NEW cmds \in SUBSET (Sides \X Score \X Member), TopOf(r, cmds),
           NEW side \in Sides, NEW s \in Score, NEW m \in Member
    PROVE  TopOf(Script(r, side, s, m), cmds \cup {<<side, s, m>>})
<1>1. IsFiniteSet(cmds) /\ IsFiniteSet(cmds \cup {<<side, s, m>>})
  BY FS_AddElement DEF TopOf
<1>2. ASSUME \A k \in cmds \cup {<<side, s, m>>} : k[1] = "ins"
      PROVE  /\ Script(r, side, s, m)["ins"] = ZTop(Best(cmds \cup {<<side, s, m>>}), MaxSize)
             /\ DOMAIN Script(r, side, s, m)["del"] = {}
  <2>1. side = "ins" /\ \A k \in cmds : k[1] = "ins"
    <3>1. <<side, s, m>>[1] = side
      OBVIOUS
    <3> QED
      BY <1>2, <3>1
  <2>2. r["ins"] = ZTop(Best(cmds), MaxSize) /\ DOMAIN r["del"] = {}
    BY <2>1 DEF TopOf
  <2>3. Best(cmds) \in ZSet /\ Best(cmds \cup {<<side, s, m>>}) = Raise(Best(cmds), s, m)
    BY <1>1, BestAdd
  <2> QED
    BY <2>1, <2>2, <2>3, ScriptTop
<1> QED
  BY <1>1, <1>2 DEF TopOf

LEMMA TopStep == TypeOK /\ TopInv /\ [Next]_vars => TopInv'
<1>0. /\ TopInv <=> \A c \in Cluster : TopOf(rep[c], applied[c])
      /\ TopInv' <=> \A c \in Cluster : TopOf(rep'[c], applied'[c])
  BY DEF TopInv, TopOf
<1> SUFFICES ASSUME TypeOK, TopInv, [Next]_vars, NEW d \in Cluster
             PROVE  TopOf(rep'[d], applied'[d])
  BY <1>0
<1>1. RepType /\ TopOf(rep[d], applied[d])
  BY <1>0, TypeParts
<1>2. CASE rep' = rep /\ applied' = applied
  BY <1>1, <1>2
<1>3. ASSUME NEW c \in Cluster, NEW side \in Sides, NEW s \in Score, NEW m \in Member,
             Execute(c, side, s, m)
      PROVE  TopOf(rep'[d], applied'[d])
  <2>1. CASE d # c
    <3>1. rep'[d] = rep[d] /\ applied'[d] = applied[d]
      BY <1>1, <1>3, <2>1 DEF Execute, RepType
    <3> QED
      BY <1>1, <3>1
  <2>2. CASE d = c
    <3>1. rep[d] \in Replica /\ applied[d] \in SUBSET (Sides \X Score \X Member)
      BY <1>1 DEF RepType
    <3>2. /\ rep'[d] = Script(rep[d], side, s, m)
          /\ applied'[d] = applied[d] \cup {<<side, s, m>>}
      BY <1>1, <1>3, <2>2 DEF Execute, RepType, Cmd
    <3> QED
      BY <1>1, <3>1, <3>2, TopOfStep
  <2> QED
    BY <2>1, <2>2
<1>4. ASSUME NEW c \in Cluster, Lose(c) PROVE TopOf(rep'[d], applied'[d])
  BY <1>1, <1>4, LoseEmpties, TopOfEmpty
<1> QED
  BY <1>2, <1>3, <1>4, StepExecutes

\* A cluster that has executed only inserts holds exactly the MaxSize members with
\* the best scores it was given, whatever was refused or evicted on the way, in
\* whatever order the inserts came.
THEOREM TopCorrect == Spec => []TopOfInserts
<1>1. Init => TypeOK /\ JobOK /\ TopInv
  <2>1. ASSUME Init PROVE TopInv
    <3>1. \A c \in Cluster : rep[c] = EmptyReplica /\ applied[c] = {}
      BY <2>1 DEF Init
    <3> QED
      BY <3>1, TopOfEmpty DEF TopInv, TopOf
  <2> QED
    BY <2>1, InitType
<1>2. (TypeOK /\ JobOK /\ TopInv) /\ [Next]_vars => (TypeOK /\ JobOK /\ TopInv)'
  BY NextType, TopStep
<1>3. TopInv => TopOfInserts
  <2>1. \A c \in Cluster, m \in Member : Seen(c, m) = ScoresOf(applied[c], m)
    BY DEF Seen, ScoresOf
  <2>2. \A c \in Cluster :
           Best(applied[c]) = [m \in {x \in Member : Seen(c, x) # {}} |->
                                 CHOOSE s \in Seen(c, m) : \A t \in Seen(c, m) : t <= s]
    BY <2>1 DEF Best
  <2> QED
    BY <2>2 DEF TopInv, TopOfInserts
<1> QED
  BY <1>1, <1>2, <1>3, PTL DEF Spec
-----------------------------------------------------------------------------
(***************************************************************************)
(* Readers see what was inserted.                                          *)
(***************************************************************************)
\* What a step does to p's read.
LEMMA ReaderProgress ==
    ASSUME TypeOK, [Next]_vars, NEW p \in Proc
    PROVE  \/ reader'[p] = reader[p]
           \/ ReadStart(p) \/ ReadDone(p)
           \/ \E c \in Cluster : ReadElement(p, c) \/ ReadError(p, c)
<1>0. RepairType
  BY TypeParts
<1>1. ASSUME NEW w \in Writes, WriteNext(w) PROVE reader' = reader
  BY <1>1 DEF WriteNext, WriteStart, WriteReport, WriteExec, WriteReply, WriteFail, repairVars
<1>2. ASSUME NEW q \in Proc, q # p, ReadStep(q) PROVE reader'[p] = reader[p]
  BY <1>0, <1>2 DEF ReadStep, ReadStart, ReadDone, ReadElement, RepairType
<1>3. ASSUME NEW q \in Proc, RepairStep(q) PROVE reader' = reader
  BY <1>3 DEF RepairStep, RepairTake, ScoreIns, ScoreDel, RepairWrite
<1>4. ASSUME NEW q \in Proc, q # p, FailStep(q) PROVE reader'[p] = reader[p]
  BY <1>0, <1>4 DEF FailStep, ScoreFail, RepairFail, ReadError, RepairType
<1>5. ASSUME NEW k \in late, LateExec(k) PROVE reader' = reader
  BY <1>5 DEF LateExec, repairVars
<1>6. UNCHANGED vars \/ (\E c \in Cluster : Lose(c)) => reader' = reader
  BY DEF vars, Lose, repairVars
<1>7. ASSUME FailStep(p)
      PROVE  reader' = reader \/ \E c \in Cluster : ReadError(p, c)
  BY <1>7 DEF FailStep, ScoreFail, RepairFail
<1> QED
  BY <1>1, <1>2, <1>3, <1>4, <1>5, <1>6, <1>7 DEF Next, Request, ReadStep

\* A cluster that still has its data has forgotten no command.
LEMMA KeepsCommands ==
    ASSUME TypeOK, [Next]_vars
    PROVE  /\ lost \subseteq lost'
           /\ \A c \in Cluster \ lost' : applied[c] \subseteq applied'[c]
<1>0. RepType
  BY TypeParts
<1>1. lost \subseteq lost'
  BY DEF Next, Lose, vars
<1>2. ASSUME NEW c \in Cluster \ lost' PROVE applied[c] \subseteq applied'[c]
  <2>1. CASE applied' = applied
    BY <2>1
  <2>2. ASSUME NEW d \in Cluster, NEW side \in Sides, NEW s \in Score, NEW m \in Member,
               Execute(d, side, s, m)
        PROVE  applied[c] \subseteq applied'[c]
    BY <1>0, <2>2 DEF Execute, RepType
  <2>3. ASSUME NEW d \in Cluster, Lose(d) PROVE applied[c] \subseteq applied'[c]
    <3>1. c # d
      BY <2>3 DEF Lose
    <3> QED
      BY <1>0, <2>3, <3>1, LoseEmpties
  <2> QED
    BY <2>1, <2>2, <2>3, StepExecutes
<1> QED
  BY <1>1, <1>2

\* A cluster that covers a tuple shows it to a reader that asks for enough.
LEMMA CoveredShown ==
    ASSUME Fits, Cardinality(Member) <= Limit, TypeOK, LastWriterWins,
           NEW c \in Cluster, NEW s \in Score, NEW m \in Member, Covered(rep[c], s, m)
    PROVE  Shown(ZTop(rep[c]["ins"], Limit), applied[c], s, m)
<1>1. rep[c] \in Replica /\ applied[c] \in SUBSET (Sides \X Score \X Member)
  BY TypeParts DEF RepType
<1>2. PICK st \in Standing(rep[c], m) : st[2] >= s
  BY DEF Covered
<1>3. PICK side \in Sides : m \in DOMAIN rep[c][side] /\ st = <<side, rep[c][side][m]>>
  BY DEF Standing
<1>4. CASE side = "ins"
  <2>1. ZTop(rep[c]["ins"], Limit) = rep[c]["ins"]
    <3>1. rep[c]["ins"] \in ZSet
      BY <1>1 DEF Replica, Sides
    <3> QED
      BY <3>1, TopAll, FarmAssumption
  <2> QED
    BY <1>2, <1>3, <1>4, <2>1 DEF Shown
<1>5. CASE side = "del"
  <2>1. Wins(rep[c], applied[c], m)
    BY WinsParts
  <2>2. PICK k \in applied[c] : k[3] = m /\ Standing(rep[c], m) = {<<k[1], k[2]>>}
    BY <1>2, <2>1 DEF Wins, IsTop
  <2>3. k \in Sides \X Score \X Member /\ st = <<k[1], k[2]>>
    BY <1>1, <1>2, <2>2
  <2>4. k[1] = "del" /\ k[2] \in Score /\ k[2] >= s /\ k = <<k[1], k[2], k[3]>>
    BY <1>2, <1>3, <1>5, <2>3
  <2>5. <<"del", k[2], m>> \in applied[c]
    BY <2>2, <2>4
  <2> QED
    BY <2>4, <2>5 DEF Shown
<1> QED
  BY <1>3, <1>4, <1>5 DEF Sides

\* No step loses one of the clusters that show a tuple to p, unless p's read ends.
LEMMA ShowingStays ==
    ASSUME Fits, Cardinality(Member) <= Limit, TypeOK, TypeOK', LastWriterWins, QuorumInv,
           [Next]_vars, NEW p \in Proc, NEW w \in Writes, NEW i \in 1..Len(WriteOp[w].tuples),
           \/ reader'[p].resp = reader[p].resp
           \/ \E c \in Cluster : ReadElement(p, c)
    PROVE  Showing(p, w, i) \subseteq Showing(p, w, i)'
<1> DEFINE s == TupleScore(w, i)
           m == TupleMember(w, i)
<1>0. s \in Score /\ m \in Member
  BY WriteOpType DEF TupleScore, TupleMember
<1> SUFFICES ASSUME NEW d \in Showing(p, w, i), d \notin lost'
             PROVE  d \in Showing(p, w, i)'
  BY DEF Showing
<1>1. d \in Cluster \ lost' /\ d \notin lost
  BY KeepsCommands DEF Showing
<1>2. sts[w][d] = "ok" /\ sts'[w][d] = "ok"
  BY <1>1, AnsweredStep DEF Showing, QuorumInv
<1>3. d \in DOMAIN reader[p].resp => Shown(reader[p].resp[d], applied[d], s, m)
  BY <1>1 DEF Showing
<1>4. applied[d] \subseteq applied'[d]
  BY <1>1, KeepsCommands
<1> HIDE DEF s, m
<1>5. d \in DOMAIN reader'[p].resp => Shown(reader'[p].resp[d], applied'[d], s, m)
  <2>1. CASE reader'[p].resp = reader[p].resp
    BY <1>3, <1>4, <2>1 DEF Shown
  <2>2. ASSUME NEW c \in Cluster, ReadElement(p, c)
        PROVE  d \in DOMAIN reader'[p].resp => Shown(reader'[p].resp[d], applied'[d], s, m)
    <3>1. reader[p] \in ReaderType
      BY TypeParts DEF RepairType
    <3>2. reader'[p].resp = [x \in DOMAIN reader[p].resp \cup {c} |->
                               IF x = c THEN ZTop(rep[c]["ins"], Limit) ELSE reader[p].resp[x]]
      BY <2>2, <3>1, TypeParts DEF ReadElement, RepairType, ReaderType
    <3>3. CASE d = c
      <4>1. exec[w][d] = Len(WriteOp[w].tuples)
        BY <1>1, <1>2 DEF QuorumInv, AnsweredIsExecuted
      <4>2. Covered(rep[d], s, m)
        BY <1>1, <4>1 DEF QuorumInv, ExecutedIsCovered, s, m, TupleScore, TupleMember
      <4>3. Shown(ZTop(rep[d]["ins"], Limit), applied[d], s, m)
        BY <1>0, <1>1, <4>2, CoveredShown
      <4>4. reader'[p].resp[d] = ZTop(rep[d]["ins"], Limit)
        BY <3>2, <3>3
      <4> QED
        BY <1>4, <4>3, <4>4 DEF Shown
    <3>4. CASE d # c
      <4>1. /\ d \in DOMAIN reader'[p].resp => d \in DOMAIN reader[p].resp
            /\ d \in DOMAIN reader[p].resp => reader'[p].resp[d] = reader[p].resp[d]
        BY <3>2, <3>4
      <4> QED
        BY <1>3, <1>4, <4>1 DEF Shown
    <3> QED
      BY <3>3, <3>4
  <2> QED
    BY <2>1, <2>2
<1> QED
  BY <1>1, <1>2, <1>5 DEF Showing, s, m, TupleScore, TupleMember

LEMMA ShowingCount ==
    ASSUME NEW p, NEW w, NEW i, Showing(p, w, i) \subseteq Showing(p, w, i)',
           Cardinality(Showing(p, w, i)) >= Quorum
    PROVE  Cardinality(Showing(p, w, i)') >= Quorum
<1>1. Showing(p, w, i)' \subseteq Cluster
  BY DEF Showing
<1> QED
  BY <1>1, ClusterSets

LEMMA ReadInvStep ==
    ASSUME Fits, Cardinality(Member) <= Limit, TypeOK, TypeOK', LastWriterWins, QuorumInv,
           ReadInv, [Next]_vars
    PROVE  ReadInv'
<1> SUFFICES ASSUME NEW p \in Proc, reader'[p].phase = "read", NEW w \in reader'[p].since,
                    WriteOp[w].side = "ins", NEW i \in 1..Len(WriteOp[w].tuples)
             PROVE  Cardinality(Showing(p, w, i)') >= Quorum
  BY DEF ReadInv
<1>0. reader \in [Proc -> ReaderType] /\ reader[p] \in ReaderType
  BY TypeParts DEF RepairType
<1>1. w \in Writes
  <2>1. reader'[p] \in ReaderType
    BY TypeParts DEF RepairType
  <2> QED
    BY <2>1 DEF ReaderType
<1>2. ASSUME \/ reader'[p].resp = reader[p].resp
             \/ \E c \in Cluster : ReadElement(p, c),
             reader'[p].phase = reader[p].phase, reader'[p].since = reader[p].since
      PROVE  Cardinality(Showing(p, w, i)') >= Quorum
  <2>1. Cardinality(Showing(p, w, i)) >= Quorum
    BY <1>2 DEF ReadInv
  <2>2. Showing(p, w, i) \subseteq Showing(p, w, i)'
    BY <1>1, <1>2, ShowingStays
  <2> QED
    BY <2>1, <2>2, ShowingCount
<1>3. CASE reader'[p] = reader[p]
  BY <1>2, <1>3
<1>4. CASE ReadStart(p)
  <2>1. /\ reader'[p].since = {v \in Writes : wres[v] = "ok"}
        /\ DOMAIN reader'[p].resp = {} /\ sts' = sts
    BY <1>0, <1>4 DEF ReadStart, NoRead, writeVars
  <2>2. Cardinality(Replied(w, "ok")) >= Quorum
    BY <1>1, <2>1 DEF QuorumInv, ReportedIsAnswered, haveQuorum
  <2>3. Replied(w, "ok") \subseteq Showing(p, w, i)' /\ Showing(p, w, i)' \subseteq Cluster
    BY <2>1 DEF Replied, Showing
  <2> QED
    BY <2>2, <2>3, ClusterSets
<1>5. CASE ReadDone(p)
  <2>1. reader'[p].phase = "idle"
    BY <1>0, <1>5 DEF ReadDone, NoRead
  <2> QED
    BY <2>1
<1>6. ASSUME NEW c \in Cluster, ReadElement(p, c)
      PROVE  Cardinality(Showing(p, w, i)') >= Quorum
  <2>1. reader'[p].phase = reader[p].phase /\ reader'[p].since = reader[p].since
    BY <1>0, <1>6 DEF ReadElement, ReaderType
  <2> QED
    BY <1>2, <1>6, <2>1
<1>7. ASSUME NEW c \in Cluster, ReadError(p, c)
      PROVE  Cardinality(Showing(p, w, i)') >= Quorum
  <2>1. /\ reader'[p].phase = reader[p].phase /\ reader'[p].since = reader[p].since
        /\ reader'[p].resp = reader[p].resp
    BY <1>0, <1>7 DEF ReadError, ReaderType
  <2> QED
    BY <1>2, <2>1
<1> QED
  BY <1>3, <1>4, <1>5, <1>6, <1>7, ReaderProgress

\* A member that one response has is in the union, with no lower a score.
LEMMA UnionHighest ==
    ASSUME NEW D \in SUBSET Cluster, NEW resp \in [D -> ZSet], NEW c \in D,
           NEW m \in DOMAIN resp[c]
    PROVE  /\ m \in DOMAIN Union(resp)
           /\ Union(resp)[m] \in Int /\ resp[c][m] \in Int /\ resp[c][m] <= Union(resp)[m]
<1> DEFINE have == {d \in DOMAIN resp : m \in DOMAIN resp[d]}
           scores == {resp[d][m] : d \in have}
           f == [d \in have |-> resp[d][m]]
<1>1. DOMAIN resp = D /\ have \subseteq Cluster /\ c \in have
  OBVIOUS
<1>2. scores \subseteq Int
  <2>1. \A d \in have : resp[d][m] \in Score
    BY ZSetFacts
  <2> QED
    BY <2>1, LWWSetAssumption
<1>3. IsFiniteSet(scores)
  <2>1. IsFiniteSet(Cluster)
    BY FS_Interval, FarmAssumption DEF Cluster
  <2>2. IsFiniteSet(have)
    BY <1>1, <2>1, FS_Subset
  <2>3. f \in [have -> scores] /\ \A s \in scores : \E d \in have : f[d] = s
    OBVIOUS
  <2> HIDE DEF have, scores, f
  <2>4. f \in Surjection(have, scores)
    BY <2>3 DEF Surjection
  <2> QED
    BY <2>2, <2>4, FS_Surjection
<1>4. resp[c][m] \in scores
  BY <1>1
<1>5. m \in UNION {DOMAIN resp[d] : d \in DOMAIN resp}
  BY <1>1
<1>6. Union(resp)[m] = CHOOSE s \in scores : \A t \in scores : t <= s
  BY <1>5 DEF Union
<1> HIDE DEF scores
<1>7. \E s \in scores : \A t \in scores : t <= s
  BY <1>2, <1>3, <1>4, GreatestInteger
<1>8. Union(resp)[m] \in scores /\ \A t \in scores : t <= Union(resp)[m]
  BY <1>6, <1>7
<1> QED
  BY <1>2, <1>4, <1>5, <1>8 DEF Union

LEMMA ReadInvSuffices ==
    ASSUME TypeOK, ReadInv
    PROVE  ReadYourInserts
<1> SUFFICES ASSUME NEW p \in Proc, reader[p].phase = "read",
                    Cardinality(DOMAIN reader[p].resp \ lost) + Quorum > N,
                    NEW w \in reader[p].since, WriteOp[w].side = "ins",
                    NEW i \in DOMAIN WriteOp[w].tuples
             PROVE  \/ /\ TupleMember(w, i) \in DOMAIN Union(reader[p].resp)
                       /\ Union(reader[p].resp)[TupleMember(w, i)] >= TupleScore(w, i)
                    \/ \E c \in Cluster, t \in Score :
                         t >= TupleScore(w, i) /\ <<"del", t, TupleMember(w, i)>> \in applied[c]
  BY DEF ReadYourInserts, TupleMember, TupleScore
<1> DEFINE A == DOMAIN reader[p].resp \ lost
           m == TupleMember(w, i)
           s == TupleScore(w, i)
<1>1. reader[p] \in ReaderType
  BY TypeParts DEF RepairType
<1>2. PICK D \in SUBSET Cluster : reader[p].resp \in [D -> ZSet]
  BY <1>1, ReaderResp
<1>3. w \in Writes /\ i \in 1..Len(WriteOp[w].tuples)
  <2>1. w \in Writes
    BY <1>1 DEF ReaderType
  <2>2. WriteOp[w].tuples \in Seq(Score \X Member)
    BY <2>1, FarmAssumption
  <2> QED
    BY <2>1, <2>2, LenProperties
<1>4. Cardinality(Showing(p, w, i)) >= Quorum /\ Showing(p, w, i) \subseteq Cluster
  BY <1>3 DEF ReadInv, Showing
<1>5. A \cap Showing(p, w, i) # {}
  <2>1. /\ IsFiniteSet(Cluster) /\ Cardinality(Cluster) = N /\ A \subseteq Cluster
        /\ N \in Nat /\ Quorum \in Nat
    <3>1. N \in Nat \ {0} /\ Quorum \in 1..N
      BY FarmAssumption
    <3>2. IsFiniteSet(1..N) /\ Cardinality(1..N) = N
      BY <3>1, FS_Interval
    <3>3. A \subseteq Cluster
      BY <1>2
    <3> QED
      BY <3>1, <3>2, <3>3 DEF Cluster
  <2>2. IsFiniteSet(A) /\ IsFiniteSet(Showing(p, w, i))
    BY <1>4, <2>1, FS_Subset
  <2>3. Cardinality(A) \in Nat /\ Cardinality(Showing(p, w, i)) \in Nat
    BY <2>2, FS_CardinalityType
  <2>4. Cardinality(A) + Cardinality(Showing(p, w, i)) > Cardinality(Cluster)
    BY <1>4, <2>1, <2>3
  <2> HIDE DEF A
  <2> QED
    BY <1>4, <2>1, <2>4, FS_MajoritiesIntersect
<1>6. PICK c \in A : c \in Showing(p, w, i)
  BY <1>5
<1>7. c \in D /\ c \in Cluster /\ Shown(reader[p].resp[c], applied[c], s, m)
  BY <1>2, <1>6 DEF Showing
<1>8. CASE m \in DOMAIN reader[p].resp[c] /\ reader[p].resp[c][m] >= s
  <2>1. s \in Int
    BY <1>3, WriteOpType, LWWSetAssumption DEF TupleScore
  <2>2. /\ m \in DOMAIN Union(reader[p].resp) /\ Union(reader[p].resp)[m] \in Int
        /\ reader[p].resp[c][m] \in Int
        /\ reader[p].resp[c][m] <= Union(reader[p].resp)[m]
    BY <1>2, <1>7, <1>8, UnionHighest
  <2> HIDE DEF s, m
  <2>3. Union(reader[p].resp)[m] >= s
    BY <1>8, <2>1, <2>2
  <2> QED
    BY <2>2, <2>3 DEF s, m
<1> QED
  BY <1>7, <1>8 DEF Shown

\* A read that asks for enough elements and begins after an insert was acknowledged
\* returns it or something newer, unless a newer Delete exists, if the clusters that
\* answered and kept their data meet every quorum of writes: whatever writes,
\* repairs, late commands and losses of clusters happen during the read, while no
\* set can overflow.
THEOREM ReadCorrect ==
    Fits /\ Cardinality(Member) <= Limit => (Spec => []ReadYourInserts)
<1> SUFFICES ASSUME Fits, Cardinality(Member) <= Limit PROVE Spec => []ReadYourInserts
  OBVIOUS
<1> DEFINE Inv == TypeOK /\ JobOK /\ LastWriterWins /\ QuorumInv /\ ReadInv
<1>1. Init => Inv
  <2> SUFFICES ASSUME Init PROVE Inv
    OBVIOUS
  <2>1. LastWriterWins
    <3>1. ASSUME NEW c \in Cluster, NEW m \in Member
          PROVE  Standing(rep[c], m) = {} /\ Seen(c, m) = {}
      BY DEF Init, EmptyReplica, Standing, Seen
    <3> QED
      BY <3>1 DEF LastWriterWins
  <2>2. QuorumInv
    <3>1. \A w \in Writes : /\ wres[w] = "idle"
                            /\ \A c \in Cluster : exec[w][c] = 0 /\ sts[w][c] = "run"
      BY DEF Init
    <3> QED
      BY <3>1 DEF QuorumInv, ExecutedIsCovered, AnsweredIsExecuted, ReportedIsAnswered
  <2>3. ReadInv
    BY DEF Init, ReadInv, NoRead
  <2> QED
    BY <2>1, <2>2, <2>3, InitType
<1>2. Inv /\ [Next]_vars => Inv'
  <2> SUFFICES ASSUME Inv, [Next]_vars PROVE Inv'
    OBVIOUS
  <2>1. TypeOK' /\ JobOK'
    BY NextType
  <2>2. LastWriterWins'
    BY LastWriterStep
  <2>3. QuorumInv'
    BY <2>1, ExecutedStep, AnsweredStep, ReportedStep DEF QuorumInv
  <2>4. ReadInv'
    BY <2>1, ReadInvStep
  <2> QED
    BY <2>1, <2>2, <2>3, <2>4
<1>3. Inv => ReadYourInserts
  BY ReadInvSuffices
<1> QED
  BY <1>1, <1>2, <1>3, PTL DEF Spec
-----------------------------------------------------------------------------
(***************************************************************************)
(* What a repair leaves.  A presence that was scored is still there or has *)
(* been overtaken when the plan is made of it (ScoredJob), and then every  *)
(* cluster has what the plan is to bring it, or the plan has it            *)
(* (PlannedJob).  Clusters that lose their data are excepted.              *)
(***************************************************************************)
ScoredJob(j, r, gone) ==
    /\ j.left \subseteq j.kms
    /\ \A h \in j.half : /\ h[1] \in j.kms
                         /\ j.at \notin gone => \A st \in h[2] : Covered(r[j.at], st[2], h[1])
    /\ \A d \in Cluster : \A m \in DOMAIN j.pres[d] :
         m \in j.kms /\ (d \notin gone => Covered(r[d], j.pres[d][m][2], m))

PlannedJob(j, r, gone) ==
    \A d \in Cluster, c \in Cluster \ gone : \A m \in DOMAIN j.pres[d] :
      j.pres[d][m][2] >= 0 =>
        \/ Covered(r[c], j.pres[d][m][2], m)
        \/ \E k \in j.plan : k[1] = c /\ k[4] = m /\ k[3] >= j.pres[d][m][2]

LevelInv ==
    \A p \in Proc : /\ job[p].phase = "score" => ScoredJob(job[p], rep, lost)
                    /\ job[p].phase = "write" => PlannedJob(job[p], rep, lost)

\* A repair that has done all its writes has brought every cluster that still has
\* its data to the score of each presence it was planned from, or beyond.
RepairLevels ==
    [][\A p \in Proc : job[p].phase = "write" /\ job'[p].phase = "none" =>
         \A d \in Cluster, c \in Cluster \ lost' : \A m \in DOMAIN job[p].pres[d] :
           job[p].pres[d][m][2] >= 0 => Covered(rep'[c], job[p].pres[d][m][2], m)]_vars

LEMMA PresenceType ==
    ASSUME NEW j \in JobType, NEW d \in Cluster, NEW m \in DOMAIN j.pres[d]
    PROVE  m \in Member /\ j.pres[d][m][1] \in Sides /\ j.pres[d][m][2] \in Score /\ j.pres[d][m][2] \in Int
<1>1. j.pres[d] \in Presences
  BY DEF JobType
<1>2. m \in Member /\ j.pres[d][m] \in Sides \X Score
  BY <1>1 DEF Presences
<1> QED
  BY <1>2, LWWSetAssumption

\* The first walk of AllRepairs finds the highest of the scores that are not negative.
LEMMA HighestFound ==
    ASSUME NEW j \in JobType, NEW d \in Cluster, NEW m \in DOMAIN j.pres[d], j.pres[d][m][2] >= 0
    PROVE  \E i \in Cluster : Highest(j.pres, m, i) /\ j.pres[i][m][2] >= j.pres[d][m][2]
<1> DEFINE F == {i \in Cluster : m \in DOMAIN j.pres[i] /\ j.pres[i][m][2] >= 0}
           x(i) == j.pres[i][m][2]
           S == {x(i) : i \in F}
<1>1. Cluster = 1..N /\ N \in Nat /\ IsFiniteSet(Cluster)
  BY ClusterRange, FS_Interval
<1>2. \A i \in F : i \in Int /\ x(i) \in Int
  BY <1>1, PresenceType
<1>3. S \subseteq Int /\ IsFiniteSet(S) /\ S # {}
  <2>1. IsFiniteSet(F)
    BY <1>1, FS_Subset
  <2>2. [i \in F |-> x(i)] \in Surjection(F, S)
    BY DEF Surjection
  <2>3. IsFiniteSet(S)
    BY <2>1, <2>2, FS_Surjection
  <2> QED
    BY <1>2, <2>3
<1>4. PICK top \in S : \A y \in S : y <= top
  BY <1>3, GreatestInteger
<1> DEFINE G == {i \in F : x(i) = top}
<1>5. G \subseteq Int /\ IsFiniteSet(G) /\ G # {}
  <2>1. IsFiniteSet(G)
    BY <1>1, FS_Subset
  <2> QED
    BY <1>2, <2>1
<1>6. PICK i \in G : \A h \in G : h <= i
  BY <1>5, GreatestInteger
<1>7. i \in Cluster /\ m \in DOMAIN j.pres[i] /\ x(i) = top /\ top \in Int /\ top >= 0
  BY <1>2, <1>6
<1>8. \A h \in Cluster : m \in DOMAIN j.pres[h] => x(h) <= top
  <2> SUFFICES ASSUME NEW h \in Cluster, m \in DOMAIN j.pres[h] PROVE x(h) <= top
    OBVIOUS
  <2>1. x(h) \in Int
    BY PresenceType
  <2>2. CASE x(h) >= 0
    BY <1>4, <2>2
  <2>3. CASE ~(x(h) >= 0)
    BY <1>7, <2>1, <2>3
  <2> QED
    BY <2>2, <2>3
<1>9. Taken(j.pres, m, i)
  <2>1. \A h \in 1..(i - 1) : h \in Cluster
    BY <1>1, <1>7
  <2> QED
    BY <1>7, <1>8, <2>1 DEF Taken
<1>10. ASSUME NEW h \in (i + 1)..N, Taken(j.pres, m, h) PROVE FALSE
  <2>1. h \in Cluster /\ h \in Int /\ i \in Int /\ i \in 1..(h - 1) /\ ~(h <= i)
    BY <1>1, <1>7
  <2>2. m \in DOMAIN j.pres[h] /\ x(h) >= 0 /\ x(i) <= x(h)
    BY <1>7, <1>10, <2>1 DEF Taken
  <2>3. x(h) \in Int /\ x(h) <= top
    BY <1>8, <2>1, <2>2, PresenceType
  <2>4. x(h) = top
    BY <1>7, <2>2, <2>3
  <2>5. h \in G
    BY <2>1, <2>2, <2>4
  <2> QED
    BY <1>6, <2>1, <2>5
<1>11. x(i) >= x(d)
  BY <1>7, <1>8
<1> QED
  BY <1>7, <1>9, <1>10, <1>11 DEF Highest

\* What covers a score covers the lower ones.
LEMMA CoversLower ==
    ASSUME NEW r \in Replica, NEW s \in Int, NEW t \in Int, t <= s, NEW m, Covered(r, s, m)
    PROVE  Covered(r, t, m)
<1>1. PICK st \in Standing(r, m) : st[2] >= s
  BY DEF Covered
<1>2. st[2] \in Int
  <2>1. st \in Sides \X Score
    BY StandingType
  <2> QED
    BY <2>1, LWWSetAssumption
<1>3. st[2] >= t
  BY <1>1, <1>2
<1> QED
  BY <1>3 DEF Covered

\* The plan of a scored job.
LEMMA PlanLevels ==
    ASSUME NEW j \in JobType, NEW r \in [Cluster -> Replica], NEW gone, ScoredJob(j, r, gone),
           NEW d \in Cluster, NEW c \in Cluster \ gone, NEW m \in DOMAIN j.pres[d],
           j.pres[d][m][2] >= 0
    PROVE  \/ Covered(r[c], j.pres[d][m][2], m)
           \/ \E k \in Plan(j.kms, j.pres) : k[1] = c /\ k[4] = m /\ k[3] >= j.pres[d][m][2]
<1>1. PICK i \in Cluster : Highest(j.pres, m, i) /\ j.pres[i][m][2] >= j.pres[d][m][2]
  BY HighestFound
<1> DEFINE s == j.pres[i][m][2]
           t == j.pres[d][m][2]
           side == IF wasInserted(j.pres, m) THEN "ins" ELSE "del"
           k == <<c, side, s, m>>
<1>2. m \in DOMAIN j.pres[i]
  BY <1>1 DEF Highest, Taken
<1>3. s \in Score /\ s \in Int /\ t \in Int /\ m \in Member /\ m \in j.kms /\ side \in Sides
  BY <1>2, PresenceType DEF ScoredJob, Sides
<1>4. CASE NeedsWrite(j.pres, c, side, s, m)
  <2>1. k \in Cluster \X Sides \X Score \X j.kms
    BY <1>3
  <2>2. k \in Plan(j.kms, j.pres)
    BY <1>1, <1>4, <2>1 DEF Plan
  <2>3. k[1] = c /\ k[4] = m /\ k[3] = s
    OBVIOUS
  <2> HIDE DEF k
  <2> QED
    BY <1>1, <2>2, <2>3
<1>5. CASE ~NeedsWrite(j.pres, c, side, s, m)
  <2>1. m \in DOMAIN j.pres[c] /\ ~(j.pres[c][m][2] < s)
    BY <1>5 DEF NeedsWrite
  <2>2. j.pres[c][m][2] \in Int /\ Covered(r[c], j.pres[c][m][2], m)
    BY <2>1, PresenceType DEF ScoredJob
  <2>3. t <= j.pres[c][m][2]
    BY <1>1, <1>3, <2>1, <2>2
  <2> QED
    BY <1>3, <2>2, <2>3, CoversLower
<1> QED
  BY <1>4, <1>5

LEMMA NextClusterLevels ==
    ASSUME NEW j \in JobType, j.phase = "score", NEW r \in [Cluster -> Replica], NEW gone,
           ScoredJob(j, r, gone)
    PROVE  LET k == NextCluster(j)
           IN  /\ k.phase = "score" => ScoredJob(k, r, gone)
               /\ k.phase = "write" => PlannedJob(k, r, gone)
<1> DEFINE k == NextCluster(j)
           plan == Plan(j.kms, j.pres)
<1>1. CASE j.at < N
  <2>1. k = [j EXCEPT !.at = j.at + 1, !.left = j.kms, !.half = {}]
    BY <1>1 DEF NextCluster
  <2>2. k.phase = "score" /\ k.left = j.kms /\ k.half = {} /\ k.kms = j.kms /\ k.pres = j.pres
    BY <2>1 DEF JobType
  <2>3. ScoredJob(k, r, gone)
    BY <2>2 DEF ScoredJob
  <2> QED
    BY <2>2, <2>3
<1>2. CASE ~(j.at < N) /\ plan = {}
  BY <1>2 DEF NextCluster, NoJob
<1>3. CASE ~(j.at < N) /\ plan # {}
  <2>1. k = [NoJob EXCEPT !.phase = "write", !.plan = plan, !.pres = j.pres]
    BY <1>3 DEF NextCluster
  <2>2. k.phase = "write" /\ k.plan = plan /\ k.pres = j.pres
    BY <2>1 DEF NoJob
  <2>3. PlannedJob(k, r, gone)
    BY <2>2, PlanLevels DEF PlannedJob
  <2> QED
    BY <2>2, <2>3
<1> QED
  BY <1>1, <1>2, <1>3

\* A job that is left alone.
LEMMA LevelKept ==
    ASSUME Fits, TypeOK, TypeOK', [Next]_vars, NEW j \in JobType, j.phase = "score" => j.at # 0
    PROVE  /\ j.phase = "score" /\ ScoredJob(j, rep, lost) => ScoredJob(j, rep', lost')
           /\ PlannedJob(j, rep, lost) => PlannedJob(j, rep', lost')
<1>1. lost \subseteq lost' /\ \A c \in Cluster \ lost' : ~Lose(c)
  BY DEF Next, Lose, vars
<1>2. \A c \in Cluster \ lost', s \in Score, m \in Member :
         Covered(rep[c], s, m) => Covered(rep'[c], s, m)
  BY <1>1, CoveredStep
<1>3. ASSUME j.phase = "score", ScoredJob(j, rep, lost) PROVE ScoredJob(j, rep', lost')
  <2>1. j.at \in Cluster
    BY <1>3, ClusterRange DEF JobType
  <2>2. ASSUME NEW h \in j.half, j.at \notin lost', NEW st \in h[2]
        PROVE  Covered(rep'[j.at], st[2], h[1])
    <3>1. h[1] \in Member /\ st[2] \in Score
      BY DEF JobType
    <3>2. Covered(rep[j.at], st[2], h[1])
      BY <1>1, <1>3, <2>2 DEF ScoredJob
    <3> QED
      BY <1>2, <2>1, <2>2, <3>1, <3>2
  <2>3. ASSUME NEW d \in Cluster, NEW m \in DOMAIN j.pres[d], d \notin lost'
        PROVE  Covered(rep'[d], j.pres[d][m][2], m)
    <3>1. Covered(rep[d], j.pres[d][m][2], m)
      BY <1>1, <1>3, <2>3 DEF ScoredJob
    <3> QED
      BY <1>2, <2>3, <3>1, PresenceType
  <2> QED
    BY <1>3, <2>2, <2>3 DEF ScoredJob
<1>4. ASSUME PlannedJob(j, rep, lost) PROVE PlannedJob(j, rep', lost')
  <2> SUFFICES ASSUME NEW d \in Cluster, NEW c \in Cluster \ lost', NEW m \in DOMAIN j.pres[d],
                      j.pres[d][m][2] >= 0
               PROVE  \/ Covered(rep'[c], j.pres[d][m][2], m)
                      \/ \E k \in j.plan : k[1] = c /\ k[4] = m /\ k[3] >= j.pres[d][m][2]
    BY DEF PlannedJob
  <2>1. \/ Covered(rep[c], j.pres[d][m][2], m)
        \/ \E k \in j.plan : k[1] = c /\ k[4] = m /\ k[3] >= j.pres[d][m][2]
    BY <1>1, <1>4 DEF PlannedJob
  <2> QED
    BY <1>2, <2>1, PresenceType
<1> QED
  BY <1>3, <1>4

\* What a step does to p's job.
LEMMA JobProgress ==
    ASSUME TypeOK, [Next]_vars, NEW p \in Proc
    PROVE  \/ job'[p] = job[p]
           \/ ReadDone(p) \/ RepairTake(p) \/ ScoreIns(p) \/ ScoreDel(p) \/ ScoreFail(p)
           \/ RepairWrite(p) \/ RepairFail(p)
<1>0. RepairType
  BY TypeParts
<1>1. ASSUME NEW w \in Writes, WriteNext(w) PROVE job' = job
  BY <1>1 DEF WriteNext, WriteStart, WriteReport, WriteExec, WriteReply, WriteFail, repairVars
<1>2. ASSUME NEW q \in Proc, q # p, ReadStep(q) \/ RepairStep(q) \/ FailStep(q)
      PROVE  job'[p] = job[p]
  BY <1>0, <1>2 DEF ReadStep, ReadStart, ReadDone, ReadElement, RepairStep, RepairTake, ScoreIns,
                    ScoreDel, RepairWrite, FailStep, ScoreFail, RepairFail, ReadError, RepairType
<1>3. ASSUME NEW k \in late, LateExec(k) PROVE job' = job
  BY <1>3 DEF LateExec, repairVars
<1>4. UNCHANGED vars \/ (\E c \in Cluster : Lose(c)) => job' = job
  BY DEF vars, Lose, repairVars
<1>5. ASSUME ReadStep(p) \/ RepairStep(p) \/ FailStep(p)
      PROVE  \/ job' = job
             \/ ReadDone(p) \/ RepairTake(p) \/ ScoreIns(p) \/ ScoreDel(p) \/ ScoreFail(p)
             \/ RepairWrite(p) \/ RepairFail(p)
  BY <1>5 DEF ReadStep, ReadStart, ReadElement, RepairStep, FailStep, ReadError
<1> QED
  BY <1>1, <1>2, <1>3, <1>4, <1>5 DEF Next, Request

\* A job that begins has scored nothing.
LEMMA StartLevels ==
    ASSUME NEW kms, NEW r, NEW gone
    PROVE  /\ StartJob(kms).phase = "score"
           /\ ScoredJob(StartJob(kms), r, gone)
<1> DEFINE j == StartJob(kms)
<1>1. /\ j.phase = "score" /\ j.kms = kms /\ j.left = kms /\ j.half = {}
      /\ j.pres = [c \in Cluster |-> [m \in {} |-> 0]]
  BY DEF StartJob, NoJob
<1>2. \A d \in Cluster : DOMAIN j.pres[d] = {}
  BY <1>1
<1> QED
  BY <1>1, <1>2 DEF ScoredJob

Levels(j, r, gone) == /\ j.phase = "score" => ScoredJob(j, r, gone)
                      /\ j.phase = "write" => PlannedJob(j, r, gone)

\* A ZSCORE of a member's insert.
LEMMA ScoreInsLevels ==
    ASSUME TypeOK, JobOK, NEW p \in Proc, Levels(job[p], rep, lost), ScoreIns(p)
    PROVE  Levels(job'[p], rep, lost)
<1> DEFINE j == job[p]
<1>1. PICK m \in j.left :
          job' = [job EXCEPT ![p].left = @ \ {m},
                    ![p].half = {<<m, {st \in Standing(rep[job[p].at], m) : st[1] = "ins"}>>}]
  BY DEF ScoreIns
<1> DEFINE new == {st \in Standing(rep[j.at], m) : st[1] = "ins"}
           k == [j EXCEPT !.left = j.left \ {m}, !.half = {<<m, new>>}]
<1>2. job \in [Proc -> JobType] /\ j \in JobType /\ rep \in [Cluster -> Replica] /\ job'[p] = k
  BY <1>1, TypeParts DEF RepairType, RepType, JobType
<1>3. /\ j.phase = "score" /\ ScoredJob(j, rep, lost) /\ j.at \in Cluster
  BY <1>2, ClusterRange DEF ScoreIns, Levels, JobOK, JobType
<1>4. /\ k.phase = "score" /\ k.at = j.at /\ k.kms = j.kms /\ k.pres = j.pres
      /\ k.left = j.left \ {m} /\ k.half = {<<m, new>>}
  BY <1>2, <1>3 DEF JobType
<1>5. \A st \in new : Covered(rep[j.at], st[2], m)
  <2> SUFFICES ASSUME NEW st \in new PROVE Covered(rep[j.at], st[2], m)
    OBVIOUS
  <2>1. st \in Standing(rep[j.at], m) /\ st[2] \in Int
    BY <1>2, <1>3, StandingType, LWWSetAssumption
  <2> QED
    BY <2>1 DEF Covered
<1>6. m \in j.kms
  BY <1>3 DEF ScoredJob
<1> HIDE DEF k, new
<1>7. ScoredJob(k, rep, lost)
  BY <1>3, <1>4, <1>5, <1>6 DEF ScoredJob
<1> QED
  BY <1>2, <1>4, <1>7 DEF Levels

\* The job after the second ZSCORE of the member of h, unless it moves on.
Scored(j, r, h, bad) ==
    LET both == h[2] \cup {st \in Standing(r[j.at], h[1]) : st[1] = "del"}
        pres == IF bad THEN [x \in {} |-> 0]
                ELSE [x \in DOMAIN j.pres[j.at] \cup {y \in {h[1]} : both # {}} |->
                        IF x \in DOMAIN j.pres[j.at] THEN j.pres[j.at][x]
                        ELSE CHOOSE st \in both : TRUE]
    IN  [j EXCEPT !.half = {}, !.pres[j.at] = pres]

LEMMA PresenceLevels ==
    ASSUME NEW j \in JobType, j.phase = "score", j.at \in Cluster, NEW r \in [Cluster -> Replica],
           NEW gone, ScoredJob(j, r, gone), NEW h \in j.half, NEW bad \in BOOLEAN
    PROVE  /\ Scored(j, r, h, bad) \in JobType /\ Scored(j, r, h, bad).phase = "score"
           /\ ScoredJob(Scored(j, r, h, bad), r, gone)
<1> DEFINE m == h[1]
           old == j.pres[j.at]
           both == h[2] \cup {st \in Standing(r[j.at], m) : st[1] = "del"}
           some == [x \in DOMAIN old \cup {y \in {m} : both # {}} |->
                      IF x \in DOMAIN old THEN old[x] ELSE CHOOSE st \in both : TRUE]
           pres == IF bad THEN [x \in {} |-> 0] ELSE some
           k == [j EXCEPT !.half = {}, !.pres[j.at] = pres]
<1>1. m \in Member /\ h[2] \in SUBSET (Sides \X Score) /\ m \in j.kms
  BY DEF JobType, ScoredJob
<1>2. both \in SUBSET (Sides \X Score)
  <2>1. Standing(r[j.at], m) \subseteq Sides \X Score
    BY StandingType
  <2> QED
    BY <1>1, <2>1
<1>3. old \in Presences
  BY DEF JobType
<1>4. j.at \notin gone => \A st \in both : Covered(r[j.at], st[2], m)
  <2>1. j.at \notin gone => \A st \in h[2] : Covered(r[j.at], st[2], m)
    BY DEF ScoredJob
  <2>2. ASSUME NEW st \in Standing(r[j.at], m) PROVE Covered(r[j.at], st[2], m)
    <3>1. st \in Sides \X Score
      BY StandingType
    <3>2. st[2] \in Int
      BY <3>1, LWWSetAssumption
    <3> QED
      BY <3>2 DEF Covered
  <2> QED
    BY <2>1, <2>2
<1>5. some \in Presences
  BY <1>1, <1>2, <1>3, PresencesAdd, ZenonT(40)
<1>6. pres \in Presences
  BY <1>5, EmptyPresences
<1> HIDE DEF both
<1>7. \A x \in DOMAIN pres : x \in j.kms /\ (j.at \notin gone => Covered(r[j.at], pres[x][2], x))
  <2>1. \A x \in DOMAIN old : x \in j.kms /\ (j.at \notin gone => Covered(r[j.at], old[x][2], x))
    BY DEF ScoredJob
  <2>2. both # {} => (CHOOSE st \in both : TRUE) \in both
    OBVIOUS
  <2>3. ASSUME NEW x \in DOMAIN some
        PROVE  x \in j.kms /\ (j.at \notin gone => Covered(r[j.at], some[x][2], x))
    <3>1. CASE x \in DOMAIN old
      BY <2>1, <3>1
    <3>2. CASE x \notin DOMAIN old
      <4>1. x = m /\ both # {} /\ some[x] \in both
        BY <2>2, <2>3, <3>2
      <4> QED
        BY <1>1, <1>4, <4>1
    <3> QED
      BY <3>1, <3>2
  <2> HIDE DEF some
  <2>4. CASE bad
    BY <2>4
  <2>5. CASE ~bad
    BY <2>3, <2>5
  <2> QED
    BY <2>4, <2>5
<1> HIDE DEF pres
<1>8. /\ k \in JobType /\ k.phase = "score" /\ k.at = j.at /\ k.kms = j.kms /\ k.left = j.left
      /\ k.half = {} /\ k.pres = [j.pres EXCEPT ![j.at] = pres]
  BY <1>6 DEF JobType
<1>9. j.pres \in [Cluster -> Presences]
  BY DEF JobType
<1>10. \A d \in Cluster : k.pres[d] = IF d = j.at THEN pres ELSE j.pres[d]
  BY <1>8, <1>9
<1> HIDE DEF k
<1>11. ScoredJob(k, r, gone)
  BY <1>7, <1>8, <1>10 DEF ScoredJob
<1> QED
  BY <1>8, <1>11 DEF Scored, k, pres, both

LEMMA ScoreDelLevels ==
    ASSUME TypeOK, JobOK, NEW p \in Proc, Levels(job[p], rep, lost), ScoreDel(p)
    PROVE  Levels(job'[p], rep, lost)
<1> DEFINE j == job[p]
<1>1. PICK h \in j.half, bad \in BOOLEAN :
          job' = [job EXCEPT ![p] = IF bad \/ j.left = {} THEN NextCluster(Scored(j, rep, h, bad))
                                    ELSE Scored(j, rep, h, bad)]
  BY DEF ScoreDel, Scored
<1> DEFINE k == Scored(j, rep, h, bad)
<1>2. job \in [Proc -> JobType] /\ j \in JobType /\ rep \in [Cluster -> Replica]
  BY TypeParts DEF RepairType, RepType
<1>3. /\ j.phase = "score" /\ ScoredJob(j, rep, lost) /\ j.at \in Cluster
  BY <1>2, ClusterRange DEF ScoreDel, Levels, JobOK, JobType
<1>4. k \in JobType /\ k.phase = "score" /\ ScoredJob(k, rep, lost)
  BY <1>2, <1>3, PresenceLevels
<1>5. job'[p] = IF bad \/ j.left = {} THEN NextCluster(k) ELSE k
  BY <1>1, <1>2
<1> HIDE DEF k
<1>6. Levels(k, rep, lost) /\ Levels(NextCluster(k), rep, lost)
  BY <1>2, <1>4, NextClusterLevels DEF Levels
<1> QED
  BY <1>5, <1>6

LEMMA ScoreFailLevels ==
    ASSUME TypeOK, JobOK, NEW p \in Proc, Levels(job[p], rep, lost), ScoreFail(p)
    PROVE  Levels(job'[p], rep, lost)
<1> DEFINE j == job[p]
           none == [x \in {} |-> 0]
           k == [j EXCEPT !.pres[j.at] = none]
<1>1. job \in [Proc -> JobType] /\ j \in JobType /\ rep \in [Cluster -> Replica]
  BY TypeParts DEF RepairType, RepType
<1>2. /\ j.phase = "score" /\ ScoredJob(j, rep, lost)
      /\ job' = [job EXCEPT ![p] = NextCluster(k)]
  BY DEF ScoreFail, Levels
<1>3. none \in Presences /\ DOMAIN none = {}
  BY EmptyPresences
<1> HIDE DEF none
<1>4. /\ k \in JobType /\ k.phase = "score" /\ k.at = j.at /\ k.kms = j.kms /\ k.left = j.left
      /\ k.half = j.half /\ k.pres = [j.pres EXCEPT ![j.at] = none]
  BY <1>1, <1>2, <1>3 DEF JobType
<1>5. j.pres \in [Cluster -> Presences]
  BY <1>1 DEF JobType
<1>6. \A d \in Cluster : k.pres[d] = IF d = j.at THEN none ELSE j.pres[d]
  BY <1>4, <1>5
<1> HIDE DEF k
<1>7. ScoredJob(k, rep, lost)
  BY <1>2, <1>3, <1>4, <1>6 DEF ScoredJob
<1>8. Levels(NextCluster(k), rep, lost)
  BY <1>1, <1>4, <1>7, NextClusterLevels DEF Levels
<1> QED
  BY <1>1, <1>2, <1>8

\* A write of the plan.
LEMMA RepairWriteLevels ==
    ASSUME Fits, TypeOK, TypeOK', JobOK, [Next]_vars, NEW p \in Proc, Levels(job[p], rep, lost),
           RepairWrite(p)
    PROVE  /\ Levels(job'[p], rep', lost')
           /\ job'[p].phase = "none" =>
                \A d \in Cluster, c \in Cluster \ lost' : \A m \in DOMAIN job[p].pres[d] :
                  job[p].pres[d][m][2] >= 0 => Covered(rep'[c], job[p].pres[d][m][2], m)
<1> DEFINE j == job[p]
<1>1. PICK k \in Ready(j) : /\ Execute(k[1], k[2], k[3], k[4])
                            /\ job' = [job EXCEPT ![p] = EndWrites(@, {k})]
  BY DEF RepairWrite
<1> DEFINE left == j.plan \ {k}
           i == EndWrites(j, {k})
<1>2. /\ RepType /\ job \in [Proc -> JobType] /\ j \in JobType /\ job'[p] = i
      /\ rep' \in [Cluster -> Replica]
  BY <1>1, TypeParts DEF RepairType, RepType
<1>3. j.phase = "write" /\ PlannedJob(j, rep, lost)
  BY DEF RepairWrite, Levels
<1>4. k \in Command
  BY <1>2 DEF Ready, JobType
<1>5. Covered(rep'[k[1]], k[3], k[4]) /\ k[3] \in Int
  BY <1>1, <1>2, <1>4, ExecuteCovers, LWWSetAssumption DEF Command
<1>6. PlannedJob(j, rep', lost')
  BY <1>2, <1>3, LevelKept
<1>7. ASSUME NEW d \in Cluster, NEW c \in Cluster \ lost', NEW m \in DOMAIN j.pres[d],
             j.pres[d][m][2] >= 0
      PROVE  \/ Covered(rep'[c], j.pres[d][m][2], m)
             \/ \E x \in left : x[1] = c /\ x[4] = m /\ x[3] >= j.pres[d][m][2]
  <2>1. \/ Covered(rep'[c], j.pres[d][m][2], m)
        \/ \E x \in j.plan : x[1] = c /\ x[4] = m /\ x[3] >= j.pres[d][m][2]
    BY <1>6, <1>7 DEF PlannedJob
  <2>2. ASSUME k[1] = c, k[4] = m, k[3] >= j.pres[d][m][2]
        PROVE  Covered(rep'[c], j.pres[d][m][2], m)
    <3>1. j.pres[d][m][2] \in Int /\ rep'[c] \in Replica
      BY <1>2, PresenceType
    <3> QED
      BY <1>5, <2>2, <3>1, CoversLower
  <2> QED
    BY <2>1, <2>2
<1>8. CASE left = {}
  <2>1. i = NoJob
    BY <1>8 DEF EndWrites
  <2>2. i.phase = "none"
    BY <2>1 DEF NoJob
  <2> QED
    BY <1>2, <1>7, <1>8, <2>2 DEF Levels
<1>9. CASE left # {}
  <2>1. i = [j EXCEPT !.plan = left]
    BY <1>9 DEF EndWrites
  <2>2. i.phase = "write" /\ i.plan = left /\ i.pres = j.pres
    BY <1>2, <1>3, <2>1 DEF JobType
  <2>3. PlannedJob(i, rep', lost')
    <3> HIDE DEF i, left
    <3> QED
      BY <1>7, <2>2 DEF PlannedJob
  <2> QED
    BY <1>2, <2>2, <2>3 DEF Levels
<1> QED
  BY <1>8, <1>9

LEMMA LevelStep ==
    ASSUME Fits, TypeOK, TypeOK', JobOK, LevelInv, [Next]_vars, NEW p \in Proc, ~RepairFail(p)
    PROVE  Levels(job'[p], rep', lost')
<1>1. Levels(job[p], rep, lost) /\ job[p] \in JobType /\ (job[p].phase = "score" => job[p].at # 0)
  BY TypeParts DEF LevelInv, Levels, RepairType, JobOK
<1>2. CASE job'[p] = job[p]
  BY <1>1, <1>2, LevelKept DEF Levels
<1>3. ASSUME ReadDone(p) \/ RepairTake(p), job'[p] # job[p] PROVE Levels(job'[p], rep', lost')
  <2>1. \E kms : job'[p] = StartJob(kms)
    <3>1. job \in [Proc -> JobType]
      BY TypeParts DEF RepairType
    <3> QED
      BY <1>3, <3>1 DEF ReadDone, RepairTake
  <2> QED
    BY <2>1, StartLevels DEF Levels
<1>4. ASSUME ScoreIns(p) \/ ScoreDel(p) \/ ScoreFail(p), job'[p] # job[p]
      PROVE  Levels(job'[p], rep', lost')
  <2>1. rep' = rep
    BY <1>4 DEF ScoreIns, ScoreDel, ScoreFail
  <2>2. lost' = lost
    <3>1. ASSUME NEW c \in Cluster, Lose(c) PROVE FALSE
      <4>1. job' = job
        BY <3>1 DEF Lose, repairVars
      <4> QED
        BY <1>4, <4>1
    <3> QED
      BY <3>1 DEF Next, vars
  <2>3. Levels(job'[p], rep, lost)
    BY <1>1, <1>4, ScoreInsLevels, ScoreDelLevels, ScoreFailLevels
  <2> QED
    BY <2>1, <2>2, <2>3
<1>5. CASE RepairWrite(p)
  BY <1>1, <1>5, RepairWriteLevels
<1> QED
  BY <1>2, <1>3, <1>4, <1>5, JobProgress

\* In a behaviour in which no write of a repair fails, whatever else does, a repair
\* leaves every cluster that has its data with the highest score it found, or a
\* higher one, for each member it was asked about; though scores were read at
\* different moments, one cluster's not at all, and others wrote in between.
THEOREM RepairCorrect ==
    Fits => (Spec /\ [][\A p \in Proc : ~RepairFail(p)]_vars => RepairLevels)
<1> SUFFICES ASSUME Fits PROVE Spec /\ [][\A p \in Proc : ~RepairFail(p)]_vars => RepairLevels
  OBVIOUS
<1> DEFINE Inv == TypeOK /\ JobOK /\ LevelInv
           Sound == \A p \in Proc : ~RepairFail(p)
           Level == \A p \in Proc : job[p].phase = "write" /\ job'[p].phase = "none" =>
                      \A d \in Cluster, c \in Cluster \ lost' : \A m \in DOMAIN job[p].pres[d] :
                        job[p].pres[d][m][2] >= 0 => Covered(rep'[c], job[p].pres[d][m][2], m)
<1>1. Init => Inv
  <2>1. ASSUME Init PROVE LevelInv
    <3>1. \A p \in Proc : job[p].phase = "none"
      BY <2>1 DEF Init, NoJob
    <3> QED
      BY <3>1 DEF LevelInv
  <2> QED
    BY <2>1, InitType
<1>2. Inv /\ [Next]_vars /\ [Sound]_vars => Inv' /\ [Level]_vars
  <2> SUFFICES ASSUME Inv, [Next]_vars, [Sound]_vars PROVE Inv' /\ [Level]_vars
    OBVIOUS
  <2>1. TypeOK' /\ JobOK'
    BY NextType
  <2>2. CASE UNCHANGED vars
    <3>1. LevelInv'
      BY <2>2 DEF LevelInv, vars, repairVars
    <3> QED
      BY <2>1, <2>2, <3>1
  <2>3. CASE Sound
    <3>1. LevelInv'
      BY <2>1, <2>3, LevelStep DEF LevelInv, Levels
    <3>2. ASSUME NEW p \in Proc, job[p].phase = "write", job'[p].phase = "none"
          PROVE  RepairWrite(p)
      <4>1. ~RepairFail(p) /\ job'[p] # job[p]
        BY <2>3, <3>2
      <4>2. ~ScoreIns(p) /\ ~ScoreDel(p) /\ ~ScoreFail(p)
        BY <3>2 DEF ScoreIns, ScoreDel, ScoreFail
      <4>3. ASSUME ReadDone(p) \/ RepairTake(p) PROVE FALSE
        <5>1. \E kms : job'[p] = StartJob(kms)
          <6>1. job \in [Proc -> JobType]
            BY TypeParts DEF RepairType
          <6> QED
            BY <4>1, <4>3, <6>1 DEF ReadDone, RepairTake
        <5> QED
          BY <3>2, <5>1, StartLevels
      <4> QED
        BY <4>1, <4>2, <4>3, JobProgress
    <3>3. Level
      <4> SUFFICES ASSUME NEW p \in Proc, job[p].phase = "write", job'[p].phase = "none"
                   PROVE  \A d \in Cluster, c \in Cluster \ lost' : \A m \in DOMAIN job[p].pres[d] :
                            job[p].pres[d][m][2] >= 0 => Covered(rep'[c], job[p].pres[d][m][2], m)
        OBVIOUS
      <4>1. RepairWrite(p)
        BY <3>2
      <4>2. Levels(job[p], rep, lost)
        BY DEF LevelInv, Levels
      <4> QED
        BY <2>1, <4>1, <4>2, RepairWriteLevels
    <3> QED
      BY <2>1, <3>1, <3>3
  <2> QED
    BY <2>2, <2>3
<1> QED
  BY <1>1, <1>2, PTL DEF Spec, RepairLevels
=============================================================================
