----------------------------- MODULE ReadsProofs -----------------------------
(***************************************************************************)
(* The readers, for any number of clusters, keys, instances, pages and     *)
(* attempts, whatever is written meanwhile.                                *)
(*                                                                         *)
(* The walker: WalkState says where each key is that some cluster holds    *)
(* throughout: still ahead of Keys (Ahead), or in one of the hands it goes *)
(* through on its way to the walk (Taken).                                 *)
(*                                                                         *)
(* The pager: PagingState says what each page that an instance has         *)
(* returned holds of the elements that all clusters hold throughout        *)
(* (PageOK), and how the cursor stands to what was given before (GivenOK); *)
(* from these follows what the next page does to the listing (NextPage).   *)
(***************************************************************************)
EXTENDS Reads, LWWSetProofs, FunctionTheorems

\* The shape of the walker's variables.
WalkShape ==
    /\ keys \in [phase : {"idle", "next", "scan", "reply", "flush"}, c : Cluster,
                 left : SUBSET Instance, i : Instance \cup {NoKeys.i},
                 todo : SUBSET (Key \X Sides), reply : SUBSET (Key \X Sides),
                 batch : SUBSET Key]
    /\ hand \in SUBSET Key
    /\ walk \in [phase : {"idle", "walking"}, left : SUBSET Cluster, batch : SUBSET Key,
                 need : SUBSET (Cluster \X Instance), walked : SUBSET Key]
    /\ outages \in 0..MaxOutages

\* What Keys holds at each point.
KeysOK ==
    /\ IsFiniteSet(keys.batch) /\ Cardinality(keys.batch) <= BatchSize
    /\ Cardinality(hand) <= BatchSize
    /\ keys.phase \in {"idle", "next"} => keys.batch = {}
    /\ keys.phase \in {"idle", "next", "flush"} => keys.todo = {}
    /\ keys.phase # "reply" => keys.reply = {}
    /\ walk.batch = {} <=> walk.need = {}

\* Key k of cluster c is still to be scanned, or on its way to the walk, or walked.
Ahead(c, k) ==
    \/ c \in walk.left
    \/ /\ keys.phase # "idle" /\ keys.c = c
       /\ \/ Home[k] \in keys.left
          \/ Home[k] = keys.i /\ <<k, "ins">> \in keys.todo \cup keys.reply

Taken(k) == k \in keys.batch \cup hand \cup walk.batch \cup walk.walked

Covered ==
    /\ steady \subseteq NonEmpty
    /\ walk.phase = "walking" => \A x \in steady : Ahead(x[1], x[2]) \/ Taken(x[2])

\* The variables of the reader that a behaviour does not have stay as they begin.
RoleOK == /\ role \in {"pager", "walker"}
          /\ role = "pager" => steady = {}
          /\ role = "walker" => stable = {} /\ pager.phase = "idle"

WalkState == WalkShape /\ KeysOK /\ Covered
-----------------------------------------------------------------------------
(***************************************************************************)
(* The clusters.                                                           *)
(***************************************************************************)
\* What is written has its type.
LEMMA WriteType ==
    ASSUME StoreTypeOK, NEW w \in Command, Write(w)
    PROVE  StoreTypeOK'
<1>1. /\ w[1] \in Cluster /\ w[2] \in Key /\ w[3] \in Sides /\ w[4] \in Score
      /\ w[5] \in Member
  BY DEF Command
<1>2. data[w[1]][w[2]] \in Replica
  BY <1>1 DEF StoreTypeOK
<1> DEFINE r == Script(data[w[1]][w[2]], w[3], w[4], w[5])
<1>3. r \in Replica
  BY <1>1, <1>2, ScriptType
<1>4. data' = [data EXCEPT ![w[1]][w[2]] = r]
  BY DEF Write
<1> HIDE DEF r
<1> QED
  BY <1>1, <1>3, <1>4 DEF StoreTypeOK

LEMMA StoredType ==
    ASSUME NEW ws PROVE Stored(ws) \in [Cluster -> [Key -> Replica]]
<1> SUFFICES ASSUME NEW c \in Cluster, NEW k \in Key
             PROVE  [EmptyReplica EXCEPT !["ins"] =
                       [m \in {x \in Member : \E s \in Score : <<c, k, "ins", s, x>> \in ws} |->
                          CHOOSE s \in Score : <<c, k, "ins", s, m>> \in ws]] \in Replica
  BY DEF Stored
<1> DEFINE D == {x \in Member : \E s \in Score : <<c, k, "ins", s, x>> \in ws}
           z == [m \in D |-> CHOOSE s \in Score : <<c, k, "ins", s, m>> \in ws]
<1>1. D \subseteq Member /\ \A m \in D : z[m] \in Score
  OBVIOUS
<1>2. DOMAIN z = D /\ z = [m \in DOMAIN z |-> z[m]]
  OBVIOUS
<1> HIDE DEF z, D
<1>3. z \in ZSet
  BY <1>1, <1>2, ZSetFacts
<1>4. EmptyReplica \in Replica
  BY ZSetFacts DEF EmptyReplica, Replica
<1>5. [EmptyReplica EXCEPT !["ins"] = z] \in Replica
  BY <1>3, <1>4 DEF Replica
<1> QED
  BY <1>5 DEF z, D

\* A key's inserts set.
LEMMA InsType ==
    ASSUME StoreTypeOK, NEW c \in Cluster, NEW k \in Key
    PROVE  data[c][k]["ins"] \in ZSet
BY DEF StoreTypeOK, Replica, Sides

LEMMA Constants ==
    /\ N \in Nat \ {0} /\ Home \in [Key -> Instance]
    /\ PageWrites \subseteq Command /\ WalkWrites \subseteq Command
    /\ PageLimit \in Nat \ {0} /\ MaxAttempts \in Nat \ {0} /\ MaxErrors \in Nat
    /\ BatchSize \in Nat \ {0} /\ MaxOutages \in Nat
    /\ Few \in Nat /\ FewNext \in Nat /\ Many \in Nat /\ Step \in Nat
    /\ Member \subseteq Int /\ IsFiniteSet(Member) /\ Score \subseteq Int
BY StoreAssumption, PagingAssumption, WalkAssumption, LWWSetAssumption
-----------------------------------------------------------------------------
(***************************************************************************)
(* Keys.                                                                   *)
(***************************************************************************)
LEMMA NoKeysFacts ==
    /\ NoKeys \in [phase : {"idle", "next", "scan", "reply", "flush"}, c : Cluster,
                   left : SUBSET Instance, i : Instance \cup {NoKeys.i},
                   todo : SUBSET (Key \X Sides), reply : SUBSET (Key \X Sides),
                   batch : SUBSET Key]
    /\ NoKeys.phase = "idle" /\ NoKeys.todo = {} /\ NoKeys.reply = {} /\ NoKeys.batch = {}
<1>1. 1 \in Cluster
  BY Constants DEF Cluster
<1> QED
  BY <1>1 DEF NoKeys

LEMMA KeysInstanceStep == ASSUME WalkState, KeysInstance PROVE WalkState'
<1>1. /\ keys.phase = "next"
      /\ UNCHANGED <<data, hand, walk, steady, outages>>
  BY DEF KeysInstance
<1>2. CASE keys.left = {}
  <2>1. keys' = NoKeys
    BY <1>2 DEF KeysInstance
  <2>2. WalkShape'
    BY <1>1, <2>1, NoKeysFacts DEF WalkState, WalkShape
  <2>3. KeysOK'
    BY <1>1, <2>1, NoKeysFacts DEF WalkState, KeysOK
  <2>4. ASSUME NEW x \in steady, Ahead(x[1], x[2]) \/ Taken(x[2])
        PROVE  Ahead(x[1], x[2])' \/ Taken(x[2])'
    BY <1>1, <1>2, <2>1, <2>4, NoKeysFacts DEF WalkState, KeysOK, Ahead, Taken
  <2>5. Covered'
    BY <1>1, <2>4 DEF WalkState, Covered, NonEmpty, Exists
  <2> QED
    BY <2>2, <2>3, <2>5 DEF WalkState
<1>3. CASE keys.left # {}
  <2>1. PICK i \in keys.left :
          keys' = [keys EXCEPT !.phase = "scan", !.left = @ \ {i}, !.i = i,
                     !.todo = Physical(i), !.batch = {}]
    BY <1>3 DEF KeysInstance
  <2>2. /\ keys'.phase = "scan" /\ keys'.left = keys.left \ {i} /\ keys'.i = i
        /\ keys'.todo = Physical(i) /\ keys'.batch = {} /\ keys'.c = keys.c
        /\ keys'.reply = keys.reply
    BY <2>1 DEF WalkState, WalkShape
  <2>3. WalkShape'
    <3>1. Physical(i) \in SUBSET (Key \X Sides) /\ i \in Instance
      BY DEF Physical, WalkState, WalkShape
    <3> QED
      BY <1>1, <2>1, <3>1 DEF WalkState, WalkShape
  <2>4. KeysOK'
    <3>1. IsFiniteSet({}) /\ Cardinality({}) = 0
      BY FS_EmptySet
    <3> QED
      BY <1>1, <2>2, <3>1, Constants DEF WalkState, KeysOK
  <2>5. ASSUME NEW x \in steady, Ahead(x[1], x[2]) \/ Taken(x[2])
        PROVE  Ahead(x[1], x[2])' \/ Taken(x[2])'
    <3>1. x[2] \in Key
      BY DEF WalkState, Covered, NonEmpty
    <3>2. Home[x[2]] = i => <<x[2], "ins">> \in Physical(i)
      BY <3>1 DEF Physical, Sides
    <3> QED
      BY <1>1, <2>2, <2>5, <3>2 DEF WalkState, KeysOK, Ahead, Taken
  <2>6. Covered'
    BY <1>1, <2>5 DEF WalkState, Covered, NonEmpty, Exists
  <2> QED
    BY <2>3, <2>4, <2>6 DEF WalkState
<1> QED
  BY <1>2, <1>3

LEMMA KeysScanStep == ASSUME WalkState, KeysScan PROVE WalkState'
<1>1. keys.phase = "scan" /\ UNCHANGED <<data, hand, walk, steady, outages>>
  BY DEF KeysScan
<1>2. PICK chunk \in SUBSET keys.todo :
        keys' = [keys EXCEPT !.phase = "reply", !.todo = @ \ chunk,
                   !.reply = {x \in chunk : Exists(keys.c, x)}]
  BY DEF KeysScan
<1> DEFINE found == {x \in chunk : Exists(keys.c, x)}
<1>3. found \in SUBSET (Key \X Sides)
  BY DEF WalkState, WalkShape
<1>4. \A x \in chunk : Exists(keys.c, x) => x \in found
  OBVIOUS
<1> HIDE DEF found
<1>5. keys' = [keys EXCEPT !.phase = "reply", !.todo = @ \ chunk, !.reply = found]
  BY <1>2 DEF found
<1>6. /\ keys'.phase = "reply" /\ keys'.left = keys.left /\ keys'.i = keys.i
      /\ keys'.todo = keys.todo \ chunk /\ keys'.batch = keys.batch /\ keys'.c = keys.c
      /\ keys'.reply = found
  BY <1>5 DEF WalkState, WalkShape
<1>7. WalkShape'
  BY <1>1, <1>3, <1>5 DEF WalkState, WalkShape
<1>8. KeysOK'
  BY <1>1, <1>6 DEF WalkState, KeysOK
<1>9. ASSUME NEW x \in steady, Ahead(x[1], x[2]) \/ Taken(x[2])
      PROVE  Ahead(x[1], x[2])' \/ Taken(x[2])'
  <2>1. Exists(x[1], <<x[2], "ins">>)
    BY DEF WalkState, Covered, NonEmpty
  <2>2. keys.c = x[1] /\ <<x[2], "ins">> \in chunk => <<x[2], "ins">> \in found
    BY <1>4, <2>1
  <2>3. keys.reply = {}
    BY <1>1 DEF WalkState, KeysOK
  <2> QED
    BY <1>1, <1>6, <1>9, <2>2, <2>3 DEF Ahead, Taken
<1>10. Covered'
  BY <1>1, <1>9 DEF WalkState, Covered, NonEmpty, Exists
<1> QED
  BY <1>7, <1>8, <1>10 DEF WalkState

LEMMA KeysScanFailStep == ASSUME WalkState, KeysScanFail PROVE WalkState'
<1>1. UNCHANGED <<data, keys, hand, walk, steady>> /\ outages' \in 0..MaxOutages
  BY Constants DEF KeysScanFail, WalkState, WalkShape
<1>2. WalkShape' /\ KeysOK'
  BY <1>1 DEF WalkState, WalkShape, KeysOK
<1>3. Covered'
  BY <1>1 DEF WalkState, Covered, NonEmpty, Exists, Ahead, Taken
<1> QED
  BY <1>2, <1>3 DEF WalkState

LEMMA KeysEmitStep == ASSUME WalkState, KeysEmit PROVE WalkState'
<1>1. /\ keys.phase = "reply" /\ ~(Cardinality(keys.batch) >= BatchSize)
      /\ UNCHANGED <<data, hand, walk, steady, outages>>
  BY DEF KeysEmit, Full
<1>2. PICK x \in keys.reply :
        keys' = [keys EXCEPT !.reply = @ \ {x},
                   !.batch = IF x[2] = "ins" THEN @ \cup {x[1]} ELSE @]
  BY DEF KeysEmit
<1> DEFINE b == IF x[2] = "ins" THEN keys.batch \cup {x[1]} ELSE keys.batch
<1>3. /\ b \in SUBSET Key /\ keys.batch \subseteq b
      /\ x[2] = "ins" => x[1] \in b
  BY DEF WalkState, WalkShape
<1>4. IsFiniteSet(b) /\ Cardinality(b) <= BatchSize
  <2>1. IsFiniteSet(keys.batch) /\ Cardinality(keys.batch) \in Nat
        /\ Cardinality(keys.batch) < BatchSize
    BY <1>1, FS_CardinalityType, Constants DEF WalkState, KeysOK
  <2>2. /\ IsFiniteSet(keys.batch \cup {x[1]})
        /\ Cardinality(keys.batch \cup {x[1]}) \in
              {Cardinality(keys.batch), Cardinality(keys.batch) + 1}
    BY <2>1, FS_AddElement
  <2> QED
    BY <2>1, <2>2, Constants
<1> HIDE DEF b
<1>5. keys' = [keys EXCEPT !.reply = @ \ {x}, !.batch = b]
  BY <1>2 DEF b
<1>6. /\ keys'.phase = "reply" /\ keys'.left = keys.left /\ keys'.i = keys.i
      /\ keys'.todo = keys.todo /\ keys'.batch = b /\ keys'.c = keys.c
      /\ keys'.reply = keys.reply \ {x}
  BY <1>1, <1>5 DEF WalkState, WalkShape
<1>7. WalkShape'
  BY <1>1, <1>3, <1>5 DEF WalkState, WalkShape
<1>8. KeysOK'
  BY <1>1, <1>4, <1>6 DEF WalkState, KeysOK
<1>9. ASSUME NEW y \in steady, Ahead(y[1], y[2]) \/ Taken(y[2])
      PROVE  Ahead(y[1], y[2])' \/ Taken(y[2])'
  <2>1. x = <<y[2], "ins">> => y[2] \in b
    BY <1>3
  <2> QED
    BY <1>1, <1>3, <1>6, <1>9, <2>1 DEF Ahead, Taken
<1>10. Covered'
  BY <1>1, <1>9 DEF WalkState, Covered, NonEmpty, Exists
<1> QED
  BY <1>7, <1>8, <1>10 DEF WalkState

\* Send and flush hand the batch over.
LEMMA HandOverStep ==
    ASSUME WalkState, UNCHANGED <<data, walk, steady, outages>>,
           \/ keys.phase = "reply" /\ keys' = [keys EXCEPT !.batch = {}]
           \/ keys.phase = "flush" /\ keys' = [keys EXCEPT !.phase = "next", !.batch = {}],
           (hand' = hand /\ keys.batch = {}) \/ (hand' = keys.batch /\ hand = {})
    PROVE  WalkState'
<1>1. /\ keys'.phase = (IF keys.phase = "reply" THEN "reply" ELSE "next")
      /\ keys'.left = keys.left /\ keys'.i = keys.i
      /\ keys'.todo = keys.todo /\ keys'.batch = {} /\ keys'.c = keys.c
      /\ keys'.reply = keys.reply
  BY DEF WalkState, WalkShape
<1>2. WalkShape'
  BY DEF WalkState, WalkShape
<1>3. KeysOK'
  <2>1. IsFiniteSet({}) /\ Cardinality({}) = 0
    BY FS_EmptySet
  <2>2. Cardinality(hand') <= BatchSize
    BY DEF WalkState, KeysOK
  <2> QED
    BY <1>1, <2>1, <2>2, Constants DEF WalkState, KeysOK
<1>4. ASSUME NEW y \in steady, Ahead(y[1], y[2]) \/ Taken(y[2])
      PROVE  Ahead(y[1], y[2])' \/ Taken(y[2])'
  BY <1>1, <1>4 DEF Ahead, Taken
<1>5. Covered'
  BY <1>4 DEF WalkState, Covered, NonEmpty, Exists
<1> QED
  BY <1>2, <1>3, <1>5 DEF WalkState

LEMMA KeysSendStep == ASSUME WalkState, KeysSend PROVE WalkState'
BY HandOverStep DEF KeysSend

LEMMA KeysFlushStep == ASSUME WalkState, KeysFlush PROVE WalkState'
<1>1. /\ keys.batch # {} => hand = {}
      /\ hand' = IF keys.batch # {} THEN keys.batch ELSE hand
  BY DEF KeysFlush
<1>2. (hand' = hand /\ keys.batch = {}) \/ (hand' = keys.batch /\ hand = {})
  BY <1>1
<1> QED
  BY <1>2, HandOverStep DEF KeysFlush

LEMMA KeysReturnStep == ASSUME WalkState, KeysReturn PROVE WalkState'
<1> DEFINE p == IF keys.todo = {} THEN "flush" ELSE "scan"
<1>1. /\ keys.phase = "reply" /\ keys.reply = {} /\ keys' = [keys EXCEPT !.phase = p]
      /\ UNCHANGED <<data, hand, walk, steady, outages>>
  BY DEF KeysReturn
<1>2. p \in {"flush", "scan"} /\ (p = "flush" => keys.todo = {})
  OBVIOUS
<1> HIDE DEF p
<1>3. /\ keys'.phase = p /\ keys'.left = keys.left /\ keys'.i = keys.i
      /\ keys'.todo = keys.todo /\ keys'.batch = keys.batch /\ keys'.c = keys.c
      /\ keys'.reply = keys.reply
  BY <1>1 DEF WalkState, WalkShape
<1>4. WalkShape'
  BY <1>1, <1>2 DEF WalkState, WalkShape
<1>5. KeysOK'
  BY <1>1, <1>2, <1>3 DEF WalkState, KeysOK
<1>6. ASSUME NEW y \in steady, Ahead(y[1], y[2]) \/ Taken(y[2])
      PROVE  Ahead(y[1], y[2])' \/ Taken(y[2])'
  BY <1>1, <1>2, <1>3, <1>6 DEF Ahead, Taken
<1>7. Covered'
  BY <1>1, <1>6 DEF WalkState, Covered, NonEmpty, Exists
<1> QED
  BY <1>4, <1>5, <1>7 DEF WalkState
-----------------------------------------------------------------------------
(***************************************************************************)
(* walkOnce, and the writes it meets.                                      *)
(***************************************************************************)
LEMMA WalkStartStep == ASSUME WalkState, WalkStart PROVE WalkState'
<1>1. /\ walk' = [NoWalk EXCEPT !.phase = "walking", !.left = Cluster]
      /\ steady' = NonEmpty /\ UNCHANGED <<data, keys, hand, outages>>
  BY DEF WalkStart
<1>2. /\ walk'.left = Cluster /\ walk'.batch = {} /\ walk'.need = {}
      /\ walk' \in [phase : {"idle", "walking"}, left : SUBSET Cluster, batch : SUBSET Key,
                    need : SUBSET (Cluster \X Instance), walked : SUBSET Key]
  BY <1>1 DEF NoWalk
<1>3. WalkShape' /\ KeysOK'
  BY <1>1, <1>2 DEF WalkState, WalkShape, KeysOK
<1>4. Covered'
  BY <1>1, <1>2 DEF Covered, NonEmpty, Exists, Ahead
<1> QED
  BY <1>3, <1>4 DEF WalkState

LEMMA ScanClusterStep == ASSUME WalkState, ScanCluster PROVE WalkState'
<1>1. keys.phase = "idle" /\ hand = {} /\ UNCHANGED <<data, hand, steady, outages>>
  BY DEF ScanCluster
<1>2. PICK c \in walk.left :
        /\ walk' = [walk EXCEPT !.left = @ \ {c}]
        /\ keys' = [NoKeys EXCEPT !.phase = "next", !.c = c, !.left = Instance]
  BY DEF ScanCluster
<1>3. /\ walk'.left = walk.left \ {c} /\ walk'.batch = walk.batch /\ walk'.need = walk.need
      /\ walk'.walked = walk.walked /\ walk'.phase = walk.phase
  BY <1>2 DEF WalkState, WalkShape
<1>4. /\ keys'.phase = "next" /\ keys'.c = c /\ keys'.left = Instance
      /\ keys'.todo = {} /\ keys'.reply = {} /\ keys'.batch = {}
  BY <1>2, NoKeysFacts
<1>5. WalkShape'
  <2>1. c \in Cluster
    BY DEF WalkState, WalkShape
  <2>2. keys' \in [phase : {"idle", "next", "scan", "reply", "flush"}, c : Cluster,
                   left : SUBSET Instance, i : Instance \cup {NoKeys.i},
                   todo : SUBSET (Key \X Sides), reply : SUBSET (Key \X Sides),
                   batch : SUBSET Key]
    BY <1>2, <2>1, NoKeysFacts
  <2>3. walk' \in [phase : {"idle", "walking"}, left : SUBSET Cluster, batch : SUBSET Key,
                   need : SUBSET (Cluster \X Instance), walked : SUBSET Key]
    BY <1>2 DEF WalkState, WalkShape
  <2> QED
    BY <1>1, <2>2, <2>3 DEF WalkState, WalkShape
<1>6. KeysOK'
  <2>1. IsFiniteSet({}) /\ Cardinality({}) = 0
    BY FS_EmptySet
  <2> QED
    BY <1>1, <1>3, <1>4, <2>1, Constants DEF WalkState, KeysOK
<1>7. ASSUME NEW y \in steady, Ahead(y[1], y[2]) \/ Taken(y[2])
      PROVE  Ahead(y[1], y[2])' \/ Taken(y[2])'
  <2>1. Home[y[2]] \in Instance
    BY Constants DEF WalkState, Covered, NonEmpty
  <2>2. keys.batch = {}
    BY <1>1 DEF WalkState, KeysOK
  <2> QED
    BY <1>1, <1>3, <1>4, <1>7, <2>1, <2>2 DEF Ahead, Taken
<1>8. Covered'
  BY <1>1, <1>3, <1>7 DEF WalkState, Covered, NonEmpty, Exists
<1> QED
  BY <1>5, <1>6, <1>8 DEF WalkState

LEMMA WalkEndStep == ASSUME WalkState, WalkEnd PROVE WalkState'
<1>1. walk' = NoWalk /\ UNCHANGED <<data, keys, hand, steady, outages>>
  BY DEF WalkEnd
<1>2. /\ walk'.phase = "idle" /\ walk'.batch = {} /\ walk'.need = {}
      /\ walk' \in [phase : {"idle", "walking"}, left : SUBSET Cluster, batch : SUBSET Key,
                    need : SUBSET (Cluster \X Instance), walked : SUBSET Key]
  BY <1>1 DEF NoWalk
<1>3. WalkShape' /\ KeysOK'
  BY <1>1, <1>2 DEF WalkState, WalkShape, KeysOK
<1>4. Covered'
  BY <1>1, <1>2 DEF WalkState, Covered, NonEmpty, Exists
<1> QED
  BY <1>3, <1>4 DEF WalkState

LEMMA WalkReceiveStep == ASSUME WalkState, WalkReceive PROVE WalkState'
<1> DEFINE need == Cluster \X {Home[k] : k \in hand}
<1>1. /\ hand # {} /\ walk.batch = {} /\ hand' = {}
      /\ walk' = [walk EXCEPT !.batch = hand, !.need = need]
      /\ UNCHANGED <<data, keys, steady, outages>>
  BY DEF WalkReceive
<1>2. need \in SUBSET (Cluster \X Instance) /\ need # {}
  <2>1. 1 \in Cluster
    BY Constants DEF Cluster
  <2>2. PICK k \in hand : TRUE
    BY <1>1
  <2>3. hand \subseteq Key
    BY DEF WalkState, WalkShape
  <2>4. need \subseteq Cluster \X Instance
    BY <2>3, Constants
  <2>5. <<1, Home[k]>> \in need
    BY <2>1
  <2> QED
    BY <2>4, <2>5
<1> HIDE DEF need
<1>3. /\ walk'.left = walk.left /\ walk'.batch = hand /\ walk'.need = need
      /\ walk'.walked = walk.walked /\ walk'.phase = walk.phase
  BY <1>1 DEF WalkState, WalkShape
<1>4. WalkShape'
  BY <1>1, <1>2 DEF WalkState, WalkShape
<1>5. KeysOK'
  <2>1. Cardinality({}) = 0
    BY FS_EmptySet
  <2> QED
    BY <1>1, <1>2, <1>3, <2>1, Constants DEF WalkState, KeysOK
<1>6. ASSUME NEW y \in steady, Ahead(y[1], y[2]) \/ Taken(y[2])
      PROVE  Ahead(y[1], y[2])' \/ Taken(y[2])'
  BY <1>1, <1>3, <1>6 DEF Ahead, Taken
<1>7. Covered'
  BY <1>1, <1>3, <1>6 DEF WalkState, Covered, NonEmpty, Exists
<1> QED
  BY <1>4, <1>5, <1>7 DEF WalkState

LEMMA WalkSelectStep ==
    ASSUME WalkState, NEW c \in Cluster, NEW i \in Instance, WalkSelect(c, i)
    PROVE  WalkState'
<1> DEFINE need == walk.need \ {<<c, i>>}
           walked == IF need = {} THEN walk.walked \cup walk.batch ELSE walk.walked
           batch == IF need = {} THEN {} ELSE walk.batch
<1>1. /\ <<c, i>> \in walk.need
      /\ walk' = [walk EXCEPT !.need = need, !.walked = walked, !.batch = batch]
      /\ UNCHANGED <<data, keys, hand, steady, outages>>
  BY DEF WalkSelect
<1>2. /\ need \in SUBSET (Cluster \X Instance) /\ walked \in SUBSET Key
      /\ batch \in SUBSET Key
  BY DEF WalkState, WalkShape
<1>3. (batch = {} <=> need = {}) /\ walked \cup batch = walk.walked \cup walk.batch
  <2>1. walk.batch # {}
    BY <1>1 DEF WalkState, KeysOK
  <2> QED
    BY <2>1
<1> HIDE DEF need, walked, batch
<1>4. /\ walk'.left = walk.left /\ walk'.batch = batch /\ walk'.need = need
      /\ walk'.walked = walked /\ walk'.phase = walk.phase
  BY <1>1 DEF WalkState, WalkShape
<1>5. WalkShape'
  BY <1>1, <1>2 DEF WalkState, WalkShape
<1>6. KeysOK'
  BY <1>1, <1>3, <1>4 DEF WalkState, KeysOK
<1>7. ASSUME NEW y \in steady, Ahead(y[1], y[2]) \/ Taken(y[2])
      PROVE  Ahead(y[1], y[2])' \/ Taken(y[2])'
  <2>1. y[2] \in walk.walked \cup walk.batch => y[2] \in walked \cup batch
    BY <1>3
  <2> QED
    BY <1>1, <1>4, <1>7, <2>1 DEF Ahead, Taken
<1>8. Covered'
  BY <1>1, <1>4, <1>7 DEF WalkState, Covered, NonEmpty, Exists
<1> QED
  BY <1>5, <1>6, <1>8 DEF WalkState

LEMMA WalkWriteStep == ASSUME WalkState, WalkWrite PROVE WalkState'
<1>1. UNCHANGED <<keys, hand, walk, outages>> /\ steady' = steady \cap NonEmpty'
  BY DEF WalkWrite
<1>2. WalkShape' /\ KeysOK'
  BY <1>1 DEF WalkState, WalkShape, KeysOK
<1>3. Covered'
  BY <1>1 DEF WalkState, Covered, Ahead, Taken
<1> QED
  BY <1>2, <1>3 DEF WalkState

\* Every step of the walker keeps the state of the walk, and the clusters' type.
LEMMA WalkStep ==
    ASSUME StoreTypeOK, WalkState, WalkNext PROVE WalkState' /\ StoreTypeOK'
<1>1. CASE KeysNext
  <2>1. WalkState'
    BY <1>1, KeysInstanceStep, KeysScanStep, KeysEmitStep, KeysSendStep, KeysReturnStep,
       KeysFlushStep DEF KeysNext
  <2>2. UNCHANGED data
    BY <1>1 DEF KeysNext, KeysInstance, KeysScan, KeysEmit, KeysSend, KeysReturn, KeysFlush
  <2> QED
    BY <2>1, <2>2 DEF StoreTypeOK
<1>2. CASE KeysScanFail
  BY <1>2, KeysScanFailStep DEF KeysScanFail, StoreTypeOK
<1>3. CASE WalkOnce
  <2>1. WalkState'
    BY <1>3, WalkStartStep, ScanClusterStep, WalkEndStep, WalkReceiveStep, WalkSelectStep
       DEF WalkOnce
  <2>2. UNCHANGED data
    BY <1>3 DEF WalkOnce, WalkStart, ScanCluster, WalkEnd, WalkReceive, WalkSelect
  <2> QED
    BY <2>1, <2>2 DEF StoreTypeOK
<1>4. CASE WalkWrite
  <2>1. PICK w \in WalkWrites : Write(w)
    BY <1>4 DEF WalkWrite
  <2>2. w \in Command
    BY Constants
  <2> QED
    BY <1>4, <2>1, <2>2, WriteType, WalkWriteStep
<1> QED
  BY <1>1, <1>2, <1>3, <1>4 DEF WalkNext

LEMMA WalkBegins == ASSUME WalkInit PROVE WalkState /\ steady = {}
<1>1. keys = NoKeys /\ hand = {} /\ walk = NoWalk /\ steady = {} /\ outages = 0
  BY DEF WalkInit
<1>2. WalkShape
  <2>1. NoWalk \in [phase : {"idle", "walking"}, left : SUBSET Cluster, batch : SUBSET Key,
                    need : SUBSET (Cluster \X Instance), walked : SUBSET Key]
    BY DEF NoWalk
  <2> QED
    BY <1>1, <2>1, NoKeysFacts, Constants DEF WalkShape
<1>3. KeysOK
  <2>1. IsFiniteSet({}) /\ Cardinality({}) = 0
    BY FS_EmptySet
  <2> QED
    BY <1>1, <2>1, NoKeysFacts, Constants DEF KeysOK, NoWalk
<1>4. Covered
  BY <1>1 DEF Covered
<1> QED
  BY <1>1, <1>2, <1>3, <1>4 DEF WalkState
-----------------------------------------------------------------------------
(***************************************************************************)
(* Cursors, and what an instance answers.                                  *)
(***************************************************************************)
LEMMA PrecedesOrder ==
    ASSUME NEW a \in Cursor, NEW b \in Cursor
    PROVE  /\ Precedes(a, b) \/ Precedes(b, a) \/ a = b
           /\ Precedes(a, b) => ~Precedes(b, a) /\ a # b /\ a[1] >= b[1]
           /\ \A c \in Cursor : Precedes(a, b) /\ Precedes(b, c) => Precedes(a, c)
           /\ \A c \in Cursor : ~Precedes(b, a) /\ Precedes(b, c) => Precedes(a, c)
           /\ \A c \in Cursor : Precedes(a, b) /\ ~Precedes(c, b) => Precedes(a, c)
<1>1. /\ a = <<a[1], a[2]>> /\ b = <<b[1], b[2]>>
      /\ a[1] \in Int /\ a[2] \in Int /\ b[1] \in Int /\ b[2] \in Int
      /\ \A c \in Cursor : c[1] \in Int /\ c[2] \in Int
  BY DEF Cursor
<1>2. Precedes(a, b) \/ Precedes(b, a) \/ (a[1] = b[1] /\ a[2] = b[2])
  BY <1>1 DEF Precedes
<1>3. Precedes(a, b) => ~Precedes(b, a) /\ a[1] >= b[1] /\ ~(a[1] = b[1] /\ a[2] = b[2])
  BY <1>1 DEF Precedes
<1>4. \A c \in Cursor : Precedes(a, b) /\ Precedes(b, c) => Precedes(a, c)
  BY <1>1 DEF Precedes
<1>5. \A c \in Cursor : ~Precedes(b, a) /\ Precedes(b, c) => Precedes(a, c)
  BY <1>1 DEF Precedes
<1>6. \A c \in Cursor : Precedes(a, b) /\ ~Precedes(c, b) => Precedes(a, c)
  BY <1>1 DEF Precedes
<1> QED
  BY <1>1, <1>2, <1>3, <1>4, <1>5, <1>6

\* A member's place in a sorted set; the set ranks its members by it.
LEMMA RankIsPlace ==
    ASSUME NEW z \in ZSet
    PROVE  /\ \A m \in DOMAIN z : <<z[m], m>> \in Cursor
           /\ \A a, b \in DOMAIN z : Above(z, a, b) <=> Precedes(<<z[a], a>>, <<z[b], b>>)
<1>1. \A m \in DOMAIN z : m \in Int /\ z[m] \in Int
  BY ZSetFacts, LWWSetAssumption
<1> QED
  BY <1>1 DEF Above, Precedes, Cursor

\* Part of a sorted set is one.
LEMMA PartOfZSet ==
    ASSUME NEW z \in ZSet, NEW D \in SUBSET DOMAIN z
    PROVE  [m \in D |-> z[m]] \in ZSet
<1>1. D \subseteq Member /\ \A m \in D : z[m] \in Score
  BY ZSetFacts
<1> DEFINE r == [m \in D |-> z[m]]
<1>2. DOMAIN r = D /\ r = [m \in DOMAIN r |-> r[m]] /\ \A m \in D : r[m] = z[m]
  OBVIOUS
<1> HIDE DEF r
<1>3. r \in ZSet
  BY <1>1, <1>2, ZSetFacts
<1> QED
  BY <1>3 DEF r

LEMMA TopPart ==
    ASSUME NEW z \in ZSet, NEW n
    PROVE  /\ DOMAIN ZTop(z, n) \subseteq DOMAIN z
           /\ \A m \in DOMAIN ZTop(z, n) : ZTop(z, n)[m] = z[m]
BY DEF ZTop

\* The elements of an inserts set between the cursors.
Between(z) == {m \in DOMAIN z : pastStart(<<z[m], m>>) /\ beforeStop(<<z[m], m>>)}

\* Those that stand at the cursor or before it with its score.
Crowd(z) == {m \in DOMAIN z : z[m] = pager.start[1] /\ m >= pager.start[2]}

\* The n highest elements that an instance returns of set z: nothing that is past
\* the cursor, and not returned, is above any of them.
LEMMA ValuesFacts ==
    ASSUME pager.start \in Cursor, NEW z \in ZSet, NEW n \in Nat
    PROVE  /\ Values(z, n) \in ZSet
           /\ DOMAIN Values(z, n) \subseteq DOMAIN z
           /\ \A m \in DOMAIN Values(z, n) : Values(z, n)[m] = z[m] /\ z[m] <= pager.start[1]
           /\ \A x \in DOMAIN z : pastStart(<<z[x], x>>) /\ x \notin DOMAIN Values(z, n) =>
                /\ Cardinality(DOMAIN Values(z, n)) >= n
                /\ \A m \in DOMAIN Values(z, n) : Precedes(<<z[m], m>>, <<z[x], x>>)
<1> DEFINE D == {x \in DOMAIN z : z[x] <= pager.start[1]}
           z1 == [m \in D |-> z[m]]
<1>1. z1 \in ZSet /\ DOMAIN z1 = D /\ \A m \in D : z1[m] = z[m]
  BY PartOfZSet
<1>2. Values(z, n) = ZTop(z1, n)
  BY DEF Values
<1>3. \A x \in DOMAIN z : pastStart(<<z[x], x>>) => x \in D
  <2> SUFFICES ASSUME NEW x \in DOMAIN z, pastStart(<<z[x], x>>) PROVE z[x] <= pager.start[1]
    OBVIOUS
  <2>1. <<z[x], x>> \in Cursor /\ Precedes(pager.start, <<z[x], x>>)
    BY RankIsPlace DEF pastStart
  <2>2. pager.start[1] \in Int /\ z[x] \in Int /\ pager.start[1] >= z[x]
    BY <2>1, PrecedesOrder DEF Cursor
  <2> QED
    BY <2>2
<1>4. \A m \in D : m \in DOMAIN z /\ z[m] <= pager.start[1]
  OBVIOUS
<1> HIDE DEF z1, D
<1>5. /\ ZTop(z1, n) \in ZSet /\ DOMAIN ZTop(z1, n) \subseteq D
      /\ \A m \in DOMAIN ZTop(z1, n) : ZTop(z1, n)[m] = z[m]
  BY <1>1, ZType, TopPart
<1>6. ASSUME NEW x \in DOMAIN z, pastStart(<<z[x], x>>), x \notin DOMAIN ZTop(z1, n)
      PROVE  /\ Cardinality(DOMAIN ZTop(z1, n)) >= n
             /\ \A m \in DOMAIN ZTop(z1, n) : Precedes(<<z[m], m>>, <<z[x], x>>)
  <2>1. x \in DOMAIN z1
    BY <1>1, <1>3, <1>6
  <2>2. /\ Cardinality(DOMAIN ZTop(z1, n)) >= n
        /\ \A m \in DOMAIN ZTop(z1, n) : Above(z1, m, x)
    BY <1>1, <1>6, <2>1, TopFull
  <2> QED
    BY <1>1, <1>5, <2>1, <2>2, RankIsPlace
<1> QED
  BY <1>2, <1>4, <1>5, <1>6

\* The page made of an answer z to a request for n of set z0.
LEMMA AnswerFacts ==
    ASSUME pager.start \in Cursor, pager.stop \in Cursor, NEW z0 \in ZSet, NEW n \in Nat,
           NEW z, z = Values(z0, n)
    PROVE  /\ Validated(z) \in ZSet
           /\ ZTop(Validated(z), PageLimit) \in ZSet
           /\ \A m \in DOMAIN ZTop(Validated(z), PageLimit) :
                /\ m \in Between(z0)
                /\ ZTop(Validated(z), PageLimit)[m] = z0[m]
           /\ Conclusive(z, n) =>
                /\ \A m \in DOMAIN ZTop(Validated(z), PageLimit),
                      x \in Between(z0) \ DOMAIN ZTop(Validated(z), PageLimit) :
                        Precedes(<<z0[m], m>>, <<z0[x], x>>)
                /\ \/ DOMAIN ZTop(Validated(z), PageLimit) = Between(z0)
                   \/ Cardinality(DOMAIN ZTop(Validated(z), PageLimit)) = PageLimit
           /\ ~Conclusive(z, n) => Cardinality(Crowd(z0)) > n - PageLimit
<1> DEFINE v == Validated(z)
           page == ZTop(v, PageLimit)
<1>1. /\ z \in ZSet /\ DOMAIN z \subseteq DOMAIN z0
      /\ \A m \in DOMAIN z : z[m] = z0[m] /\ z0[m] <= pager.start[1]
      /\ \A x \in DOMAIN z0 : pastStart(<<z0[x], x>>) /\ x \notin DOMAIN z =>
           /\ Cardinality(DOMAIN z) >= n
           /\ \A m \in DOMAIN z : Precedes(<<z0[m], m>>, <<z0[x], x>>)
  BY ValuesFacts
<1>2. /\ v \in ZSet /\ DOMAIN v = Between(z)
      /\ \A m \in DOMAIN v : v[m] = z[m]
  BY <1>1, PartOfZSet DEF Validated, Between
<1>3. DOMAIN v = Between(z0) \cap DOMAIN z /\ \A m \in DOMAIN v : v[m] = z0[m]
  BY <1>1, <1>2 DEF Between
<1> HIDE DEF v
<1>4. /\ page \in ZSet /\ DOMAIN page \subseteq DOMAIN v
      /\ \A m \in DOMAIN page : page[m] = z0[m]
  BY <1>2, <1>3, ZType, TopPart
<1>5. \A m \in DOMAIN page : m \in Between(z0)
  BY <1>3, <1>4
<1>6. PageLimit \in Nat \ {0}
  BY Constants
<1>7. /\ IsFiniteSet(DOMAIN z) /\ IsFiniteSet(DOMAIN v) /\ IsFiniteSet(DOMAIN page)
      /\ Cardinality(DOMAIN z) \in Nat /\ Cardinality(DOMAIN v) \in Nat
      /\ Cardinality(DOMAIN page) \in Nat
  BY <1>1, <1>2, <1>4, ZFinite
<1>8. Cardinality(DOMAIN page) <= PageLimit
  BY <1>2, <1>6, TopBounded
<1>9. ASSUME NEW x \in DOMAIN v, x \notin DOMAIN page
      PROVE  /\ Cardinality(DOMAIN page) >= PageLimit
             /\ \A m \in DOMAIN page : Precedes(<<z0[m], m>>, <<z0[x], x>>)
  <2>1. /\ Cardinality(DOMAIN page) >= PageLimit
        /\ \A m \in DOMAIN page : Above(v, m, x)
    BY <1>2, <1>6, <1>9, TopFull
  <2> QED
    BY <1>2, <1>3, <1>4, <2>1, RankIsPlace
<1>10. \A m \in DOMAIN z0 : <<z0[m], m>> \in Cursor
  BY RankIsPlace
<1>11. ASSUME NEW m \in DOMAIN page, NEW x \in Between(z0) \ DOMAIN page
       PROVE  Precedes(<<z0[m], m>>, <<z0[x], x>>)
  <2>1. CASE x \in DOMAIN z
    BY <1>3, <1>9, <1>11, <2>1
  <2>2. CASE x \notin DOMAIN z
    <3>1. m \in DOMAIN z /\ x \in DOMAIN z0 /\ pastStart(<<z0[x], x>>)
      BY <1>3, <1>4 DEF Between
    <3> QED
      BY <1>1, <2>2, <3>1
  <2> QED
    BY <2>1, <2>2
<1>12. ASSUME Conclusive(z, n)
       PROVE  DOMAIN page = Between(z0) \/ Cardinality(DOMAIN page) = PageLimit
  <2>1. DOMAIN page = DOMAIN v \/ Cardinality(DOMAIN page) = PageLimit
    <3>1. CASE \E x \in DOMAIN v : x \notin DOMAIN page
      <4>1. Cardinality(DOMAIN page) >= PageLimit
        BY <1>9, <3>1
      <4> QED
        BY <1>6, <1>7, <1>8, <4>1
    <3>2. CASE ~ \E x \in DOMAIN v : x \notin DOMAIN page
      BY <1>4, <3>2
    <3> QED
      BY <3>1, <3>2
  <2>2. CASE Cardinality(DOMAIN v) >= PageLimit
    BY <1>6, <1>7, <1>8, <2>1, <2>2
  <2>3. CASE Cardinality(DOMAIN z) < n
    <3>1. \A x \in DOMAIN z0 : pastStart(<<z0[x], x>>) => x \in DOMAIN z
      <4>1. ~(Cardinality(DOMAIN z) >= n)
        BY <1>7, <2>3
      <4> QED
        BY <1>1, <4>1
    <3>2. Between(z0) \subseteq DOMAIN z
      BY <3>1 DEF Between
    <3> QED
      BY <1>3, <2>1, <3>2
  <2>4. CASE hitStop(z)
    <3>1. PICK m \in DOMAIN z : pastStart(<<z[m], m>>) /\ ~beforeStop(<<z[m], m>>)
      BY <2>4 DEF hitStop
    <3>2. m \in DOMAIN z0 /\ <<z0[m], m>> \in Cursor /\ ~Precedes(<<z0[m], m>>, pager.stop)
      BY <1>1, <1>10, <3>1 DEF beforeStop
    <3>3. ASSUME NEW x \in Between(z0), x \notin DOMAIN z PROVE FALSE
      <4>1. /\ x \in DOMAIN z0 /\ pastStart(<<z0[x], x>>) /\ <<z0[x], x>> \in Cursor
            /\ Precedes(<<z0[x], x>>, pager.stop)
        BY <1>10 DEF Between, beforeStop
      <4>2. Precedes(<<z0[m], m>>, <<z0[x], x>>)
        BY <1>1, <3>1, <3>3, <4>1
      <4>3. Precedes(<<z0[m], m>>, pager.stop)
        BY <3>2, <4>1, <4>2, PrecedesOrder
      <4> QED
        BY <3>2, <4>3
    <3> QED
      BY <1>3, <2>1, <3>3
  <2> QED
    BY <1>12, <2>2, <2>3, <2>4 DEF Conclusive, v
<1>13. ASSUME ~Conclusive(z, n) PROVE Cardinality(Crowd(z0)) > n - PageLimit
  <2>1. /\ ~(Cardinality(DOMAIN v) >= PageLimit) /\ ~(Cardinality(DOMAIN z) < n)
        /\ ~hitStop(z)
    BY <1>13 DEF Conclusive, v
  <2>2. DOMAIN z \ DOMAIN v \subseteq Crowd(z0)
    <3> SUFFICES ASSUME NEW m \in DOMAIN z, m \notin DOMAIN v PROVE m \in Crowd(z0)
      OBVIOUS
    <3>1. m \in DOMAIN z0 /\ z[m] = z0[m] /\ z0[m] <= pager.start[1]
      BY <1>1
    <3>2. ~pastStart(<<z0[m], m>>)
      BY <1>2, <2>1, <3>1 DEF hitStop, Between
    <3>3. z0[m] \in Int /\ m \in Int /\ pager.start[1] \in Int /\ pager.start[2] \in Int
      BY <1>10, <3>1 DEF Cursor
    <3>4. ~(pager.start[1] > z0[m]) /\ ~(pager.start[1] = z0[m] /\ pager.start[2] > m)
      BY <3>2 DEF pastStart, Precedes
    <3> QED
      BY <3>1, <3>3, <3>4 DEF Crowd
  <2>3. IsFiniteSet(Crowd(z0)) /\ Cardinality(Crowd(z0)) \in Nat
    BY ZFinite DEF Crowd
  <2>4. Cardinality(DOMAIN z \ DOMAIN v) \in Nat
        /\ Cardinality(DOMAIN z \ DOMAIN v) <= Cardinality(Crowd(z0))
    BY <2>2, <2>3, FS_Subset, FS_CardinalityType
  <2>5. Cardinality(DOMAIN z \ DOMAIN v)
          = Cardinality(DOMAIN z) - Cardinality(DOMAIN z \cap DOMAIN v)
    BY <1>7, FS_Difference
  <2>6. DOMAIN z \cap DOMAIN v = DOMAIN v
    BY <1>3
  <2> QED
    BY <1>6, <1>7, <2>1, <2>3, <2>4, <2>5, <2>6
<1> QED
  BY <1>2, <1>4, <1>5, <1>11, <1>12, <1>13 DEF v
-----------------------------------------------------------------------------
(***************************************************************************)
(* What is known of the pager and its pipelines.                           *)
(***************************************************************************)
PagerType == [phase : {"idle", "next", "wait", "done", "error"}, one : BOOLEAN,
              keys : SUBSET Key, start : Cursor, stop : Cursor, asked : SUBSET Cluster,
              given : SUBSET Element, twice : SUBSET Element, blind : BOOLEAN]

PagingShape ==
    /\ pager \in PagerType /\ IsFiniteSet(pager.keys) /\ pager.twice \subseteq pager.given
    /\ stable \in SUBSET Element
    /\ errors \in 0..MaxErrors

Pages == UNION {[D -> ZSet] : D \in SUBSET Key}

Pipe == [state : {"idle", "run", "ok", "exhausted", "failed"}, todo : SUBSET Key,
         retry : SUBSET Key, pages : Pages, limit : Nat, attempt : 0..MaxAttempts]

\* Pipeline q of instance i on cluster c: it runs while commands are out, and
\* of each key asked for it has a page or asks again.
PipeOK(c, i, q) ==
    /\ q \in Pipe
    /\ q.state = "run" <=> q.todo # {}
    /\ q.todo \cap (q.retry \cup DOMAIN q.pages) = {}
    /\ q.retry \cap DOMAIN q.pages = {}
    /\ pager.phase # "wait" \/ c \notin pager.asked => q = NoPipe
    /\ q.state \in {"run", "ok"} =>
         q.todo \cup q.retry \cup DOMAIN q.pages = {k \in pager.keys : Home[k] = i}
    /\ q.state = "ok" => q.retry = {}

PipesOK ==
    /\ pipe \in [Cluster -> [Instance -> Pipe]]
    /\ \A c \in Cluster, i \in Instance : PipeOK(c, i, pipe[c][i])

\* A page of key k lies between the cursors; what all clusters hold throughout is on
\* it or, the page being full, after it.
PageOK(k, page) ==
    /\ page \in ZSet
    /\ \A m \in DOMAIN page : pastStart(<<page[m], m>>) /\ beforeStop(<<page[m], m>>)
    /\ \A x \in stable : x[1] = k /\ pastStart(Place(x)) /\ beforeStop(Place(x)) =>
         \/ x[3] \in DOMAIN page /\ page[x[3]] = x[2]
         \/ /\ Cardinality(DOMAIN page) = PageLimit /\ x[3] \notin DOMAIN page
            /\ \A m \in DOMAIN page : Precedes(<<page[m], m>>, Place(x))

PagesOK == \A c \in Cluster, i \in Instance : \A k \in DOMAIN pipe[c][i].pages :
              PageOK(k, pipe[c][i].pages[k])

StableOK ==
    /\ stable \subseteq Held /\ \A x \in stable : x[1] \in pager.keys
    /\ pager.phase = "idle" => pager.given = {} /\ pager.start = Top
    /\ pager.phase = "wait" =>
         IF pager.one THEN \E c \in Cluster : pager.asked = {c} ELSE pager.asked = Cluster

\* The cursor is the place of an element given, and nothing given is after it,
\* but by the member when equal scores are in no order.
GivenOK ==
    /\ pager.given # {} => \E x \in pager.given : pager.start = Place(x)
    /\ \A y \in pager.given :
         /\ y[2] >= pager.start[1]
         /\ pager.one \/ coalesce => ~Precedes(pager.start, Place(y))

PagingState ==
    /\ PagingShape /\ PipesOK /\ PagesOK /\ StableOK /\ GivenOK
    /\ NothingSkipped /\ ListsEverything /\ TwiceOnlyIfTied

LEMMA PlaceType == \A x \in Element : Place(x) \in Cursor /\ Place(x)[1] = x[2] /\ Place(x)[2] = x[3]
  BY Constants DEF Element, Place, Cursor

LEMMA TopType == Top \in Cursor
<1> DEFINE s == CHOOSE s \in Score : \A t \in Score : t <= s
<1>1. s \in Score
  BY PagingAssumption
<1> HIDE DEF s
<1>2. s \in Int
  BY <1>1, Constants
<1>3. Top = <<s + 1, 0>>
  BY DEF Top, s
<1> QED
  BY <1>2, <1>3 DEF Cursor

\* A map of pages with one more.
LEMMA AddPage ==
    ASSUME NEW f \in Pages, NEW k \in Key, NEW page \in ZSet,
           NEW g, g = [x \in DOMAIN f \cup {k} |-> IF x = k THEN page ELSE f[x]]
    PROVE  /\ g \in Pages /\ DOMAIN g = DOMAIN f \cup {k}
           /\ g[k] = page /\ \A x \in DOMAIN f : x # k => g[x] = f[x]
<1>1. PICK D \in SUBSET Key : f \in [D -> ZSet]
  BY DEF Pages
<1>2. DOMAIN f = D /\ \A x \in D : f[x] \in ZSet
  BY <1>1
<1>3. g \in [D \cup {k} -> ZSet]
  BY <1>2
<1>4. D \cup {k} \in SUBSET Key
  OBVIOUS
<1> QED
  BY <1>3, <1>4 DEF Pages

LEMMA NoPipeFacts ==
    /\ NoPipe \in Pipe /\ DOMAIN NoPipe.pages = {} /\ NoPipe.state = "idle"
    /\ NoPipe.todo = {} /\ NoPipe.retry = {}
<1>1. NoPages \in Pages /\ DOMAIN NoPages = {}
  <2>1. NoPages \in [{} -> ZSet] /\ {} \in SUBSET Key
    BY DEF NoPages
  <2> QED
    BY <2>1 DEF Pages, NoPages
<1> QED
  BY <1>1, Constants DEF NoPipe, Pipe

LEMMA NoPipeOK == ASSUME NEW c, NEW i PROVE PipeOK(c, i, NoPipe)
  BY NoPipeFacts DEF PipeOK

\* The end of an attempt keeps the pages, and the keys.
LEMMA EndAttemptFacts ==
    ASSUME NEW q \in Pipe, q.state = "run",
           q.todo \cap (q.retry \cup DOMAIN q.pages) = {}, q.retry \cap DOMAIN q.pages = {},
           NEW e, e = EndAttempt(q)
    PROVE  /\ e \in Pipe /\ e.pages = q.pages /\ e.state # "failed" /\ e.state # "idle"
           /\ e.state = "run" <=> e.todo # {}
           /\ e.todo \cap (e.retry \cup DOMAIN e.pages) = {}
           /\ e.retry \cap DOMAIN e.pages = {}
           /\ e.todo \cup e.retry = q.todo \cup q.retry
           /\ e.state = "ok" => e.retry = {}
<1>1. Grown(q.limit) \in Nat
  <2>1. q.limit \in Nat
    BY DEF Pipe
  <2>2. 2 * q.limit \in Nat /\ q.limit + Step \in Nat
    BY <2>1, Constants
  <2> QED
    BY <2>1, <2>2, Constants DEF Grown
<1>2. q.attempt # MaxAttempts => q.attempt + 1 \in 0..MaxAttempts
  BY Constants DEF Pipe
<1>3. CASE q.todo # {}
  BY <1>3 DEF EndAttempt
<1>4. CASE q.todo = {} /\ q.retry = {}
  <2>1. e = [q EXCEPT !.state = "ok"]
    BY <1>4 DEF EndAttempt
  <2> QED
    BY <1>4, <2>1 DEF Pipe
<1>5. CASE q.todo = {} /\ q.retry # {} /\ q.attempt = MaxAttempts
  <2>1. e = [q EXCEPT !.state = "exhausted"]
    BY <1>5 DEF EndAttempt
  <2> QED
    BY <1>5, <2>1 DEF Pipe
<1>6. CASE q.todo = {} /\ q.retry # {} /\ q.attempt # MaxAttempts
  <2>1. e = [q EXCEPT !.todo = q.retry, !.retry = {}, !.attempt = @ + 1, !.limit = Grown(@)]
    BY <1>6 DEF EndAttempt
  <2>2. /\ e.todo = q.retry /\ e.retry = {} /\ e.pages = q.pages /\ e.state = "run"
        /\ e \in Pipe
    BY <1>1, <1>2, <1>6, <2>1 DEF Pipe
  <2> QED
    BY <1>6, <2>2
<1> QED
  BY <1>3, <1>4, <1>5, <1>6
-----------------------------------------------------------------------------
(***************************************************************************)
(* The steps between two pages.                                            *)
(***************************************************************************)
\* What is known of the listing stays as long as the client is given nothing.
LEMMA ListingStays ==
    ASSUME PagingState, stable' \subseteq stable,
           pager'.one = pager.one, pager'.keys = pager.keys, pager'.start = pager.start,
           pager'.stop = pager.stop, pager'.given = pager.given,
           pager'.twice = pager.twice, pager'.blind = pager.blind,
           pager'.phase = "done" => pager.phase = "done"
    PROVE  GivenOK' /\ NothingSkipped' /\ ListsEverything' /\ TwiceOnlyIfTied'
<1>1. coalesce' = coalesce
  BY DEF coalesce
<1>2. \A x : Tied(x)' = Tied(x) /\ Doubled(x)' = Doubled(x) /\ InRange(x)' = InRange(x)
  BY <1>1 DEF Tied, Doubled, InRange
<1>3. GivenOK'
  BY <1>1 DEF PagingState, GivenOK
<1>4. NothingSkipped'
  BY <1>2 DEF PagingState, NothingSkipped
<1>5. ListsEverything'
  BY <1>2 DEF PagingState, ListsEverything
<1>6. TwiceOnlyIfTied'
  BY <1>1, <1>2 DEF PagingState, TwiceOnlyIfTied
<1> QED
  BY <1>3, <1>4, <1>5, <1>6

\* No pipeline runs but while the client waits.
LEMMA NothingRuns ==
    ASSUME PagingState, NEW c \in Cluster, NEW i \in Instance,
           pager.phase # "wait" \/ c \notin pager.asked
    PROVE  pipe[c][i] = NoPipe
BY DEF PagingState, PipesOK, PipeOK

LEMMA PageStartStep == ASSUME StoreTypeOK, PagingState, PageStart PROVE PagingState'
<1>1. PICK one \in BOOLEAN, stop \in Stops :
        pager' = [pager EXCEPT !.phase = "next", !.one = one, !.stop = stop]
  BY DEF PageStart
<1>2. /\ pager.phase = "idle" /\ stable' = {x \in Held : x[1] \in pager.keys}
      /\ UNCHANGED <<data, pipe, errors>>
  BY DEF PageStart
<1>3. /\ pager'.phase = "next" /\ pager'.one = one /\ pager'.stop = stop
      /\ pager'.keys = pager.keys /\ pager'.start = pager.start
      /\ pager'.asked = pager.asked /\ pager'.given = pager.given
      /\ pager'.twice = pager.twice /\ pager'.blind = pager.blind
  BY <1>1 DEF PagingState, PagingShape, PagerType
<1>4. PagingShape'
  <2>1. stop \in Cursor
    BY PagingAssumption DEF Cursor
  <2>2. pager' \in PagerType
    BY <1>1, <2>1 DEF PagingState, PagingShape, PagerType
  <2>3. stable' \in SUBSET Element
    BY <1>2 DEF Held, Element
  <2> QED
    BY <1>2, <1>3, <2>2, <2>3 DEF PagingState, PagingShape
<1>5. \A c \in Cluster, i \in Instance : pipe[c][i] = NoPipe
  BY <1>2, NothingRuns
<1>6. PipesOK'
  <2>1. \A c \in Cluster, i \in Instance : PipeOK(c, i, NoPipe)'
    BY NoPipeFacts DEF PipeOK, Pipe, Pages, NoPipe, NoPages
  <2> QED
    BY <1>2, <1>5, <2>1 DEF PagingState, PipesOK
<1>7. PagesOK'
  BY <1>2, <1>5, NoPipeFacts DEF PagesOK
<1>8. /\ pager'.given = {} /\ pager'.start = Top /\ pager'.twice = {}
  BY <1>2, <1>3 DEF PagingState, StableOK, PagingShape
<1>9. StableOK'
  BY <1>2, <1>3 DEF StableOK, Held
<1>10. GivenOK' /\ TwiceOnlyIfTied'
  BY <1>8 DEF GivenOK, TwiceOnlyIfTied
<1>11. NothingSkipped' /\ ListsEverything'
  BY <1>3, <1>8 DEF NothingSkipped, ListsEverything, InRange
<1> QED
  BY <1>4, <1>6, <1>7, <1>9, <1>10, <1>11 DEF PagingState

LEMMA PageAskStep ==
    ASSUME PagingState, PageAsk
    PROVE  /\ PagingState'
           /\ \A c \in Cluster, i \in Instance : DOMAIN pipe'[c][i].pages = {}
<1>1. PICK cs \in {{c} : c \in Cluster} \cup {Cluster} :
        /\ IF pager.one THEN Cardinality(cs) = 1 ELSE cs = Cluster
        /\ pager' = [pager EXCEPT !.phase = "wait", !.asked = cs]
        /\ pipe' = [c \in Cluster |-> [i \in Instance |->
                      LET ks == {k \in pager.keys : c \in cs /\ Home[k] = i}
                      IN  IF ks = {} THEN NoPipe
                          ELSE [NoPipe EXCEPT !.state = "run", !.todo = ks,
                                  !.limit = PageLimit, !.attempt = 1]]]
  BY DEF PageAsk
<1>2. pager.phase = "next" /\ UNCHANGED <<data, stable, errors>>
  BY DEF PageAsk
<1>3. /\ pager'.phase = "wait" /\ pager'.one = pager.one /\ pager'.stop = pager.stop
      /\ pager'.keys = pager.keys /\ pager'.start = pager.start
      /\ pager'.asked = cs /\ pager'.given = pager.given
      /\ pager'.twice = pager.twice /\ pager'.blind = pager.blind
  BY <1>1 DEF PagingState, PagingShape, PagerType
<1>4. PagingShape'
  <2>1. pager' \in PagerType
    BY <1>1 DEF PagingState, PagingShape, PagerType
  <2> QED
    BY <1>2, <1>3, <2>1 DEF PagingState, PagingShape
<1>5. ASSUME NEW c \in Cluster, NEW i \in Instance
      PROVE  PipeOK(c, i, pipe[c][i])' /\ DOMAIN pipe'[c][i].pages = {} /\ pipe'[c][i] \in Pipe
  <2> DEFINE ks == {k \in pager.keys : c \in cs /\ Home[k] = i}
             q == [NoPipe EXCEPT !.state = "run", !.todo = ks,
                     !.limit = PageLimit, !.attempt = 1]
  <2>1. pipe'[c][i] = IF ks = {} THEN NoPipe ELSE q
    BY <1>1
  <2>2. ks \in SUBSET Key
    BY DEF PagingState, PagingShape, PagerType
  <2>4. c \notin cs => ks = {}
    OBVIOUS
  <2>5. c \in cs => ks = {k \in pager'.keys : Home[k] = i}
    BY <1>3
  <2> HIDE DEF ks
  <2>3. /\ q \in Pipe /\ q.state = "run" /\ q.todo = ks /\ q.retry = {} /\ q.pages = NoPipe.pages
    <3>1. PageLimit \in Nat /\ 1 \in 0..MaxAttempts
      BY Constants
    <3> QED
      BY <2>2, <3>1, NoPipeFacts DEF Pipe
  <2> HIDE DEF q
  <2>6. CASE ks = {}
    BY <2>1, <2>6, NoPipeFacts DEF PipeOK, Pipe, Pages, NoPipe, NoPages
  <2>7. CASE ks # {}
    <3>1. pipe'[c][i] = q /\ c \in cs
      BY <2>1, <2>4, <2>7
    <3> QED
      BY <1>3, <2>3, <2>5, <2>7, <3>1, NoPipeFacts DEF PipeOK, Pipe, Pages, NoPipe, NoPages
  <2> QED
    BY <2>6, <2>7
<1>6. PipesOK'
  <2>1. pipe' \in [Cluster -> [Instance -> Pipe]]
    <3>1. \A c \in Cluster : DOMAIN pipe'[c] = Instance /\ pipe'[c] = [i \in DOMAIN pipe'[c] |-> pipe'[c][i]]
      BY <1>1
    <3>2. DOMAIN pipe' = Cluster /\ pipe' = [c \in DOMAIN pipe' |-> pipe'[c]]
      BY <1>1
    <3>3. \A c \in Cluster : pipe'[c] \in [Instance -> Pipe]
      BY <1>5, <3>1
    <3> QED
      BY <3>2, <3>3
  <2> QED
    BY <1>5, <2>1 DEF PipesOK, Pipe, Pages
<1>7. PagesOK'
  BY <1>5 DEF PagesOK
<1>8. StableOK'
  <2>1. pager.one => \E c \in Cluster : cs = {c}
    <3>1. CASE cs = Cluster /\ pager.one
      <4>1. Cardinality(1..N) = N
        <5>1. N \in Int /\ 1 \in Int /\ N >= 1
          BY Constants
        <5>2. Cardinality(1..N) = IF 1 > N THEN 0 ELSE N - 1 + 1
          BY <5>1, FS_Interval
        <5> QED
          BY <5>1, <5>2
      <4>2. N = 1
        BY <1>1, <3>1, <4>1 DEF Cluster
      <4> QED
        BY <3>1, <4>2 DEF Cluster
    <3> QED
      BY <1>1, <3>1
  <2> QED
    BY <1>1, <1>2, <1>3, <2>1 DEF PagingState, StableOK, Held
<1>9. GivenOK' /\ NothingSkipped' /\ ListsEverything' /\ TwiceOnlyIfTied'
  BY <1>2, <1>3, ListingStays
<1> QED
  BY <1>4, <1>5, <1>6, <1>7, <1>8, <1>9 DEF PagingState

\* The page that is put in answers the state the clusters are in.
LEMMA PageOfSet ==
    ASSUME StoreTypeOK, PagingState, NEW c \in Cluster, NEW k \in Key, NEW n \in Nat,
           NEW z, z = Values(data[c][k]["ins"], n), Conclusive(z, n)
    PROVE  PageOK(k, ZTop(Validated(z), PageLimit))
<1> DEFINE z0 == data[c][k]["ins"]
           page == ZTop(Validated(z), PageLimit)
<1>1. z0 \in ZSet /\ z = Values(z0, n)
  BY InsType
<1>2. pager.start \in Cursor /\ pager.stop \in Cursor
  BY DEF PagingState, PagingShape, PagerType
<1>3. z0 = data[c][k]["ins"]
  OBVIOUS
<1> HIDE DEF z0
<1>4. /\ page \in ZSet
      /\ \A m \in DOMAIN page : m \in Between(z0) /\ page[m] = z0[m]
      /\ \A m \in DOMAIN page, x \in Between(z0) \ DOMAIN page :
           Precedes(<<z0[m], m>>, <<z0[x], x>>)
      /\ DOMAIN page = Between(z0) \/ Cardinality(DOMAIN page) = PageLimit
  BY <1>1, <1>2, AnswerFacts
<1>5. \A x \in stable : x[1] = k => x[3] \in DOMAIN z0 /\ z0[x[3]] = x[2]
  BY <1>3 DEF PagingState, StableOK, Held
<1> HIDE DEF page
<1>6. ASSUME NEW x \in stable, x[1] = k, pastStart(Place(x)), beforeStop(Place(x))
      PROVE  \/ x[3] \in DOMAIN page /\ page[x[3]] = x[2]
             \/ /\ Cardinality(DOMAIN page) = PageLimit /\ x[3] \notin DOMAIN page
                /\ \A m \in DOMAIN page : Precedes(<<page[m], m>>, Place(x))
  <2>1. x[3] \in Between(z0) /\ <<z0[x[3]], x[3]>> = Place(x)
    BY <1>5, <1>6 DEF Between, Place
  <2> QED
    BY <1>4, <1>5, <1>6, <2>1
<1>7. \A m \in DOMAIN page : pastStart(<<page[m], m>>) /\ beforeStop(<<page[m], m>>)
  BY <1>4 DEF Between
<1> QED
  BY <1>4, <1>6, <1>7 DEF PageOK, page

\* What one command of a pipeline does to it.
LEMMA RangeKeyPipe ==
    ASSUME StoreTypeOK, PagingState, NEW c \in Cluster, NEW i \in Instance, NEW k \in Key,
           RangeKey(c, i, k)
    PROVE  \E q, z :
             /\ q \in Pipe
             /\ z = Values(data[c][k]["ins"], pipe[c][i].limit)
             /\ pipe' = [pipe EXCEPT ![c][i] = EndAttempt(q)]
             /\ q.state = "run" /\ q.limit = pipe[c][i].limit
             /\ q.todo = pipe[c][i].todo \ {k}
             /\ \/ /\ Conclusive(z, pipe[c][i].limit)
                   /\ q.retry = pipe[c][i].retry
                   /\ DOMAIN q.pages = DOMAIN pipe[c][i].pages \cup {k}
                   /\ q.pages[k] = ZTop(Validated(z), PageLimit)
                   /\ \A x \in DOMAIN pipe[c][i].pages :
                        x # k => q.pages[x] = pipe[c][i].pages[x]
                \/ /\ ~Conclusive(z, pipe[c][i].limit)
                   /\ q.retry = pipe[c][i].retry \cup {k}
                   /\ q.pages = pipe[c][i].pages
<1> DEFINE p == pipe[c][i]
           z == Values(data[c][k]["ins"], p.limit)
           page == ZTop(Validated(z), PageLimit)
           pages == [x \in DOMAIN p.pages \cup {k} |-> IF x = k THEN page ELSE p.pages[x]]
           rest == [p EXCEPT !.todo = @ \ {k}]
           q == IF Conclusive(z, p.limit) THEN [rest EXCEPT !.pages = pages]
                                          ELSE [rest EXCEPT !.retry = @ \cup {k}]
<1>1. p \in Pipe /\ p.state = "run" /\ k \in p.todo
  BY DEF RangeKey, PagingState, PipesOK, PipeOK
<1>2. pipe' = [pipe EXCEPT ![c][i] = EndAttempt(q)]
  BY DEF RangeKey
<1>3. page \in ZSet
  <2>1. p.limit \in Nat /\ data[c][k]["ins"] \in ZSet
    BY <1>1, InsType DEF Pipe
  <2>2. pager.start \in Cursor /\ pager.stop \in Cursor
    BY DEF PagingState, PagingShape, PagerType
  <2> QED
    BY <2>1, <2>2, AnswerFacts
<1>4. p.pages \in Pages
  BY <1>1 DEF Pipe
<1> HIDE DEF page, p
<1>5. /\ pages \in Pages /\ DOMAIN pages = DOMAIN p.pages \cup {k} /\ pages[k] = page
      /\ \A x \in DOMAIN p.pages : x # k => pages[x] = p.pages[x]
  BY <1>3, <1>4, AddPage
<1> HIDE DEF pages, z
<1>6. /\ rest \in Pipe /\ rest.state = "run" /\ rest.limit = p.limit
      /\ rest.todo = p.todo \ {k} /\ rest.retry = p.retry /\ rest.pages = p.pages
  BY <1>1 DEF Pipe
<1> HIDE DEF rest
<1>7. CASE Conclusive(z, p.limit)
  <2>1. q = [rest EXCEPT !.pages = pages]
    BY <1>7
  <2>2. /\ q \in Pipe /\ q.state = "run" /\ q.limit = p.limit
        /\ q.todo = p.todo \ {k} /\ q.retry = p.retry /\ q.pages = pages
    BY <1>5, <1>6, <2>1 DEF Pipe
  <2> HIDE DEF q
  <2>3. z = Values(data[c][k]["ins"], pipe[c][i].limit)
    BY DEF z, p
  <2> QED
    BY <1>2, <1>5, <1>7, <2>2, <2>3 DEF p, page
<1>8. CASE ~Conclusive(z, p.limit)
  <2>1. q = [rest EXCEPT !.retry = @ \cup {k}]
    BY <1>8
  <2>2. /\ q \in Pipe /\ q.state = "run" /\ q.limit = p.limit
        /\ q.todo = p.todo \ {k} /\ q.retry = p.retry \cup {k} /\ q.pages = p.pages
    BY <1>6, <2>1 DEF Pipe
  <2> HIDE DEF q
  <2>3. z = Values(data[c][k]["ins"], pipe[c][i].limit)
    BY DEF z, p
  <2> QED
    BY <1>2, <1>8, <2>2, <2>3 DEF p
<1> QED
  BY <1>7, <1>8

\* Another pipeline's value in place of one.
LEMMA OnePipe ==
    ASSUME PagingState, NEW c \in Cluster, NEW i \in Instance, NEW e \in Pipe,
           pipe' = [pipe EXCEPT ![c][i] = e], pager' = pager, stable' \subseteq stable,
           PipeOK(c, i, e), \A k \in DOMAIN e.pages : PageOK(k, e.pages[k])
    PROVE  PipesOK' /\ PagesOK'
<1>1. /\ pipe \in [Cluster -> [Instance -> Pipe]]
      /\ \A d \in Cluster, j \in Instance : PipeOK(d, j, pipe[d][j])
  BY DEF PagingState, PipesOK
<1>2. pipe' \in [Cluster -> [Instance -> Pipe]]
  BY <1>1
<1>3. \A d \in Cluster, j \in Instance :
        pipe'[d][j] = IF d = c /\ j = i THEN e ELSE pipe[d][j]
  BY <1>1
<1>4. ASSUME NEW d \in Cluster, NEW j \in Instance
      PROVE  /\ PipeOK(d, j, pipe[d][j])'
             /\ \A k \in DOMAIN pipe'[d][j].pages : PageOK(k, pipe[d][j].pages[k])'
  <2>1. PipeOK(d, j, pipe'[d][j])
    BY <1>1, <1>3
  <2>2. \A k \in DOMAIN pipe'[d][j].pages : PageOK(k, pipe'[d][j].pages[k])
    BY <1>3 DEF PagingState, PagesOK
  <2>3. PipeOK(d, j, pipe[d][j])'
    BY <2>1 DEF PipeOK
  <2>4. \A k \in DOMAIN pipe'[d][j].pages : PageOK(k, pipe[d][j].pages[k])'
    BY <2>2 DEF PageOK, pastStart, beforeStop
  <2> QED
    BY <2>3, <2>4
<1> QED
  BY <1>2, <1>4 DEF PipesOK, PagesOK
LEMMA RangeKeyStep ==
    ASSUME StoreTypeOK, PagingState, NEW c \in Cluster, NEW i \in Instance, NEW k \in Key,
           RangeKey(c, i, k)
    PROVE  PagingState'
<1>1. k \in pipe[c][i].todo /\ UNCHANGED <<data, pager, stable, errors>>
  BY DEF RangeKey
<1>2. /\ pipe[c][i] \in Pipe /\ PipeOK(c, i, pipe[c][i])
      /\ \A x \in DOMAIN pipe[c][i].pages : PageOK(x, pipe[c][i].pages[x])
  BY DEF PagingState, PipesOK, PipeOK, PagesOK
<1>3. PICK q, z :
        /\ q \in Pipe
        /\ z = Values(data[c][k]["ins"], pipe[c][i].limit)
        /\ pipe' = [pipe EXCEPT ![c][i] = EndAttempt(q)]
        /\ q.state = "run" /\ q.limit = pipe[c][i].limit
        /\ q.todo = pipe[c][i].todo \ {k}
        /\ \/ /\ Conclusive(z, pipe[c][i].limit)
              /\ q.retry = pipe[c][i].retry
              /\ DOMAIN q.pages = DOMAIN pipe[c][i].pages \cup {k}
              /\ q.pages[k] = ZTop(Validated(z), PageLimit)
              /\ \A x \in DOMAIN pipe[c][i].pages :
                   x # k => q.pages[x] = pipe[c][i].pages[x]
           \/ /\ ~Conclusive(z, pipe[c][i].limit)
              /\ q.retry = pipe[c][i].retry \cup {k}
              /\ q.pages = pipe[c][i].pages
  BY RangeKeyPipe
<1> DEFINE e == EndAttempt(q)
<1>4. /\ pipe[c][i].state = "run" /\ pager.phase = "wait" /\ c \in pager.asked
      /\ pipe[c][i].todo \cap (pipe[c][i].retry \cup DOMAIN pipe[c][i].pages) = {}
      /\ pipe[c][i].retry \cap DOMAIN pipe[c][i].pages = {}
      /\ pipe[c][i].todo \cup pipe[c][i].retry \cup DOMAIN pipe[c][i].pages
           = {x \in pager.keys : Home[x] = i}
  BY <1>1, <1>2, NoPipeFacts DEF PipeOK
<1>5. /\ q.todo \cap (q.retry \cup DOMAIN q.pages) = {}
      /\ q.retry \cap DOMAIN q.pages = {}
      /\ q.todo \cup q.retry \cup DOMAIN q.pages = {x \in pager.keys : Home[x] = i}
  BY <1>1, <1>3, <1>4
<1>6. /\ e \in Pipe /\ e.pages = q.pages /\ e.state # "failed" /\ e.state # "idle"
      /\ e.state = "run" <=> e.todo # {}
      /\ e.todo \cap (e.retry \cup DOMAIN e.pages) = {}
      /\ e.retry \cap DOMAIN e.pages = {}
      /\ e.todo \cup e.retry = q.todo \cup q.retry
      /\ e.state = "ok" => e.retry = {}
  BY <1>3, <1>5, EndAttemptFacts
<1> HIDE DEF e
<1>7. PipeOK(c, i, e)
  <2>1. e.todo \cup e.retry \cup DOMAIN e.pages = {x \in pager.keys : Home[x] = i}
    BY <1>5, <1>6
  <2> QED
    BY <1>4, <1>6, <2>1 DEF PipeOK
<1>8. ASSUME NEW x \in DOMAIN e.pages PROVE PageOK(x, e.pages[x])
  <2>1. pipe[c][i].limit \in Nat
    BY <1>2 DEF Pipe
  <2>2. CASE Conclusive(z, pipe[c][i].limit) /\ x = k
    <3>1. PageOK(k, ZTop(Validated(z), PageLimit))
      BY <1>3, <2>1, <2>2, PageOfSet
    <3> QED
      BY <1>3, <1>6, <2>2, <3>1
  <2>3. CASE ~(Conclusive(z, pipe[c][i].limit) /\ x = k)
    <3>1. x \in DOMAIN pipe[c][i].pages /\ e.pages[x] = pipe[c][i].pages[x]
      BY <1>1, <1>3, <1>4, <1>6, <2>3
    <3> QED
      BY <1>2, <3>1
  <2> QED
    BY <2>2, <2>3
<1>9. PipesOK' /\ PagesOK'
  <2>1. pipe' = [pipe EXCEPT ![c][i] = e]
    BY <1>3 DEF e
  <2> QED
    BY <1>1, <1>6, <1>7, <1>8, <2>1, OnePipe
<1>10. PagingShape' /\ StableOK'
  BY <1>1 DEF PagingState, PagingShape, StableOK, Held
<1>11. GivenOK' /\ NothingSkipped' /\ ListsEverything' /\ TwiceOnlyIfTied'
  BY <1>1, ListingStays
<1> QED
  BY <1>9, <1>10, <1>11 DEF PagingState

LEMMA RangeFailStep ==
    ASSUME PagingState, NEW c \in Cluster, NEW i \in Instance, RangeFail(c, i)
    PROVE  PagingState'
<1>1. /\ pipe[c][i].todo # {} /\ errors < MaxErrors /\ errors' = errors + 1
      /\ pipe' = [pipe EXCEPT ![c][i] = [@ EXCEPT !.state = "failed", !.todo = {}]]
      /\ UNCHANGED <<data, pager, stable>>
  BY DEF RangeFail
<1> DEFINE e == [pipe[c][i] EXCEPT !.state = "failed", !.todo = {}]
<1>2. /\ pipe[c][i] \in Pipe /\ PipeOK(c, i, pipe[c][i])
      /\ \A x \in DOMAIN pipe[c][i].pages : PageOK(x, pipe[c][i].pages[x])
      /\ pipe \in [Cluster -> [Instance -> Pipe]]
  BY DEF PagingState, PipesOK, PipeOK, PagesOK
<1>3. /\ e \in Pipe /\ e.state = "failed" /\ e.todo = {} /\ e.retry = pipe[c][i].retry
      /\ e.pages = pipe[c][i].pages
  BY <1>2 DEF Pipe
<1>4. pipe' = [pipe EXCEPT ![c][i] = e]
  BY <1>1
<1> HIDE DEF e
<1>5. PipeOK(c, i, e)
  BY <1>1, <1>2, <1>3, NoPipeFacts DEF PipeOK
<1>6. PipesOK' /\ PagesOK'
  BY <1>1, <1>2, <1>3, <1>4, <1>5, OnePipe
<1>7. PagingShape'
  BY <1>1, Constants DEF PagingState, PagingShape
<1>8. StableOK'
  BY <1>1 DEF PagingState, StableOK, Held
<1>9. GivenOK' /\ NothingSkipped' /\ ListsEverything' /\ TwiceOnlyIfTied'
  BY <1>1, ListingStays
<1> QED
  BY <1>6, <1>7, <1>8, <1>9 DEF PagingState

\* A write takes elements out of what all clusters hold throughout, and no more.
LEMMA PagingWriteStep ==
    ASSUME PagingState, PagingWrite PROVE PagingState'
<1>1. stable' = stable \cap Held' /\ UNCHANGED <<pager, pipe, errors>>
  BY DEF PagingWrite
<1>2. PagingShape' /\ StableOK'
  BY <1>1 DEF PagingState, PagingShape, StableOK
<1>3. PipesOK'
  BY <1>1 DEF PagingState, PipesOK, PipeOK
<1>4. PagesOK'
  BY <1>1 DEF PagingState, PagesOK, PageOK, pastStart, beforeStop
<1>5. GivenOK' /\ NothingSkipped' /\ ListsEverything' /\ TwiceOnlyIfTied'
  BY <1>1, ListingStays
<1> QED
  BY <1>2, <1>3, <1>4, <1>5 DEF PagingState

LEMMA PagingBegins ==
    ASSUME PagingInit PROVE PagingState /\ stable = {} /\ pager.phase = "idle"
<1>1. PICK ks \in Requests : pager = [NoPager EXCEPT !.keys = ks]
  BY DEF PagingInit
<1>2. /\ pipe = [c \in Cluster |-> [i \in Instance |-> NoPipe]] /\ stable = {} /\ errors = 0
  BY DEF PagingInit
<1>3. ks \in SUBSET Key /\ IsFiniteSet(ks)
  BY PagingAssumption
<1>4. /\ pager.phase = "idle" /\ pager.keys = ks /\ pager.start = Top /\ pager.given = {}
      /\ pager.twice = {} /\ pager.stop = Top /\ pager.one = FALSE /\ pager.asked = {}
      /\ pager.blind = FALSE
  BY <1>1 DEF NoPager
<1>5. PagingShape
  <2>1. pager \in PagerType
    BY <1>1, <1>3, TopType DEF NoPager, PagerType
  <2> QED
    BY <1>2, <1>3, <1>4, <2>1, Constants DEF PagingShape
<1>6. \A c \in Cluster, i \in Instance : pipe[c][i] = NoPipe
  BY <1>2
<1>7. PipesOK
  BY <1>2, <1>6, NoPipeOK, NoPipeFacts DEF PipesOK
<1>8. PagesOK
  BY <1>6, NoPipeFacts DEF PagesOK
<1>9. StableOK /\ GivenOK
  BY <1>2, <1>4 DEF StableOK, GivenOK
<1>10. NothingSkipped /\ ListsEverything /\ TwiceOnlyIfTied
  BY <1>2, <1>4 DEF NothingSkipped, ListsEverything, TwiceOnlyIfTied
<1> QED
  BY <1>2, <1>4, <1>5, <1>7, <1>8, <1>9, <1>10 DEF PagingState
-----------------------------------------------------------------------------
(***************************************************************************)
(* What the client is given.                                               *)
(***************************************************************************)
\* All answers are in.
Quiet == \A c \in pager.asked, i \in Instance : pipe[c][i].state # "run"

\* The page of key k from cluster c.
PageAt(c, k) == pipe[c][Home[k]].pages[k]

KeyPart(s, k) == {x \in s : x[1] = k}

\* A cluster that answered for a key has a page of it.
LEMMA AnsweredPage ==
    ASSUME PagingState, Quiet, NEW k \in pager.keys, NEW c \in Answered(k)
    PROVE  /\ c \in Cluster /\ k \in Key /\ c \in pager.asked
           /\ k \in DOMAIN pipe[c][Home[k]].pages
           /\ PageOK(k, PageAt(c, k)) /\ PageAt(c, k) \in ZSet
<1>1. c \in pager.asked /\ c \in Cluster /\ k \in Key /\ Home[k] \in Instance
  BY Constants DEF Answered, PagingState, PagingShape, PagerType
<1>2. PipeOK(c, Home[k], pipe[c][Home[k]]) /\ pipe[c][Home[k]].state = "ok"
  BY <1>1 DEF Answered, PagingState, PipesOK
<1>3. k \in DOMAIN pipe[c][Home[k]].pages
  BY <1>2 DEF PipeOK
<1>4. PageOK(k, PageAt(c, k))
  BY <1>1, <1>3 DEF PagingState, PagesOK, PageAt
<1> QED
  BY <1>1, <1>3, <1>4 DEF PageOK

LEMMA UnionIs ==
    ASSUME NEW x
    PROVE  x \in Union <=>
             /\ x \in pager.keys \X Score \X Member
             /\ \E c \in Answered(x[1]) : /\ x[3] \in DOMAIN PageAt(c, x[1])
                                          /\ PageAt(c, x[1])[x[3]] = x[2]
             /\ \A c \in Answered(x[1]) :
                  x[3] \in DOMAIN PageAt(c, x[1]) => PageAt(c, x[1])[x[3]] <= x[2]
<1> DEFINE among == {d \in Answered(x[1]) : x[3] \in DOMAIN PageAt(d, x[1])}
           scores == {PageAt(c, x[1])[x[3]] : c \in among}
<1>1. x \in Union <=> /\ x \in pager.keys \X Score \X Member
                      /\ x[2] \in scores /\ \A t \in scores : t <= x[2]
  BY DEF Union, PageAt
<1> QED
  BY <1>1

\* The union of what was answered: one element for each member found, not below
\* any score it was found with.
LEMMA UnionFacts ==
    ASSUME PagingState, Quiet
    PROVE  /\ Union \subseteq Element /\ IsFiniteSet(Union)
           /\ \A x \in Union : /\ x[1] \in pager.keys /\ Place(x) \in Cursor
                               /\ pastStart(Place(x)) /\ beforeStop(Place(x))
           /\ \A k \in pager.keys : \A c \in Answered(k) : \A m \in DOMAIN PageAt(c, k) :
                \E x \in Union : x[1] = k /\ x[3] = m /\ x[2] >= PageAt(c, k)[m]
<1>1. pager.keys \subseteq Key /\ IsFiniteSet(pager.keys)
  BY DEF PagingState, PagingShape, PagerType
<1>2. Union \subseteq Element /\ \A x \in Union : x[1] \in pager.keys
  BY <1>1, UnionIs DEF Element
<1>3. ASSUME NEW x \in Union, NEW y \in Union, x[1] = y[1], x[3] = y[3] PROVE x = y
  <2>1. x \in pager.keys \X Score \X Member /\ y \in pager.keys \X Score \X Member
    BY UnionIs
  <2>2. x = <<x[1], x[2], x[3]>> /\ y = <<y[1], y[2], y[3]>> /\ x[2] \in Int /\ y[2] \in Int
    <3>1. Score \subseteq Int
      BY Constants
    <3>2. x[2] \in Score /\ y[2] \in Score
      BY <2>1
    <3>3. \A t \in pager.keys \X Score \X Member : t = <<t[1], t[2], t[3]>>
      OBVIOUS
    <3> QED
      BY <2>1, <3>1, <3>2, <3>3
  <2>3. x[2] <= y[2] /\ y[2] <= x[2]
    BY <1>3, UnionIs
  <2> QED
    BY <1>3, <2>2, <2>3
<1>4. IsFiniteSet(Union)
  <2> DEFINE f == [x \in Union |-> <<x[1], x[3]>>]
  <2>1. IsFiniteSet(pager.keys \X Member)
    BY <1>1, Constants, FS_Product
  <2>2. \A x \in Union : x[1] \in pager.keys /\ x[3] \in Member
    BY UnionIs
  <2>3. f \in Injection(Union, pager.keys \X Member)
    <3>1. f \in [Union -> pager.keys \X Member]
      BY <2>2
    <3>2. ASSUME NEW x \in Union, NEW y \in Union, f[x] = f[y] PROVE x = y
      BY <1>3, <3>2
    <3> QED
      BY <3>1, <3>2 DEF Injection, IsInjective
  <2> QED
    BY <2>1, <2>3, FS_Injection
<1>5. ASSUME NEW x \in Union
      PROVE  Place(x) \in Cursor /\ pastStart(Place(x)) /\ beforeStop(Place(x))
  <2>1. PICK c \in Answered(x[1]) : /\ x[3] \in DOMAIN PageAt(c, x[1])
                                    /\ PageAt(c, x[1])[x[3]] = x[2]
    BY UnionIs
  <2>2. PageOK(x[1], PageAt(c, x[1]))
    BY <1>2, <2>1, AnsweredPage
  <2> QED
    BY <1>2, <2>1, <2>2, PlaceType DEF PageOK, Place
<1>6. ASSUME NEW k \in pager.keys, NEW c \in Answered(k), NEW m \in DOMAIN PageAt(c, k)
      PROVE  \E x \in Union : x[1] = k /\ x[3] = m /\ x[2] >= PageAt(c, k)[m]
  <2> DEFINE among == {d \in Answered(k) : m \in DOMAIN PageAt(d, k)}
             f == [d \in among |-> PageAt(d, k)[m]]
             scores == {PageAt(d, k)[m] : d \in among}
  <2>1. \A d \in Answered(k) : d \in Cluster /\ PageAt(d, k) \in ZSet
    BY AnsweredPage
  <2>2. \A d \in among : PageAt(d, k)[m] \in Score /\ m \in Member
    BY <2>1, ZSetFacts
  <2>3. scores \subseteq Score /\ scores \subseteq Int /\ scores # {}
    BY <2>2, Constants
  <2>4. IsFiniteSet(scores)
    <3>1. IsFiniteSet(Cluster)
      BY Constants, FS_Interval DEF Cluster
    <3>2. IsFiniteSet(among)
      <4>1. among \in SUBSET Cluster
        BY <2>1
      <4> QED
        BY <3>1, <4>1, FS_Subset
    <3>3. f \in Surjection(among, scores)
      BY DEF Surjection
    <3> QED
      BY <3>2, <3>3, FS_Surjection
  <2>5. PICK s \in scores : \A t \in scores : t <= s
    BY <2>3, <2>4, GreatestInteger
  <2>6. PICK d \in among : PageAt(d, k)[m] = s
    OBVIOUS
  <2> DEFINE x == <<k, s, m>>
  <2>7. x[1] = k /\ x[2] = s /\ x[3] = m /\ x \in pager.keys \X Score \X Member
    BY <2>2, <2>3
  <2>8. x \in Union
    BY <2>5, <2>6, <2>7, UnionIs
  <2>9. PageAt(c, k)[m] \in Int /\ s \in Int /\ PageAt(c, k)[m] <= s
    BY <2>3, <2>5
  <2> QED
    BY <2>7, <2>8, <2>9
<1> QED
  BY <1>2, <1>4, <1>5, <1>6

\* What the strategies make of the union, before the keys are coalesced: of each
\* key all of it, or the elements that are first by score.
Each(q) ==
    /\ q \subseteq Union
    /\ \A k \in pager.keys :
         IF pager.one THEN KeyPart(q, k) = KeyPart(Union, k)
         ELSE /\ Cardinality(KeyPart(q, k)) <= PageLimit
              /\ KeyPart(q, k) # KeyPart(Union, k) => Cardinality(KeyPart(q, k)) = PageLimit
              /\ \A x \in KeyPart(q, k), y \in KeyPart(Union, k) \ KeyPart(q, k) : ~(y[2] > x[2])

LEMMA ResponseFacts ==
    ASSUME NEW p \in Responses
    PROVE  \E q : /\ Each(q)
                  /\ ~coalesce => p = q
                  /\ coalesce =>
                       /\ p \subseteq q /\ Cardinality(p) <= PageLimit
                       /\ p # q => Cardinality(p) = PageLimit
                       /\ \A x \in p, y \in q \ p : ~Precedes(Place(y), Place(x))
<1> DEFINE each == {r \in SUBSET Union : \A k \in pager.keys :
                      LET of(s) == {x \in s : x[1] = k}
                      IN  IF pager.one THEN of(r) = of(Union)
                          ELSE of(r) \in Cuts(of(Union), LessInFarm)}
<1>1. p \in IF coalesce THEN UNION {Cuts(r, LessInServer) : r \in each} ELSE each
  BY DEF Responses
<1>2. ASSUME NEW r \in each PROVE Each(r)
  BY DEF Each, KeyPart, Cuts, LessInFarm
<1>3. CASE ~coalesce
  BY <1>1, <1>2, <1>3
<1>4. CASE coalesce
  <2>1. PICK r \in each : p \in Cuts(r, LessInServer)
    BY <1>1, <1>4
  <2> QED
    BY <1>2, <1>4, <2>1 DEF Cuts, LessInServer
<1> QED
  BY <1>3, <1>4

\* An element that all clusters hold throughout, past the cursor and before the
\* stop cursor, is among what the strategies make of a key, or that is a full
\* page of elements which are before it, or have its score at least.
LEMMA KeyPage ==
    ASSUME PagingState, Quiet, NEW q, Each(q), NEW e \in stable, Answered(e[1]) # {},
           pastStart(Place(e)), beforeStop(Place(e)), e \notin q
    PROVE  /\ IsFiniteSet(KeyPart(q, e[1])) /\ Cardinality(KeyPart(q, e[1])) >= PageLimit
           /\ \A z \in KeyPart(q, e[1]) : z[2] >= e[2]
           /\ pager.one => \A z \in KeyPart(q, e[1]) : Precedes(Place(z), Place(e))
<1> DEFINE k == e[1]
           mine == KeyPart(q, k)
           all == KeyPart(Union, k)
<1>1. k \in pager.keys /\ e \in Element /\ e \in Held
  BY DEF PagingState, PagingShape, StableOK
<1>2. e[2] \in Int /\ Score \subseteq Int /\ PageLimit \in Nat
      /\ e = <<e[1], e[2], e[3]>> /\ e[2] \in Score /\ e[3] \in Member
  <2>1. e[2] \in Score /\ e[3] \in Member /\ e = <<e[1], e[2], e[3]>>
    BY <1>1 DEF Element
  <2>2. Score \subseteq Int /\ PageLimit \in Nat
    BY Constants
  <2> QED
    BY <2>1, <2>2
<1>3. /\ mine \subseteq all /\ all \subseteq Union /\ IsFiniteSet(all) /\ IsFiniteSet(mine)
      /\ Cardinality(mine) \in Nat /\ Cardinality(all) \in Nat
  <2>1. mine \subseteq all /\ all \subseteq Union
    BY DEF Each, KeyPart
  <2> QED
    BY <2>1, UnionFacts, FS_Subset, FS_CardinalityType
<1>4. \A z \in Union : z[2] \in Int /\ z[3] \in Member
  BY <1>2, UnionFacts DEF Element
<1>5. IF pager.one THEN mine = all
      ELSE /\ Cardinality(mine) <= PageLimit
           /\ mine # all => Cardinality(mine) = PageLimit
           /\ \A x \in mine, y \in all \ mine : ~(y[2] > x[2])
  BY <1>1 DEF Each
<1>6. e \notin mine /\ (e \in Union => e \in all)
  BY DEF KeyPart
<1>7. ASSUME NEW c \in Answered(k)
      PROVE  \/ e[3] \in DOMAIN PageAt(c, k) /\ PageAt(c, k)[e[3]] = e[2]
             \/ /\ Cardinality(DOMAIN PageAt(c, k)) = PageLimit
                /\ e[3] \notin DOMAIN PageAt(c, k)
                /\ \A m \in DOMAIN PageAt(c, k) : Precedes(<<PageAt(c, k)[m], m>>, Place(e))
  BY <1>1, AnsweredPage DEF PageOK
<1>8. CASE \E c \in Answered(k) : e[3] \in DOMAIN PageAt(c, k)
  <2>1. e \in Union
    <3>1. e \in pager.keys \X Score \X Member
      BY <1>1, <1>2
    <3>2. \E c \in Answered(e[1]) : /\ e[3] \in DOMAIN PageAt(c, e[1])
                                    /\ PageAt(c, e[1])[e[3]] = e[2]
      BY <1>7, <1>8
    <3>3. \A c \in Answered(e[1]) :
             e[3] \in DOMAIN PageAt(c, e[1]) => PageAt(c, e[1])[e[3]] <= e[2]
      BY <1>2, <1>7
    <3> QED
      BY <3>1, <3>2, <3>3, UnionIs
  <2>2. e \in all \ mine /\ mine # all
    BY <1>6, <2>1
  <2>3. ~pager.one /\ Cardinality(mine) = PageLimit /\ \A x \in mine : ~(e[2] > x[2])
    BY <1>5, <2>2
  <2>4. \A x \in mine : x[2] >= e[2]
    BY <1>2, <1>3, <1>4, <2>3
  <2> QED
    BY <1>2, <1>3, <2>3, <2>4
<1>9. CASE ~ \E c \in Answered(k) : e[3] \in DOMAIN PageAt(c, k)
  <2>1. PICK c \in Answered(k) : TRUE
    OBVIOUS
  <2> DEFINE page == PageAt(c, k)
             found == {u \in all : u[3] \in DOMAIN page}
  <2>2. /\ Cardinality(DOMAIN page) = PageLimit /\ page \in ZSet
        /\ \A m \in DOMAIN page : Precedes(<<page[m], m>>, Place(e))
    BY <1>1, <1>7, <1>9, AnsweredPage
  <2>3. \A m \in DOMAIN page : page[m] \in Int /\ page[m] >= e[2] /\ m \in Int
    <3> SUFFICES ASSUME NEW m \in DOMAIN page
                 PROVE  page[m] \in Int /\ page[m] >= e[2] /\ m \in Int
      OBVIOUS
    <3>1. <<page[m], m>> \in Cursor
      BY <2>2, RankIsPlace
    <3>2. Place(e) \in Cursor /\ Place(e)[1] = e[2]
      BY <1>1, PlaceType
    <3>3. <<page[m], m>>[1] >= Place(e)[1]
      BY <2>2, <3>1, <3>2, PrecedesOrder
    <3> QED
      BY <3>1, <3>2, <3>3 DEF Cursor
  <2>4. \A m \in DOMAIN page : \E u \in found : u[3] = m /\ u[2] >= page[m]
    <3> SUFFICES ASSUME NEW m \in DOMAIN page
                 PROVE  \E u \in found : u[3] = m /\ u[2] >= page[m]
      OBVIOUS
    <3>1. PICK u \in Union : u[1] = k /\ u[3] = m /\ u[2] >= page[m]
      BY <1>1, UnionFacts
    <3>2. u \in found
      BY <3>1 DEF KeyPart
    <3> QED
      BY <3>1, <3>2
  <2>5. \A u \in found : u[2] >= e[2]
    <3> SUFFICES ASSUME NEW u \in found PROVE u[2] >= e[2]
      OBVIOUS
    <3>1. u \in Union /\ u[1] = k /\ u[3] \in DOMAIN page /\ u[2] \in Int
      BY <1>4 DEF KeyPart
    <3>2. page[u[3]] <= u[2]
      BY <3>1, UnionIs
    <3> QED
      BY <1>2, <2>3, <3>1, <3>2
  <2>6. IsFiniteSet(found) /\ Cardinality(found) \in Nat /\ Cardinality(found) >= PageLimit
    <3>1. IsFiniteSet(found) /\ Cardinality(found) \in Nat
      BY <1>3, FS_Subset, FS_CardinalityType
    <3> DEFINE f == [u \in found |-> u[3]]
    <3>2. f \in Surjection(found, DOMAIN page)
      <4>1. f \in [found -> DOMAIN page]
        OBVIOUS
      <4>2. \A m \in DOMAIN page : \E u \in found : f[u] = m
        BY <2>4
      <4> QED
        BY <4>1, <4>2 DEF Surjection
    <3>3. Cardinality(DOMAIN page) <= Cardinality(found)
      BY <3>1, <3>2, FS_Surjection
    <3> QED
      BY <2>2, <3>1, <3>3
  <2>7. CASE pager.one
    <3>1. mine = all
      BY <1>5, <2>7
    <3>2. Cardinality(mine) >= PageLimit
      BY <1>2, <1>3, <2>6, <3>1, FS_Subset
    <3>3. ASSUME NEW z \in mine PROVE z[2] >= e[2] /\ Precedes(Place(z), Place(e))
      <4>1. z \in Union /\ z[1] = k
        BY <1>3 DEF KeyPart
      <4>2. PICK d \in Answered(k) : /\ z[3] \in DOMAIN PageAt(d, k)
                                     /\ PageAt(d, k)[z[3]] = z[2]
        BY <4>1, UnionIs
      <4>3. Precedes(<<PageAt(d, k)[z[3]], z[3]>>, Place(e))
        BY <1>7, <1>9, <4>2
      <4>4. Precedes(Place(z), Place(e))
        BY <4>2, <4>3 DEF Place
      <4>5. Place(z) \in Cursor /\ Place(e) \in Cursor /\ Place(z)[1] = z[2] /\ Place(e)[1] = e[2]
        BY <1>1, <4>1, UnionFacts, PlaceType
      <4> QED
        BY <4>4, <4>5, PrecedesOrder
    <3> QED
      BY <1>3, <3>2, <3>3
  <2>8. CASE ~pager.one
    <3>1. /\ Cardinality(mine) <= PageLimit
          /\ mine # all => Cardinality(mine) = PageLimit
          /\ \A x \in mine, y \in all \ mine : ~(y[2] > x[2])
      BY <1>5, <2>8
    <3>2. Cardinality(found) <= Cardinality(all)
      BY <1>3, FS_Subset
    <3>3. Cardinality(mine) = PageLimit
      BY <1>2, <1>3, <2>6, <3>1, <3>2
    <3>4. ASSUME NEW z \in mine PROVE z[2] >= e[2]
      <4>1. CASE z \in found
        BY <2>5, <4>1
      <4>2. CASE z \notin found
        <5>1. PICK t \in found : t \notin mine
          <6>1. CASE found \subseteq mine
            <7>1. Cardinality(found) <= Cardinality(mine)
              BY <1>3, <6>1, FS_Subset
            <7>2. found = mine
              BY <1>2, <1>3, <2>6, <3>3, <6>1, <7>1, FS_Subset
            <7> QED
              BY <4>2, <7>2
          <6> QED
            BY <6>1
        <5>2. t \in all /\ ~(t[2] > z[2]) /\ t[2] >= e[2]
          BY <2>5, <3>1, <5>1
        <5>3. t[2] \in Int /\ z[2] \in Int
          BY <1>3, <1>4, <5>2
        <5> QED
          BY <1>2, <5>2, <5>3
      <4> QED
        BY <4>1, <4>2
    <3> QED
      BY <1>2, <1>3, <2>8, <3>3, <3>4
  <2> QED
    BY <2>7, <2>8
<1> QED
  BY <1>8, <1>9

\* A request that is not coalesced has one key.
LEMMA OneKey ==
    ASSUME IsFiniteSet(pager.keys), ~coalesce, NEW j \in pager.keys, NEW k \in pager.keys
    PROVE  j = k
<1> SUFFICES ASSUME j # k PROVE FALSE
  OBVIOUS
<1>1. IsFiniteSet({j}) /\ Cardinality({j}) = 1
  BY FS_Singleton
<1>2. Cardinality({j} \cup {k}) = 2
  <2>1. k \notin {j}
    OBVIOUS
  <2>2. Cardinality({j} \cup {k}) = Cardinality({j}) + 1
    BY <1>1, <2>1, FS_AddElement
  <2> QED
    BY <1>1, <2>2
<1>3. {j} \cup {k} \in SUBSET pager.keys
  OBVIOUS
<1>4. 2 <= Cardinality(pager.keys)
  BY <1>2, <1>3, FS_Subset
<1> QED
  BY <1>4, FS_CardinalityType DEF coalesce

LEMMA LastFacts ==
    ASSUME PagingState, Quiet, NEW p \in Responses, NEW x \in Last(p)
    PROVE  /\ p \subseteq Union /\ x \in p
           /\ \A y \in p : y[2] >= x[2]
           /\ pager.one \/ coalesce => \A y \in p : ~Precedes(Place(x), Place(y))
<1>1. p \subseteq Union
  BY ResponseFacts DEF Each
<1>2. x \in p /\ IF pager.one \/ coalesce THEN \A y \in p : ~Precedes(Place(x), Place(y))
                                          ELSE \A y \in p : ~(x[2] > y[2])
  BY DEF Last, LessInServer, LessInFarm
<1>3. ASSUME NEW y \in p PROVE y[2] >= x[2]
  <2>1. x \in Element /\ y \in Element
    BY <1>1, <1>2, UnionFacts
  <2>2. /\ Place(x) \in Cursor /\ Place(y) \in Cursor /\ Place(x)[1] = x[2]
        /\ Place(y)[1] = y[2] /\ x[2] \in Int /\ y[2] \in Int
    BY <2>1, PlaceType DEF Cursor
  <2>3. Precedes(Place(x), Place(y)) \/ ~(x[2] > y[2])
    BY <2>2 DEF Precedes
  <2> QED
    BY <1>2, <2>2, <2>3
<1> QED
  BY <1>1, <1>2, <1>3

\* The next page.  If its last element does not come before e, an element that all
\* clusters hold throughout, then e is on the page, or the two have equal
\* scores in an order that was lost.
LEMMA NextPage ==
    ASSUME PagingState, Quiet, NEW p \in Responses, NEW x \in Last(p), NEW e \in stable,
           Answered(e[1]) # {}, pastStart(Place(e)), beforeStop(Place(e)),
           ~Precedes(Place(x), Place(e)), e \notin p
    PROVE  \/ ~pager.one /\ x[2] = e[2] /\ Place(x) # Place(e)
           \/ coalesce /\ Place(x) = Place(e) /\ x # e
<1>1. /\ p \subseteq Union /\ x \in p
      /\ pager.one \/ coalesce => \A y \in p : ~Precedes(Place(x), Place(y))
  BY LastFacts
<1>2. x \in Element /\ e \in Element /\ x # e
  BY <1>1, UnionFacts DEF PagingState, PagingShape
<1>3. /\ Place(x) \in Cursor /\ Place(e) \in Cursor /\ x[2] \in Int /\ e[2] \in Int
      /\ Place(x)[1] = x[2] /\ Place(e)[1] = e[2] /\ Place(x)[2] = x[3] /\ Place(e)[2] = e[3]
  BY <1>2, PlaceType DEF Cursor
<1>4. ~(x[2] > e[2])
  BY <1>3 DEF Precedes
<1>5. x[1] = e[1] => Place(x) # Place(e)
  <2>1. x = <<x[1], x[2], x[3]>> /\ e = <<e[1], e[2], e[3]>>
    BY <1>2 DEF Element
  <2> QED
    BY <1>2, <1>3, <2>1
<1>6. PICK q : /\ Each(q)
               /\ ~coalesce => p = q
               /\ coalesce =>
                    /\ p \subseteq q /\ Cardinality(p) <= PageLimit
                    /\ p # q => Cardinality(p) = PageLimit
                    /\ \A y \in p, z \in q \ p : ~Precedes(Place(z), Place(y))
  BY ResponseFacts
<1> DEFINE mine == KeyPart(q, e[1])
<1>7. e[1] \in pager.keys /\ x[1] \in pager.keys /\ IsFiniteSet(pager.keys)
  BY <1>1, UnionFacts DEF PagingState, PagingShape, StableOK
<1>8. CASE e \in q
  <2>1. coalesce /\ ~Precedes(Place(e), Place(x))
    BY <1>1, <1>6, <1>8
  <2>2. Place(e) = Place(x)
    BY <1>3, <2>1, PrecedesOrder
  <2> QED
    BY <1>2, <2>1, <2>2
<1>9. CASE e \notin q
  <2>1. /\ IsFiniteSet(mine) /\ Cardinality(mine) >= PageLimit
        /\ \A z \in mine : z[2] >= e[2]
        /\ pager.one => \A z \in mine : Precedes(Place(z), Place(e))
    BY <1>6, <1>9, KeyPage
  <2>2. mine \subseteq q /\ \A z \in mine : z[1] = e[1]
    BY DEF KeyPart
  <2>3. CASE x \in mine
    <3>1. x[2] >= e[2] /\ ~pager.one /\ x[1] = e[1]
      BY <2>1, <2>2, <2>3
    <3> QED
      BY <1>3, <1>4, <1>5, <3>1
  <2>4. CASE x \notin mine
    <3>1. coalesce
      <4>1. ~coalesce => x[1] = e[1]
        BY <1>7, OneKey
      <4> QED
        BY <1>1, <1>6, <2>4, <4>1 DEF KeyPart
    <3>2. PICK w \in mine : w \notin p
      <4>1. CASE mine \subseteq p
        <5>1. IsFiniteSet(p) /\ Cardinality(p) \in Nat /\ Cardinality(mine) \in Nat
          BY <1>1, <2>1, UnionFacts, FS_Subset, FS_CardinalityType
        <5>2. Cardinality(mine) <= Cardinality(p)
          BY <4>1, <5>1, FS_Subset
        <5>3. Cardinality(mine) = Cardinality(p)
          BY <1>6, <2>1, <3>1, <5>1, <5>2, Constants
        <5>4. mine = p
          BY <4>1, <5>1, <5>3, FS_Subset
        <5> QED
          BY <1>1, <2>4, <5>4
      <4> QED
        BY <4>1
    <3>3. ~Precedes(Place(w), Place(x)) /\ w[2] >= e[2] /\ w \in Union
      BY <1>1, <1>6, <2>1, <2>2, <3>1, <3>2 DEF Each
    <3>4. Place(w) \in Cursor /\ Place(w)[1] = w[2] /\ w[2] \in Int
      BY <3>3, UnionFacts, PlaceType DEF Cursor
    <3>5. ~(w[2] > x[2])
      BY <1>3, <3>3, <3>4 DEF Precedes
    <3>6. x[2] = e[2]
      BY <1>3, <1>4, <3>3, <3>4, <3>5
    <3>7. ~pager.one
      <4>1. pager.one => Precedes(Place(w), Place(e))
        BY <2>1, <3>2
      <4>2. Precedes(Place(w), Place(e)) => Precedes(Place(x), Place(e))
        BY <1>3, <3>3, <3>4, PrecedesOrder
      <4> QED
        BY <4>1, <4>2
    <3> QED
      BY <1>2, <3>1, <3>6, <3>7
  <2> QED
    BY <2>3, <2>4
<1> QED
  BY <1>8, <1>9

\* An empty page leaves nothing.
LEMMA EmptyPage ==
    ASSUME PagingState, Quiet, {} \in Responses, NEW e \in stable,
           Answered(e[1]) # {}, pastStart(Place(e)), beforeStop(Place(e))
    PROVE  FALSE
<1>1. PICK q : /\ Each(q)
               /\ ~coalesce => {} = q
               /\ coalesce => ({} # q => Cardinality({}) = PageLimit)
  BY ResponseFacts
<1>2. q = {}
  BY <1>1, FS_EmptySet, Constants
<1>3. Cardinality(KeyPart(q, e[1])) >= PageLimit
  BY <1>1, <1>2, KeyPage
<1>4. KeyPart(q, e[1]) = {}
  BY <1>2 DEF KeyPart
<1> QED
  BY <1>3, <1>4, FS_EmptySet, Constants

\* The client is given a page.
LEMMA PageGiven ==
    ASSUME PagingState, Quiet, NEW p \in Responses, NEW x \in Last(p),
           pager'.one = pager.one, pager'.keys = pager.keys, pager'.stop = pager.stop,
           pager'.start = Place(x), pager'.given = pager.given \cup p,
           pager'.twice = pager.twice \cup (pager.given \cap p),
           pager'.blind = (pager.blind \/ {k \in pager.keys : Answered(k) = {}} # {}),
           pager'.phase = "next", stable' = stable
    PROVE  GivenOK' /\ NothingSkipped' /\ ListsEverything' /\ TwiceOnlyIfTied'
<1>1. /\ p \subseteq Union /\ x \in p
      /\ \A y \in p : y[2] >= x[2]
      /\ pager.one \/ coalesce => \A y \in p : ~Precedes(Place(x), Place(y))
  BY LastFacts
<1>2. coalesce' = coalesce
  BY DEF coalesce
<1>3. pager.start \in Cursor /\ pager.start[1] \in Int
  BY DEF PagingState, PagingShape, PagerType, Cursor
<1>4. \A y \in Union : /\ y \in Element /\ Place(y) \in Cursor /\ y[2] \in Int
                       /\ Place(y)[1] = y[2] /\ Precedes(pager.start, Place(y))
  BY UnionFacts, PlaceType DEF Cursor, pastStart
<1>5. /\ pager.given # {} => \E y \in pager.given : pager.start = Place(y)
      /\ \A y \in pager.given : /\ y[2] >= pager.start[1] /\ y \in Element
                                /\ pager.one \/ coalesce => ~Precedes(pager.start, Place(y))
  BY DEF PagingState, PagingShape, PagerType, GivenOK
<1>6. \A y \in pager.given : Place(y) \in Cursor /\ Place(y)[1] = y[2] /\ y[2] \in Int
  BY <1>5, PlaceType DEF Cursor
<1>7. x \in Union /\ Precedes(pager.start, Place(x)) /\ Place(x) \in Cursor
      /\ Place(x)[1] = x[2] /\ x[2] \in Int /\ pager.start[1] >= x[2]
  BY <1>1, <1>3, <1>4, PrecedesOrder
<1>8. GivenOK'
  <2>1. \E y \in pager'.given : pager'.start = Place(y)
    BY <1>1
  <2>2. ASSUME NEW y \in pager'.given
        PROVE  y[2] >= pager'.start[1] /\ (pager.one \/ coalesce => ~Precedes(pager'.start, Place(y)))
    <3>1. CASE y \in p
      BY <1>1, <1>7, <3>1
    <3>2. CASE y \in pager.given
      <4>1. y[2] >= x[2]
        BY <1>3, <1>5, <1>6, <1>7, <3>2
      <4>2. Precedes(Place(x), Place(y)) => Precedes(pager.start, Place(y))
        BY <1>3, <1>6, <1>7, <3>2, PrecedesOrder
      <4> QED
        BY <1>5, <1>7, <3>2, <4>1, <4>2
    <3> QED
      BY <3>1, <3>2
  <2> QED
    BY <1>2, <2>1, <2>2 DEF GivenOK, Place
<1>9. \A e : (e \in pager.given => e \in pager'.given) /\ (Tied(e) => Tied(e)')
             /\ (Doubled(e) => Doubled(e)') /\ (InRange(e)' <=> InRange(e))
  BY <1>2 DEF Tied, Doubled, InRange
<1>10. ASSUME NEW e \in stable, InRange(e), ~Precedes(Place(x), Place(e)), ~pager'.blind
       PROVE  e \in pager'.given \/ Tied(e)' \/ Doubled(e)'
  <2>1. ~pager.blind /\ \A k \in pager.keys : Answered(k) # {}
    BY <1>10
  <2>2. CASE pastStart(Place(e))
    <3>1. Answered(e[1]) # {} /\ beforeStop(Place(e))
      BY <1>10, <2>1 DEF PagingState, StableOK, InRange, beforeStop
    <3>2. CASE e \in p
      BY <3>2
    <3>3. CASE e \notin p
      <4>1. \/ ~pager.one /\ x[2] = e[2] /\ Place(x) # Place(e)
            \/ coalesce /\ Place(x) = Place(e) /\ x # e
        BY <1>10, <2>2, <3>1, <3>3, NextPage
      <4>2. x \in pager'.given
        BY <1>1
      <4>3. ~pager.one /\ x[2] = e[2] /\ Place(x) # Place(e) => Tied(e)'
        BY <4>2 DEF Tied, Place
      <4>4. coalesce /\ Place(x) = Place(e) /\ x # e => Doubled(e)'
        BY <1>2, <4>2 DEF Doubled, Place
      <4> QED
        BY <4>1, <4>3, <4>4
    <3> QED
      BY <3>2, <3>3
  <2>3. CASE ~pastStart(Place(e))
    <3>1. e \in pager.given \/ Tied(e) \/ Doubled(e)
      BY <1>10, <2>1, <2>3 DEF PagingState, NothingSkipped, pastStart
    <3> QED
      BY <1>9, <3>1
  <2> QED
    BY <2>2, <2>3
<1>11. NothingSkipped'
  BY <1>9, <1>10 DEF NothingSkipped, Place
<1>12. ListsEverything'
  BY DEF ListsEverything
<1>13. TwiceOnlyIfTied'
  <2> SUFFICES ASSUME NEW y \in pager'.twice PROVE ~coalesce /\ Tied(y)'
    BY <1>2 DEF TwiceOnlyIfTied
  <2>1. CASE y \in pager.twice
    BY <1>9, <2>1 DEF PagingState, TwiceOnlyIfTied
  <2>2. CASE y \in pager.given \cap p
    <3>1. Precedes(pager.start, Place(y)) /\ y[2] >= pager.start[1]
      BY <1>1, <1>4, <1>5, <2>2
    <3>2. ~pager.one /\ ~coalesce
      BY <1>5, <2>2, <3>1
    <3>3. pager.start[1] = y[2] /\ pager.start # Place(y)
      BY <1>3, <1>6, <2>2, <3>1, PrecedesOrder
    <3>4. PICK w \in pager.given : pager.start = Place(w)
      BY <1>5, <2>2
    <3>5. w \in pager'.given /\ w[2] = y[2] /\ Place(w) # Place(y)
      BY <1>6, <3>3, <3>4
    <3> QED
      BY <3>2, <3>5 DEF Tied, Place
  <2> QED
    BY <2>1, <2>2
<1> QED
  BY <1>8, <1>11, <1>12, <1>13

\* The listing ends with an empty page.
LEMMA ListingEnds ==
    ASSUME PagingState, Quiet, {} \in Responses,
           pager'.one = pager.one, pager'.keys = pager.keys, pager'.stop = pager.stop,
           pager'.start = pager.start, pager'.given = pager.given,
           pager'.twice = pager.twice,
           pager'.blind = (pager.blind \/ {k \in pager.keys : Answered(k) = {}} # {}),
           stable' = stable
    PROVE  GivenOK' /\ NothingSkipped' /\ ListsEverything' /\ TwiceOnlyIfTied'
<1>1. coalesce' = coalesce
  BY DEF coalesce
<1>2. \A e : Tied(e)' = Tied(e) /\ Doubled(e)' = Doubled(e) /\ InRange(e)' = InRange(e)
  BY <1>1 DEF Tied, Doubled, InRange
<1>3. GivenOK'
  BY <1>1 DEF PagingState, GivenOK
<1>4. TwiceOnlyIfTied'
  BY <1>1, <1>2 DEF PagingState, TwiceOnlyIfTied
<1>5. ASSUME NEW e \in stable, InRange(e), ~pager'.blind
      PROVE  e \in pager.given \/ Tied(e) \/ Doubled(e)
  <2>1. ~pager.blind /\ \A k \in pager.keys : Answered(k) # {}
    BY <1>5
  <2>2. CASE pastStart(Place(e))
    <3>1. Answered(e[1]) # {} /\ beforeStop(Place(e))
      BY <1>5, <2>1 DEF PagingState, StableOK, InRange, beforeStop
    <3> QED
      BY <2>2, <3>1, EmptyPage
  <2>3. CASE ~pastStart(Place(e))
    BY <1>5, <2>1, <2>3 DEF PagingState, NothingSkipped, pastStart
  <2> QED
    BY <2>2, <2>3
<1>6. NothingSkipped' /\ ListsEverything'
  BY <1>2, <1>5 DEF NothingSkipped, ListsEverything, Place
<1> QED
  BY <1>3, <1>4, <1>6

\* When all answers are in, the pipelines are gone.
LEMMA PageLeft ==
    ASSUME PagingState, pipe' = [c \in Cluster |-> [i \in Instance |-> NoPipe]],
           UNCHANGED <<data, stable, errors>>, pager' \in PagerType,
           pager'.phase \in {"next", "done", "error"}, pager'.keys = pager.keys,
           pager'.twice \subseteq pager'.given,
           GivenOK' /\ NothingSkipped' /\ ListsEverything' /\ TwiceOnlyIfTied'
    PROVE  PagingState'
<1>1. PagingShape'
  BY DEF PagingState, PagingShape
<1>2. PipesOK'
  <2>1. pipe' \in [Cluster -> [Instance -> Pipe]]
    BY NoPipeFacts
  <2>2. \A c \in Cluster, i \in Instance : pipe'[c][i] = NoPipe
    OBVIOUS
  <2>3. \A c \in Cluster, i \in Instance : PipeOK(c, i, pipe[c][i])'
    BY <2>2, NoPipeFacts DEF PipeOK, Pipe, Pages, NoPipe, NoPages
  <2> QED
    BY <2>1, <2>3 DEF PipesOK
<1>3. PagesOK'
  BY NoPipeFacts DEF PagesOK
<1>4. StableOK'
  BY DEF PagingState, StableOK, Held
<1> QED
  BY <1>1, <1>2, <1>3, <1>4 DEF PagingState

LEMMA PageDoneStep == ASSUME PagingState, PageDone PROVE PagingState'
<1> DEFINE none == {k \in pager.keys : Answered(k) = {}}
<1>1. /\ pager.phase = "wait" /\ Quiet
      /\ pipe' = [c \in Cluster |-> [i \in Instance |-> NoPipe]]
      /\ UNCHANGED <<data, stable, errors>>
  BY DEF PageDone, Quiet
<1>2. \/ pager' = [pager EXCEPT !.phase = "error", !.asked = {}]
      \/ {} \in Responses /\ pager' = [pager EXCEPT !.phase = "done", !.asked = {},
                                         !.blind = @ \/ none # {}]
      \/ \E p \in Responses : \E x \in Last(p) :
           pager' = [pager EXCEPT !.phase = "next", !.asked = {}, !.start = Place(x),
                       !.given = @ \cup p, !.twice = @ \cup (pager.given \cap p),
                       !.blind = @ \/ none # {}]
  BY DEF PageDone
<1>3. pager \in PagerType /\ pager.twice \subseteq pager.given
  BY DEF PagingState, PagingShape
<1> HIDE DEF none
<1>4. CASE pager' = [pager EXCEPT !.phase = "error", !.asked = {}]
  <2>1. /\ pager'.phase = "error" /\ pager' \in PagerType
        /\ pager'.one = pager.one /\ pager'.keys = pager.keys /\ pager'.stop = pager.stop
        /\ pager'.start = pager.start /\ pager'.given = pager.given
        /\ pager'.twice = pager.twice /\ pager'.blind = pager.blind
    BY <1>3, <1>4 DEF PagerType
  <2>2. GivenOK' /\ NothingSkipped' /\ ListsEverything' /\ TwiceOnlyIfTied'
    BY <1>1, <2>1, ListingStays
  <2> QED
    BY <1>1, <1>3, <2>1, <2>2, PageLeft
<1>5. CASE {} \in Responses /\ pager' = [pager EXCEPT !.phase = "done", !.asked = {},
                                           !.blind = @ \/ none # {}]
  <2>1. /\ pager'.phase = "done" /\ pager' \in PagerType
        /\ pager'.one = pager.one /\ pager'.keys = pager.keys /\ pager'.stop = pager.stop
        /\ pager'.start = pager.start /\ pager'.given = pager.given
        /\ pager'.twice = pager.twice /\ pager'.blind = (pager.blind \/ none # {})
    BY <1>3, <1>5 DEF PagerType
  <2>2. GivenOK' /\ NothingSkipped' /\ ListsEverything' /\ TwiceOnlyIfTied'
    BY <1>1, <1>5, <2>1, ListingEnds DEF none
  <2> QED
    BY <1>1, <1>3, <2>1, <2>2, PageLeft
<1>6. ASSUME NEW p \in Responses, NEW x \in Last(p),
             pager' = [pager EXCEPT !.phase = "next", !.asked = {}, !.start = Place(x),
                         !.given = @ \cup p, !.twice = @ \cup (pager.given \cap p),
                         !.blind = @ \/ none # {}]
      PROVE  PagingState'
  <2>1. p \in SUBSET Element /\ Place(x) \in Cursor
    BY <1>1, LastFacts, UnionFacts
  <2>2. /\ pager'.phase = "next" /\ pager' \in PagerType
        /\ pager'.one = pager.one /\ pager'.keys = pager.keys /\ pager'.stop = pager.stop
        /\ pager'.start = Place(x) /\ pager'.given = pager.given \cup p
        /\ pager'.twice = pager.twice \cup (pager.given \cap p)
        /\ pager'.blind = (pager.blind \/ none # {})
    BY <1>3, <1>6, <2>1 DEF PagerType
  <2>3. GivenOK' /\ NothingSkipped' /\ ListsEverything' /\ TwiceOnlyIfTied'
    BY <1>1, <2>2, PageGiven DEF none
  <2>4. pager'.twice \subseteq pager'.given
    BY <1>3, <2>2
  <2> QED
    BY <1>1, <2>2, <2>3, <2>4, PageLeft
<1> QED
  BY <1>2, <1>4, <1>5, <1>6
-----------------------------------------------------------------------------
(***************************************************************************)
(* The invariant, and what follows from it.                                *)
(***************************************************************************)
ReadsInv == StoreTypeOK /\ RoleOK /\ WalkState /\ PagingState

LEMMA ReadsBegin == ASSUME Init PROVE ReadsInv
<1>1. WalkState /\ steady = {}
  BY WalkBegins DEF Init
<1>2. PagingState /\ stable = {} /\ pager.phase = "idle"
  BY PagingBegins DEF Init
<1>3. StoreTypeOK
  BY StoredType DEF Init, StoreTypeOK
<1>4. RoleOK
  BY <1>1, <1>2 DEF Init, RoleOK
<1> QED
  BY <1>1, <1>2, <1>3, <1>4 DEF ReadsInv

LEMMA PagingStep ==
    ASSUME StoreTypeOK, PagingState, PagingNext PROVE PagingState' /\ StoreTypeOK'
<1>1. CASE PageStart
  BY <1>1, PageStartStep DEF PageStart, StoreTypeOK
<1>2. CASE PageAsk
  BY <1>2, PageAskStep DEF PageAsk, StoreTypeOK
<1>3. ASSUME NEW c \in Cluster, NEW i \in Instance, RangeFail(c, i)
      PROVE  PagingState' /\ StoreTypeOK'
  BY <1>3, RangeFailStep DEF RangeFail, StoreTypeOK
<1>4. ASSUME NEW c \in Cluster, NEW i \in Instance, NEW k \in Key, RangeKey(c, i, k)
      PROVE  PagingState' /\ StoreTypeOK'
  <2>1. UNCHANGED data
    BY <1>4 DEF RangeKey
  <2> QED
    BY <1>4, <2>1, RangeKeyStep DEF StoreTypeOK
<1>5. CASE PageDone
  BY <1>5, PageDoneStep DEF PageDone, StoreTypeOK
<1>6. CASE PagingWrite
  <2>1. PICK w \in PageWrites : Write(w)
    BY <1>6 DEF PagingWrite
  <2>2. w \in Command
    BY Constants
  <2> QED
    BY <1>6, <2>1, <2>2, WriteType, PagingWriteStep
<1> QED
  BY <1>1, <1>2, <1>3, <1>4, <1>5, <1>6 DEF PagingNext, RangeStep

LEMMA ReadsStep == ASSUME ReadsInv, [Next]_vars PROVE ReadsInv'
<1>1. CASE role = "pager" /\ PagingNext /\ UNCHANGED <<walkVars, role>>
  <2>1. PagingState' /\ StoreTypeOK'
    BY <1>1, PagingStep DEF ReadsInv
  <2>2. UNCHANGED <<keys, hand, walk, steady, outages>> /\ steady = {} /\ role' = "pager"
    BY <1>1 DEF walkVars, ReadsInv, RoleOK
  <2>3. WalkState'
    BY <2>2 DEF ReadsInv, WalkState, WalkShape, KeysOK, Covered
  <2>4. RoleOK'
    BY <2>2 DEF RoleOK
  <2> QED
    BY <2>1, <2>3, <2>4 DEF ReadsInv
<1>2. CASE role = "walker" /\ WalkNext /\ UNCHANGED <<pagingVars, role>>
  <2>1. WalkState' /\ StoreTypeOK'
    BY <1>2, WalkStep DEF ReadsInv
  <2>2. UNCHANGED <<pager, pipe, stable, errors>> /\ stable = {} /\ pager.phase = "idle"
        /\ role' = "walker"
    BY <1>2 DEF pagingVars, ReadsInv, RoleOK
  <2>3. PagingShape' /\ StableOK'
    BY <2>2 DEF ReadsInv, PagingState, PagingShape, StableOK
  <2>4. PipesOK'
    BY <2>2 DEF ReadsInv, PagingState, PipesOK, PipeOK
  <2>5. PagesOK'
    BY <2>2 DEF ReadsInv, PagingState, PagesOK, PageOK, pastStart, beforeStop
  <2>6. GivenOK' /\ NothingSkipped' /\ ListsEverything' /\ TwiceOnlyIfTied'
    BY <2>2, ListingStays DEF ReadsInv
  <2>7. RoleOK'
    BY <2>2 DEF RoleOK
  <2> QED
    BY <2>1, <2>3, <2>4, <2>5, <2>6, <2>7 DEF ReadsInv, PagingState
<1>3. CASE UNCHANGED vars
  <2>1. /\ UNCHANGED <<keys, hand, walk, steady, outages>> /\ UNCHANGED data /\ UNCHANGED role
        /\ UNCHANGED <<pager, pipe, stable, errors>>
    BY <1>3 DEF vars, walkVars, pagingVars
  <2>2. StoreTypeOK' /\ RoleOK'
    BY <2>1 DEF ReadsInv, StoreTypeOK, RoleOK
  <2>3. WalkState'
    BY <2>1 DEF ReadsInv, WalkState, WalkShape, KeysOK, Covered, NonEmpty, Exists, Ahead, Taken
  <2>4. PagingShape' /\ StableOK'
    BY <2>1 DEF ReadsInv, PagingState, PagingShape, StableOK, Held
  <2>5. PipesOK'
    BY <2>1 DEF ReadsInv, PagingState, PipesOK, PipeOK
  <2>6. PagesOK'
    BY <2>1 DEF ReadsInv, PagingState, PagesOK, PageOK, pastStart, beforeStop
  <2>7. GivenOK' /\ NothingSkipped' /\ ListsEverything' /\ TwiceOnlyIfTied'
    BY <2>1, ListingStays DEF ReadsInv
  <2> QED
    BY <2>2, <2>3, <2>4, <2>5, <2>6, <2>7 DEF ReadsInv, PagingState
<1> QED
  BY <1>1, <1>2, <1>3 DEF Next

LEMMA ReadsInvariant == Spec => []ReadsInv
<1>1. Init => ReadsInv
  BY ReadsBegin
<1>2. ReadsInv /\ [Next]_vars => ReadsInv'
  BY ReadsStep
<1> QED
  BY <1>1, <1>2, PTL DEF Spec

\* Every variable of the readers has its type.
THEOREM TypeCorrect == Spec => []TypeOK
<1>1. ReadsInv => TypeOK
  <2> SUFFICES ASSUME ReadsInv PROVE TypeOK
    OBVIOUS
  <2>1. /\ pager.phase \in {"idle", "next", "wait", "done", "error"}
        /\ pager.keys \subseteq Key /\ pager.asked \subseteq Cluster
        /\ {pager.start, pager.stop} \subseteq Cursor
        /\ pager.given \subseteq Element /\ pager.twice \subseteq pager.given
        /\ {pager.one, pager.blind} \subseteq BOOLEAN
        /\ stable \subseteq Element /\ errors \in 0..MaxErrors
    BY DEF ReadsInv, PagingState, PagingShape, PagerType
  <2>2. ASSUME NEW c \in Cluster, NEW i \in Instance
        PROVE  LET q == pipe[c][i] IN
               /\ q.state \in {"idle", "run", "ok", "exhausted", "failed"}
               /\ q.state = "run" <=> q.todo # {}
               /\ q.todo \cap (q.retry \cup DOMAIN q.pages) = {}
               /\ q.retry \cap DOMAIN q.pages = {}
               /\ q.attempt \in 0..MaxAttempts
    BY DEF ReadsInv, PagingState, PipesOK, PipeOK, Pipe
  <2>3. /\ keys.phase \in {"idle", "next", "scan", "reply", "flush"}
        /\ keys.todo \cup keys.reply \subseteq Key \X Sides
        /\ walk.phase \in {"idle", "walking"} /\ outages \in 0..MaxOutages
    BY DEF ReadsInv, WalkState, WalkShape
  <2>4. /\ Cardinality(keys.batch) <= BatchSize /\ Cardinality(hand) <= BatchSize
        /\ walk.batch = {} <=> walk.need = {}
    BY DEF ReadsInv, WalkState, KeysOK
  <2>5. steady \subseteq Cluster \X Key
    BY DEF ReadsInv, WalkState, Covered, NonEmpty
  <2> QED
    BY <2>1, <2>2, <2>3, <2>4, <2>5 DEF ReadsInv, TypeOK
<1> QED
  BY <1>1, ReadsInvariant, PTL

\* The cursor never jumps over an element that all clusters hold throughout the
\* listing, whichever clusters answer the pages, however many attempts they
\* take, and whatever is written meanwhile; but where the order of equal
\* scores is lost, or nobody answered for a key.
THEOREM SkipCorrect == Spec => []NothingSkipped
<1>1. ReadsInv => NothingSkipped
  BY DEF ReadsInv, PagingState
<1> QED
  BY <1>1, ReadsInvariant, PTL

\* A listing that ends with an empty page has given all that all clusters hold
\* throughout, with the same exceptions.
THEOREM ListingCorrect == Spec => []ListsEverything
<1>1. ReadsInv => ListsEverything
  BY DEF ReadsInv, PagingState
<1> QED
  BY <1>1, ReadsInvariant, PTL

\* No element is given twice, but by SendAllReadAll for a single key, one of
\* several with the same score.
THEOREM TwiceCorrect == Spec => []TwiceOnlyIfTied
<1>1. ReadsInv => TwiceOnlyIfTied
  BY DEF ReadsInv, PagingState
<1> QED
  BY <1>1, ReadsInvariant, PTL

\* A walk has visited every key that some cluster held throughout.
THEOREM WalkCorrect == Spec => []EveryKeyWalked
<1>1. ReadsInv => EveryKeyWalked
  <2> SUFFICES ASSUME ReadsInv, Ended, NEW x \in steady PROVE x[2] \in walk.walked
    BY DEF EveryKeyWalked
  <2>1. /\ walk.phase = "walking" /\ walk.left = {} /\ keys.phase = "idle" /\ hand = {}
        /\ walk.batch = {} /\ keys.batch = {}
    BY DEF Ended, ReadsInv, WalkState, KeysOK
  <2>2. Ahead(x[1], x[2]) \/ Taken(x[2])
    BY <2>1 DEF ReadsInv, WalkState, Covered
  <2> QED
    BY <2>1, <2>2 DEF Ahead, Taken
<1> QED
  BY <1>1, ReadsInvariant, PTL
-----------------------------------------------------------------------------
(***************************************************************************)
(* What a step does to the pages.                                          *)
(***************************************************************************)
\* Only the answer to a command of the same pipeline adds pages, or takes commands
\* off without an error.
LEMMA WhoAnswers ==
    ASSUME ReadsInv, [Next]_vars, NEW c \in Cluster, NEW i \in Instance, NEW k,
           \/ k \in DOMAIN pipe'[c][i].pages \ DOMAIN pipe[c][i].pages
           \/ /\ k \in pipe[c][i].todo \ pipe'[c][i].todo
              /\ pipe'[c][i].state # "failed"
    PROVE  k \in Key /\ RangeKey(c, i, k)
<1>1. /\ pipe[c][i] \in Pipe /\ PipeOK(c, i, pipe[c][i])
      /\ pipe \in [Cluster -> [Instance -> Pipe]]
  BY DEF ReadsInv, PagingState, PipesOK
<1>2. pipe' # pipe
  OBVIOUS
<1>3. PagingNext /\ pipe' # pipe
  BY <1>2 DEF Next, vars, pagingVars
<1>4. ~PageStart /\ ~PagingWrite
  BY <1>2 DEF PageStart, PagingWrite
<1>5. ASSUME PageAsk PROVE FALSE
  <2>1. pipe[c][i] = NoPipe
    BY <1>5, NothingRuns DEF ReadsInv, PageAsk
  <2>2. DOMAIN pipe'[c][i].pages = {}
    BY <1>5, PageAskStep DEF ReadsInv
  <2> QED
    BY <2>1, <2>2, NoPipeFacts
<1>6. ASSUME PageDone PROVE FALSE
  <2>1. pipe'[c][i] = NoPipe
    BY <1>6 DEF PageDone
  <2>2. pipe[c][i].todo = {}
    <3>1. CASE c \in pager.asked
      BY <1>1, <1>6, <3>1 DEF PageDone, PipeOK
    <3>2. CASE c \notin pager.asked
      BY <1>1, <3>2, NoPipeFacts DEF PipeOK
    <3> QED
      BY <3>1, <3>2
  <2> QED
    BY <2>1, <2>2, NoPipeFacts
<1>7. ASSUME NEW d \in Cluster, NEW j \in Instance, RangeFail(d, j) PROVE FALSE
  <2>1. pipe' = [pipe EXCEPT ![d][j] = [@ EXCEPT !.state = "failed", !.todo = {}]]
    BY <1>7 DEF RangeFail
  <2>2. CASE d = c /\ j = i
    BY <1>1, <2>1, <2>2 DEF Pipe
  <2>3. CASE ~(d = c /\ j = i)
    BY <1>1, <2>1, <2>3
  <2> QED
    BY <2>2, <2>3
<1>8. PICK d \in Cluster, j \in Instance, x \in Key : RangeKey(d, j, x)
  BY <1>3, <1>4, <1>5, <1>6, <1>7 DEF PagingNext, RangeStep
<1>9. PICK q, z :
        /\ q \in Pipe
        /\ pipe' = [pipe EXCEPT ![d][j] = EndAttempt(q)]
        /\ q.state = "run" /\ q.todo = pipe[d][j].todo \ {x}
        /\ \/ /\ q.retry = pipe[d][j].retry
              /\ DOMAIN q.pages = DOMAIN pipe[d][j].pages \cup {x}
           \/ /\ q.retry = pipe[d][j].retry \cup {x}
              /\ q.pages = pipe[d][j].pages
  <2>1. StoreTypeOK /\ PagingState
    BY DEF ReadsInv
  <2> QED
    BY <1>8, <2>1, RangeKeyPipe
<1>10. d = c /\ j = i
  BY <1>1, <1>9
<1>11. pipe'[c][i] = EndAttempt(q)
  BY <1>1, <1>9, <1>10
<1>12. DOMAIN EndAttempt(q).pages = DOMAIN q.pages
  BY DEF EndAttempt, Pipe
<1>13. q.todo # {} => EndAttempt(q) = q
  BY DEF EndAttempt
<1>14. k = x
  <2>1. CASE k \in DOMAIN pipe'[c][i].pages \ DOMAIN pipe[c][i].pages
    BY <1>9, <1>10, <1>11, <1>12, <2>1
  <2>2. CASE k \in pipe[c][i].todo \ pipe'[c][i].todo
    BY <1>9, <1>10, <1>11, <1>13, <2>2
  <2> QED
    BY <2>1, <2>2
<1> QED
  BY <1>8, <1>10, <1>14

\* The answer adds the page, or leaves none if too many elements stand at the
\* cursor.
LEMMA WhatIsAnswered ==
    ASSUME ReadsInv, NEW c \in Cluster, NEW i \in Instance, NEW k \in Key, RangeKey(c, i, k),
           NEW z0, z0 = data[c][k]["ins"], NEW page, page = pipe'[c][i].pages[k]
    PROVE  /\ k \in DOMAIN pipe'[c][i].pages =>
                /\ DOMAIN page \subseteq Between(z0)
                /\ \A m \in DOMAIN page : page[m] = z0[m]
                /\ \A m \in DOMAIN page, x \in Between(z0) \ DOMAIN page :
                     Precedes(<<z0[m], m>>, <<z0[x], x>>)
                /\ DOMAIN page = Between(z0) \/ Cardinality(DOMAIN page) = PageLimit
           /\ k \notin DOMAIN pipe'[c][i].pages =>
                Cardinality(Crowd(z0)) > pipe[c][i].limit - PageLimit
<1>1. /\ StoreTypeOK /\ PagingState /\ z0 \in ZSet
      /\ pager.start \in Cursor /\ pager.stop \in Cursor
  BY InsType DEF ReadsInv, PagingState, PagingShape, PagerType
<1>2. /\ pipe[c][i] \in Pipe /\ PipeOK(c, i, pipe[c][i]) /\ k \in pipe[c][i].todo
      /\ pipe \in [Cluster -> [Instance -> Pipe]] /\ pipe[c][i].limit \in Nat
  BY DEF ReadsInv, PagingState, PipesOK, RangeKey, Pipe
<1>3. PICK q, z :
        /\ q \in Pipe
        /\ z = Values(z0, pipe[c][i].limit)
        /\ pipe' = [pipe EXCEPT ![c][i] = EndAttempt(q)]
        /\ \/ /\ Conclusive(z, pipe[c][i].limit)
              /\ DOMAIN q.pages = DOMAIN pipe[c][i].pages \cup {k}
              /\ q.pages[k] = ZTop(Validated(z), PageLimit)
           \/ /\ ~Conclusive(z, pipe[c][i].limit)
              /\ q.pages = pipe[c][i].pages
  BY <1>1, RangeKeyPipe
<1>4. pipe'[c][i].pages = q.pages
  <2>1. pipe'[c][i] = EndAttempt(q)
    BY <1>2, <1>3
  <2>2. EndAttempt(q).pages = q.pages
    BY DEF EndAttempt, Pipe
  <2> QED
    BY <2>1, <2>2
<1>5. k \notin DOMAIN pipe[c][i].pages
  BY <1>2 DEF PipeOK
<1>6. CASE Conclusive(z, pipe[c][i].limit)
  <2>1. k \in DOMAIN pipe'[c][i].pages /\ page = ZTop(Validated(z), PageLimit)
    BY <1>3, <1>4, <1>6
  <2> DEFINE t == ZTop(Validated(z), PageLimit)
  <2> DEFINE n == pipe[c][i].limit
  <2>2. n \in Nat /\ z = Values(z0, n) /\ Conclusive(z, n)
    BY <1>2, <1>3, <1>6
  <2> HIDE DEF n
  <2>3. /\ \A m \in DOMAIN t : m \in Between(z0) /\ t[m] = z0[m]
        /\ \A m \in DOMAIN t, x \in Between(z0) \ DOMAIN t :
             Precedes(<<z0[m], m>>, <<z0[x], x>>)
        /\ DOMAIN t = Between(z0) \/ Cardinality(DOMAIN t) = PageLimit
    <3>1. \A m \in DOMAIN t : m \in Between(z0) /\ t[m] = z0[m]
      BY <1>1, <2>2, AnswerFacts, SMTT(40)
    <3>2. \A m \in DOMAIN t, x \in Between(z0) \ DOMAIN t :
             Precedes(<<z0[m], m>>, <<z0[x], x>>)
      BY <1>1, <2>2, AnswerFacts
    <3>3. DOMAIN t = Between(z0) \/ Cardinality(DOMAIN t) = PageLimit
      BY <1>1, <2>2, AnswerFacts
    <3> QED
      BY <3>1, <3>2, <3>3
  <2>4. page = t
    BY <2>1
  <2> HIDE DEF t
  <2> QED
    BY <2>1, <2>3, <2>4
<1>7. CASE ~Conclusive(z, pipe[c][i].limit)
  <2>1. k \notin DOMAIN pipe'[c][i].pages
    BY <1>3, <1>4, <1>5, <1>7
  <2>2. Cardinality(Crowd(z0)) > pipe[c][i].limit - PageLimit
    BY <1>1, <1>2, <1>3, <1>7, AnswerFacts
  <2> QED
    BY <2>1, <2>2
<1> QED
  BY <1>6, <1>7

\* Every page is what one instance held between the cursors at one moment: the
\* first elements of it, in order, and PageLimit of them unless there are fewer.
THEOREM SnapshotCorrect == Spec => PageIsSnapshot
<1> DEFINE A == \A c \in Cluster, i \in Instance :
                  \A k \in DOMAIN pipe'[c][i].pages \ DOMAIN pipe[c][i].pages :
                    LET z == data[c][k]["ins"]
                        between == {m \in DOMAIN z : /\ Precedes(pager.start, <<z[m], m>>)
                                                     /\ Precedes(<<z[m], m>>, pager.stop)}
                        page == pipe'[c][i].pages[k]
                    IN  /\ DOMAIN page \subseteq between
                        /\ \A m \in DOMAIN page : page[m] = z[m]
                        /\ \A m \in DOMAIN page, x \in between \ DOMAIN page :
                             Precedes(<<z[m], m>>, <<z[x], x>>)
                        /\ \/ DOMAIN page = between
                           \/ Cardinality(DOMAIN page) = PageLimit
<1>1. ReadsInv /\ [Next]_vars => A
  <2> SUFFICES ASSUME ReadsInv, [Next]_vars, NEW c \in Cluster, NEW i \in Instance,
                      NEW k \in DOMAIN pipe'[c][i].pages \ DOMAIN pipe[c][i].pages
               PROVE  LET z == data[c][k]["ins"]
                          page == pipe'[c][i].pages[k]
                      IN  /\ DOMAIN page \subseteq Between(z)
                          /\ \A m \in DOMAIN page : page[m] = z[m]
                          /\ \A m \in DOMAIN page, x \in Between(z) \ DOMAIN page :
                               Precedes(<<z[m], m>>, <<z[x], x>>)
                          /\ \/ DOMAIN page = Between(z)
                             \/ Cardinality(DOMAIN page) = PageLimit
    BY ZenonT(30) DEF Between, pastStart, beforeStop
  <2>1. k \in Key /\ RangeKey(c, i, k)
    BY WhoAnswers
  <2> QED
    BY <2>1, WhatIsAnswered
<1>2. ReadsInv /\ [Next]_vars => [A]_vars
  BY <1>1
<1> QED
  BY <1>2, ReadsInvariant, PTL DEF Spec, PageIsSnapshot

\* A key is asked for again, or refused, only if more elements than the attempt
\* leaves room for stand at the cursor or before it with its score.
THEOREM RefusalCorrect == Spec => RefusedOnlyIfCrowded
<1> DEFINE A == \A c \in Cluster, i \in Instance :
                  \A k \in pipe[c][i].todo \ (pipe'[c][i].todo \cup DOMAIN pipe'[c][i].pages) :
                    pipe'[c][i].state # "failed" =>
                      LET z == data[c][k]["ins"] IN
                      Cardinality({m \in DOMAIN z : z[m] = pager.start[1] /\ m >= pager.start[2]})
                        > pipe[c][i].limit - PageLimit
<1>1. ReadsInv /\ [Next]_vars => A
  <2> SUFFICES ASSUME ReadsInv, [Next]_vars, NEW c \in Cluster, NEW i \in Instance,
                      NEW k \in pipe[c][i].todo \ (pipe'[c][i].todo \cup DOMAIN pipe'[c][i].pages),
                      pipe'[c][i].state # "failed"
               PROVE  Cardinality(Crowd(data[c][k]["ins"])) > pipe[c][i].limit - PageLimit
    BY DEF Crowd
  <2>1. k \in Key /\ RangeKey(c, i, k)
    BY WhoAnswers
  <2> QED
    BY <2>1, WhatIsAnswered
<1>2. ReadsInv /\ [Next]_vars => [A]_vars
  BY <1>1
<1> QED
  BY <1>2, ReadsInvariant, PTL DEF Spec, RefusedOnlyIfCrowded
=============================================================================
