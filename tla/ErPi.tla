-------------------------------- MODULE ErPi --------------------------------
(***************************************************************************)
(* The programs of ER-pi around one library: an application of the CRDTs   *)
(* (Crdt), the script and driver that replay interleavings on one of them  *)
(* (JavaReplay), the player of OrbitDB (OrbitReplay), the two generators of *)
(* interleavings (Orderings) and the pruning programs (Pruning).  They     *)
(* share nothing but files that are whole before the next program reads    *)
(* them, so a behaviour runs one.                                          *)
(***************************************************************************)
EXTENDS OrbitReplay, Orderings, Pruning

VARIABLE program    \* which one

vars == <<crdtVars, replayVars, orbitVars, orderingVars, pruningVars, program>>

Programs == {"application", "script", "orbit", "dfs", "random", "pruning"}

\* The others stay as they begin, in a state fixed by the one that runs.
Init ==
    /\ program \in Programs
    /\ CrdtInit /\ (program # "application" => kind = "TwoPSet")
    /\ ReplayInit /\ OrbitInit
    /\ OrderingInit(program = "dfs")
    /\ program \notin {"dfs", "random"} => events = CHOOSE l \in EventLists : TRUE
    /\ PruningInit
    /\ program # "pruning" => input = CHOOSE in \in Inputs : TRUE

Next ==
    /\ UNCHANGED program
    /\ \/ /\ program = "application" /\ CrdtNext
          /\ UNCHANGED <<replayVars, orbitVars, orderingVars, pruningVars>>
       \/ /\ program = "script" /\ ReplayNext
          /\ UNCHANGED <<crdtVars, orbitVars, orderingVars, pruningVars>>
       \/ /\ program = "orbit" /\ OrbitNext
          /\ UNCHANGED <<crdtVars, replayVars, orderingVars, pruningVars>>
       \/ /\ program = "dfs" /\ DfsNext
          /\ UNCHANGED <<crdtVars, replayVars, orbitVars, pruningVars>>
       \/ /\ program = "random" /\ Shuffle
          /\ UNCHANGED <<crdtVars, replayVars, orbitVars, pruningVars>>
       \/ /\ program = "pruning" /\ Prune
          /\ UNCHANGED <<crdtVars, replayVars, orbitVars, orderingVars>>

Spec == Init /\ [][Next]_vars
-----------------------------------------------------------------------------
(***************************************************************************)
(* Properties.                                                             *)
(***************************************************************************)
CountsType(f) == DOMAIN f \subseteq Key /\ \A k \in DOMAIN f : f[k] \in 0..MaxUpdates
TwoPType(s) == s.removes \subseteq s.adds

\* Every variable has its type; a 2P set removes only what it has added.
TypeOK ==
    /\ kind \in Kinds
    /\ \A r \in Replicas :
         CASE kind \in {"GCounter", "GState"} -> CountsType(obj[r])
           [] kind = "PNCounter" -> CountsType(obj[r].inc) /\ CountsType(obj[r].dec)
           [] kind = "GSet"      -> obj[r] \subseteq Item
           [] kind = "TwoPSet"   -> TwoPType(obj[r])
           [] kind = "ORSet"     -> obj[r].observed \cup obj[r].removed
                                      \subseteq Item \X (1..MaxUpdates)
    /\ updates \in 0..MaxUpdates
    /\ main.state \in {"off", "run"} /\ main.i \in 0..MaxFiles
    /\ TwoPType(main.sets[1]) /\ TwoPType(main.sets[2])
    /\ starts.n \in 0..MaxCommands
    /\ player.next \in 1..(Len(Ils) + 1) /\ Len(answers) = player.next - 1
    /\ \A j \in 1..(Len(frames) - 1) : Len(frames[j].path) = Len(frames[j + 1].path) + 1

\* "a merge method that is idempotent, commutative and associative" (README.md:4 of
\* Java_RDL), of whatever objects the replicas of an application hold.
MergeLaws ==
    \A r, s, t \in Replicas :
      /\ Merged(kind, obj[r], obj[r]) = obj[r]
      /\ Merged(kind, obj[r], obj[s]) = Merged(kind, obj[s], obj[r])
      /\ Merged(kind, Merged(kind, obj[r], obj[s]), obj[t])
           = Merged(kind, obj[r], Merged(kind, obj[s], obj[t]))

Of(r, op, x) == {u \in seen[r] : u.op = op /\ u.x = x}

\* As far as r knows, one replica only has counted under the key.
OneWriter(r, x) == \A u, v \in seen[r] : u.x = x /\ v.x = x => u.by = v.by

\* The value of a counter or of a grow-only or two-phase object depends only on
\* which updates its replica has made or merged, not on their order, on who
\* merged whom how often, or on copies: every increment counts once, and an item
\* is in the set if it was added and no removal found it there.  Increments of a
\* key by several replicas may count as one, as merge takes the higher count, but
\* never as more than there are.
AgreesWithHistory ==
    \A r \in Replicas :
      LET n(op) == Cardinality({u \in seen[r] : u.op = op})
          added == {u.x : u \in {v \in seen[r] : v.op = "add"}}
          gone == {u.x : u \in {v \in seen[r] : v.op = "remove" /\ v.undoes # {}}}
          value == Value(kind, obj[r])
          own == \A x \in Key : OneWriter(r, x)
      IN  CASE kind = "GCounter" -> value <= n("add") /\ (own => value = n("add"))
            [] kind = "PNCounter" -> own => value = n("add") - n("remove")
            [] kind = "GState" ->
                 /\ DOMAIN value = added
                 /\ \A x \in added :
                      LET all == Cardinality(Of(r, "add", x)) - 1
                      IN  value[x] <= all /\ (OneWriter(r, x) => value[x] = all)
            [] kind \in {"GSet", "TwoPSet"} -> value = added \ gone
            [] OTHER -> TRUE

\* "an add wins over a remove during merge" (ORSet.java:14): an item stays while the
\* replica knows of an addition that no removal it knows of had seen, and nothing
\* is in the set that was never added.
ORSetAddWins ==
    kind = "ORSet" =>
      \A r \in Replicas :
        LET adds == {u \in seen[r] : u.op = "add"}
            undone == UNION {u.undoes : u \in seen[r]}
        IN  /\ {u.x : u \in {v \in adds : v.id \notin undone}} \subseteq Value(kind, obj[r])
            /\ Value(kind, obj[r]) \subseteq {u.x : u \in adds}

\* Starts, stops, crashes and cleans in any order: the files that Main plays hold
\* complete interleavings of the recorded events exactly if a Main before this start
\* was the first to record since the last clean and got far enough.  The first
\* start plays empty files.  Not so if a clean has met a running Main: that one goes
\* on recording in the middle, or has its files removed.
FullAfterFirstRecord ==
    main.state = "run" /\ main.i > 0 /\ ~starts.torn =>
      LET first == {InitRun[j] : j \in 1..Events}
          full(f) == Len(f) = Events /\ {f[j] : j \in DOMAIN f} = first
      IN  (\A i \in DOMAIN files : full(files[i])) <=> starts.first >= Events

\* It can tell only if the lines of InitRun are distinct and not fewer than the events.
DistinctLines ==
    /\ Events <= Len(InitRun)
    /\ \A i, j \in DOMAIN InitRun : i # j => InitRun[i] # InitRun[j]

\* Main plays every interleaving on the two sets the one before has left, and the
\* tombstones make the events idempotent: once the first file is played, no
\* other order of its events shows anything else.
LaterFilesShowNothingNew == \A i \in DOMAIN shown : shown[i] = shown[1]

\* Main's sets after the first k lines of InitRun.
Played[k \in 0..Len(InitRun)] ==
    IF k = 0 THEN NoMain.sets ELSE Do_Actions(Played[k - 1], InitRun[k])

\* So it is of an InitRun whose additions and removals all reach the set that they
\* name, and whose first set ends with nothing that the second has not.
InitRunSettles ==
    LET s == Played[Len(InitRun)]
    IN  /\ s[1].adds \subseteq s[2].adds /\ s[1].removes \subseteq s[2].removes
        /\ \A i \in DOMAIN InitRun :
             LET l == InitRun[i]
             IN  /\ l[1] = "add" => l[2] \in s[SetOf(l[3])].adds
                 /\ l[1] = "remove" => l[2] \in s[SetOf(l[3])].removes

\* What a get or an iterate of OrbitDB shows is decided by its place in its own
\* file: nothing before its database is created, then what was stored since it was
\* last created, for each key the last.
Before(order, j, op) ==
    {i \in 1..(j - 1) : order[i][1] = op /\ order[i][Len(order[i])] = order[j][Len(order[j])]}

Stored(order, j) ==
    {i \in Before(order, j, "add") :
       /\ Before(order, i, "OrbitDB") # {}
       /\ \A h \in Before(order, j, "OrbitDB") : h < i
       /\ \A h \in Before(order, j, "add") : order[h][2] = order[i][2] => h <= i}

Answers(order) ==
    LET reads == {j \in DOMAIN order : order[j][1] \in {"get", "iterate"}
                                          /\ Before(order, j, "OrbitDB") # {}}
    IN  {<<order[j], {<<order[i][2], order[i][3]>> : i \in {a \in Stored(order, j) :
              order[j][1] = "get" => order[a][2] = order[j][2]}}>> : j \in reads}

PlayerShowsItsFile == \A n \in DOMAIN answers : answers[n] = Answers(Ils[Filed[n]])

\* The thirty orders that the rule keeps of the 720 show all that any order can,
\* but for a read that finds an entry while the other came before the database.
AllButOneRead ==
    LET all == {Answers(Arranged(Facts, p)) : p \in Permutation(Len(Facts))}
    IN  all \ {a \in all : \E read \in a : a = {read} /\ read[2] # {}}

RuleKeepsAnswers == {Answers(Ils[i]) : i \in DOMAIN Ils} = AllButOneRead

WhatPrunedOrdersShow ==
    program = "orbit" /\ player.lines = <<>> =>
      /\ PlayerShowsItsFile
      /\ Len(answers) = Len(Ils) => {answers[n] : n \in DOMAIN answers} = AllButOneRead

\* Both generators print every distinct ordering of the events exactly once before
\* they end; the random one ends only if all events are distinct.
EachOrderOnce ==
    LET n == Len(events)
        orders == {Arranged(events, p) : p \in Permutation(n)}
        done == \/ program = "dfs" /\ frames = <<>>
                \/ program = "random" /\ RandomDone
    IN  /\ \A o \in orders \cap BagToSet(printed) : printed[o] = 1
        /\ done => BagToSet(printed) = orders
        /\ program = "random" /\ done => Cardinality(orders) = Factorial[n]

\* The interleavings are of the same distinct events, those of failed_ops among them;
\* the emulators group two of their own items, of which replica.py has five.
DistinctInputs ==
    LET once(s) == \A i, j \in DOMAIN s : i # j => s[i] # s[j]
        ils == Elements(Interleavings)
    IN  /\ \A il, k \in ils : once(il) /\ Elements(il) = Elements(k)
        /\ \A in \in Inputs :
             /\ once(in.events)
             /\ in.algorithm = "failed" =>
                  \A il \in ils : Elements(in.events) \cup Elements(in.successors) \subseteq Elements(il)
             /\ in.algorithm \in {"emulated group", "emulated replica"} =>
                  \E i, j \in DOMAIN in.events :
                    i # j /\ in.successors = <<in.events[i], in.events[j]>>
             /\ in.algorithm = "emulated replica" => Len(in.events) = 5

\* A program crashes exactly if it needs a place of one of its events in every
\* interleaving and some interleaving has none of them, be it an empty file.
Crashes ==
    /\ input.algorithm \in {"independence", "failed"}
    /\ \E il \in Elements(Interleavings) : Elements(input.events) \cap Elements(il) = {}

\* What is left of the exhaustive interleavings of distinct events by a program that
\* does not crash.  replica_specific leaves none; event_independence
\* all or, for a single independent event, none; failed_ops those in which the
\* predecessors or the successors are out of order or the last predecessor comes
\* after the last successor, which are not the failed ones but all others.
\* The emulators prune as is meant: those in which the grouped items follow each
\* other, and one of those that are alike up to the last item of the replica.
KeptOrders ==
    LET kept == output.ils
        ils == Elements(Interleavings)
        place(e, il) == CHOOSE i \in DOMAIN il : il[i] = e
        inOrder(es, il) == \A i \in 1..(Len(es) - 1) : place(es[i], il) < place(es[i + 1], il)
        last(es) == es[Len(es)]
        ps == input.events
        ss == input.successors
        upTo(il, es) ==   \* up to the last of es
          SubSeq(il, 1, CHOOSE i \in DOMAIN il : il[i] \in es
                          /\ \A j \in (i + 1)..Len(il) : il[j] \notin es)
        lists == {Arranged(ps, p) : p \in Permutation(Len(ps))}
    IN  CASE input.algorithm = "group" -> \A il \in kept : Len(il) = 1
          [] input.algorithm = "independence" ->
               kept = IF Len(ps) > 1 THEN ils ELSE {}
          [] input.algorithm = "failed" /\ Len(ps) = Len(ss) ->
               ils \ kept = {il \in ils :
                  inOrder(ps, il) /\ inOrder(ss, il) /\ place(last(ps), il) < place(last(ss), il)}
          [] input.algorithm = "replica" -> kept = {}
          [] input.algorithm = "emulated group" ->
               kept = {l \in lists : place(ss[2], l) = place(ss[1], l) + 1}
          [] input.algorithm = "emulated replica" ->
               \A l \in lists :
                  Cardinality({k \in kept : upTo(k, Elements(ss)) = upTo(l, Elements(ss))}) = 1
          [] OTHER -> kept \subseteq ils

\* How the pruning programs and the emulators end, and what they leave.
WhatPruningKeeps ==
    /\ output.state # "none" => (output.state = "crashed" <=> Crashes)
    /\ output.state = "written" => KeptOrders
=============================================================================
