----------------------------- MODULE OrbitReplay ----------------------------
(***************************************************************************)
(* How OrbitDB_RDL tests OrbitDB: interleavings by the same rule as        *)
(* Java_RDL, written to files from Datalog/events.facts by a copy of       *)
(* IlGen, and ProxyInvocations.js, which plays each file on databases of   *)
(* its own.  createProxy only logs a call and passes it on.                *)
(*                                                                         *)
(* A line is a tuple, "add_bar_foo_1" being <<"add", "bar", "foo", 1>>,    *)
(* without the Lamport time, which nobody reads.                           *)
(***************************************************************************)
EXTENDS JavaReplay

CONSTANT Facts      \* Datalog/events.facts

ASSUME OrbitReplayAssumption == \A i \in DOMAIN Facts : Len(Facts[i]) >= 2

VARIABLES player,   \* the process: next file, the rest of the current one, its databases
          answers   \* history: what each file played has shown, the current one last

orbitVars == <<player, answers>>

\* interleavings/ils_<i>.txt.
Ils == [i \in DOMAIN Rows |-> replaceNumbers(Rows[i], Facts)]

\* KeyStore: what is stored under each key.
EmptyStore == [k \in {} |-> ""]

\* The names are sorted as text: ils_1.txt, ils_10.txt, ..., ils_19.txt, ils_2.txt.
Filed == LET key(i) == IF i < 10 THEN 100 * i ELSE 10 * i + 1
         IN  [n \in DOMAIN Ils |-> CHOOSE i \in DOMAIN Ils :
                Cardinality({j \in DOMAIN Ils : key(j) < key(i)}) = n - 1]

\* The id of a database is the last field of a line.
NoDatabases == [id \in {} |-> EmptyStore]

\* Mutant: the databases are created once for all files.
OpenOnSameInstances ==
    /\ player.lines = <<>> /\ player.next \in DOMAIN Ils
    /\ player' = [player EXCEPT !.next = @ + 1, !.lines = Ils[Filed[player.next]]]
    /\ answers' = Append(answers, {})

\* Single_Interleaving begins with the next file and no database.
Open ==
    /\ player.lines = <<>> /\ player.next \in DOMAIN Ils
    /\ player' = [next |-> player.next + 1, lines |-> Ils[Filed[player.next]],
                  instances |-> NoDatabases]
    /\ answers' = Append(answers, {})

\* The entries that a get or an iterate prints.
Shows(line, store) ==
    LET keys == IF line[1] = "get" THEN {line[2]} ELSE DOMAIN store
    IN  {<<k, store[k]>> : k \in keys \cap DOMAIN store}

\* The next line.  One for a database that is not there yet does nothing.
Command ==
    /\ player.lines # <<>>
    /\ LET line == Head(player.lines)
           id == line[Len(line)]
           known == id \in DOMAIN player.instances
           store == player.instances[id]
           set(s) == player' = [player EXCEPT !.lines = Tail(@), !.instances = Put(@, id, s)]
       IN  \/ line[1] = "OrbitDB" /\ set(EmptyStore) /\ UNCHANGED answers
           \/ line[1] = "add" /\ known /\ set(Put(store, line[2], line[3])) /\ UNCHANGED answers
           \/ /\ line[1] \in {"get", "iterate"} /\ known
              /\ player' = [player EXCEPT !.lines = Tail(@)]
              /\ answers' = [answers EXCEPT ![Len(answers)] = @ \cup {<<line, Shows(line, store)>>}]
           \/ /\ line[1] # "OrbitDB" /\ ~known
              /\ player' = [player EXCEPT !.lines = Tail(@)]
              /\ UNCHANGED answers

OrbitInit == /\ player = [next |-> 1, lines |-> <<>>, instances |-> NoDatabases]
             /\ answers = <<>>

OrbitNext == Open \/ Command
=============================================================================
