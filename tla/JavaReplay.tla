----------------------------- MODULE JavaReplay -----------------------------
(***************************************************************************)
(* How Java_RDL tests TwoPSet: crdts_run.sh builds the interleavings with  *)
(* the Datalog rules (Datalog/DatalogGen.cpp, souffle), writes one file    *)
(* for each with IlGen.cpp and then runs Main, which first executes the    *)
(* events of InitRun/events.facts, recording each in Events/events.facts,  *)
(* and then plays the files.  IlGen takes the events from that record.     *)
(*                                                                         *)
(* A line of a file is a tuple of its fields, "add_1_2" being              *)
(* <<"add", 1, 2>>, without the Lamport time IlGen appends, which nobody   *)
(* reads.                                                                  *)
(***************************************************************************)
EXTENDS Crdt, Arrangements

CONSTANTS InitRun,      \* InitRun/events.facts
          Events,       \* argument of DatalogGen in the Makefile: 6
          MaxFiles,     \* Main plays the files 1 to 30
          MaxCommands   \* bound: starts and cleans of the script

ASSUME JavaReplayAssumption ==
    /\ Events \in Nat /\ Events >= 6     \* souffle refuses the rule if there is no N6
    /\ MaxFiles \in Nat /\ MaxCommands \in Nat
    /\ InitRun \in Seq({InitRun[i] : i \in DOMAIN InitRun})
    /\ \A i \in DOMAIN InitRun : Len(InitRun[i]) >= 2

VARIABLES record,   \* Events/events.facts
          files,    \* interleavings/ils_<i>.txt
          main,     \* Main's process
          starts,   \* history: starts and cleans and, since the last clean, the lines
                    \* of the first record and whether Main went on beyond it
          shown     \* history: what the running Main has printed, per file

replayVars == <<record, files, main, starts, shown>>

NoMain == [state |-> "off", i |-> 0, lines |-> <<>>, sets |-> <<NoTwoP, NoTwoP>>]
-----------------------------------------------------------------------------
(***************************************************************************)
(* make datalog ils, interleave.                                           *)
(***************************************************************************)
\* cr: the orderings of 1..n that the rule of DatalogGen keeps.
Cr(n) == {o \in Permutation(n) : o[1] < o[2] /\ o[3] > o[4] /\ o[6] = 6}

\* cr.csv, as souffle writes it.
Rows == Sorted(Cr(Events))

\* A number without an event leaves no line.
replaceNumbers(row, eventMap) ==
    LET known == Selected(row, DOMAIN eventMap)
    IN  [j \in DOMAIN known |-> eventMap[known[j]]]

\* crdts_run.sh start: interleave to its end, then Main in the background.
Start ==
    /\ main.state = "off" /\ starts.n < MaxCommands
    /\ files' = [i \in DOMAIN Rows |-> replaceNumbers(Rows[i], record)]
    /\ main' = [NoMain EXCEPT !.state = "run", !.lines = InitRun]
    /\ starts' = [starts EXCEPT !.n = @ + 1,
                                !.first = IF @ = 0 THEN Len(record) ELSE @]
    /\ shown' = <<>>
    /\ UNCHANGED record

\* crdts_run.sh stop, or the process dies.
Stop ==
    /\ main.state = "run"
    /\ main' = NoMain
    /\ UNCHANGED <<record, files, starts, shown>>

\* crdts_run.sh clean: make clean removes the files, the record and the pid file
\* too, so that the stop that follows finds none and a Main that runs goes on.
Clean ==
    /\ starts.n < MaxCommands
    /\ record' = <<>> /\ files' = <<>>
    /\ starts' = [n |-> starts.n + 1, first |-> 0, torn |-> main.state = "run"]
    /\ UNCHANGED <<main, shown>>
-----------------------------------------------------------------------------
(***************************************************************************)
(* Main.                                                                   *)
(***************************************************************************)
\* The set named by a field: set1 for "1", set2 for everything else.
SetOf(id) == IF id = 1 THEN 1 ELSE 2

\* Do_Actions on the two sets.
Do_Actions(sets, line) ==
    CASE line[1] = "add"    -> [sets EXCEPT ![SetOf(line[3])] = TwoPAdd(@, line[2])]
      [] line[1] = "remove" -> [sets EXCEPT ![SetOf(line[3])] = TwoPRemove(@, line[2])]
      [] OTHER -> LET to == SetOf(line[2])
                  IN  [sets EXCEPT ![to] = TwoPMerge(@, sets[3 - to])]

\* Mutant: only additions and removals are recorded.
LineUpdatesOnly ==
    /\ main.state = "run" /\ main.lines # <<>>
    /\ main' = [main EXCEPT !.lines = Tail(@), !.sets = Do_Actions(@, Head(main.lines))]
    /\ record' = IF main.i = 0 /\ Head(main.lines)[1] # "merge"
                 THEN Append(record, Head(main.lines)) ELSE record
    /\ UNCHANGED <<files, starts, shown>>

\* One line of a file; those of InitRun are recorded.
Line ==
    /\ main.state = "run" /\ main.lines # <<>>
    /\ main' = [main EXCEPT !.lines = Tail(@), !.sets = Do_Actions(@, Head(main.lines))]
    /\ record' = IF main.i = 0 THEN Append(record, Head(main.lines)) ELSE record
    /\ UNCHANGED <<files, starts, shown>>

\* The end of a file: the sets are printed, unless it was InitRun or there is
\* none, and the next file is played on the same two sets.
NextFile ==
    /\ main.state = "run" /\ main.lines = <<>>
    /\ shown' = IF main.i \in DOMAIN files
                THEN Append(shown, <<TwoPGet(main.sets[1]), TwoPGet(main.sets[2])>>)
                ELSE shown
    /\ main' = IF main.i = MaxFiles THEN NoMain
               ELSE [main EXCEPT !.i = @ + 1,
                       !.lines = IF main.i + 1 \in DOMAIN files THEN files[main.i + 1] ELSE <<>>]
    /\ UNCHANGED <<record, files, starts>>
-----------------------------------------------------------------------------
ReplayInit == /\ record = <<>> /\ files = <<>>
              /\ main = NoMain
              /\ starts = [n |-> 0, first |-> 0, torn |-> FALSE]
              /\ shown = <<>>

ReplayNext == Start \/ Stop \/ Clean \/ Line \/ NextFile
=============================================================================
