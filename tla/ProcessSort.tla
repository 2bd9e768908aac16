---------------------------- MODULE ProcessSort ----------------------------
(***************************************************************************)
(* The start order of the programs: config/process_sort.go.  The sorter is *)
(* a state machine because Go visits the keys of a map in an order it      *)
(* chooses anew for every loop: each visit is a step.  The process manager *)
(* sorts under its lock, on every request that looks at all programs.      *)
(***************************************************************************)
EXTENDS Integers, Sequences, SequencesExt, FiniteSets

CONSTANTS
  Programs,  \* configured programs
  Names,     \* names a depends_on option may list, configured or not
  Priority   \* the "priority" option

ASSUME ProgramsAssumption == Programs \subseteq Names /\ IsFiniteSet(Names)
ASSUME PriorityAssumption == Priority \in [Programs -> Int]

VARIABLES
  dependsOnGraph,     \* the depends_on option of each program; {} if it has none
  finishedPrograms,   \* names already placed
  progsStartOrder,    \* the names in the order in which they were placed
  unvisited,          \* keys the current loop over a map has still to visit
  pc,                 \* "free", "test", "pass", "sorted" or "done"
  result              \* what SortProgram returns

vars == <<dependsOnGraph, finishedPrograms, progsStartOrder, unvisited, pc, result>>

\* The keys of dependsOnGraph.
Depending == {p \in Programs : dependsOnGraph[p] # {}}

\* getDependsOnInfo: every name on either side of a dependency.
getDependsOnInfo == Depending \cup UNION {dependsOnGraph[p] : p \in Programs}

\* inFinishedPrograms
inFinishedPrograms_Any(p) == dependsOnGraph[p] \cap finishedPrograms # {}
inFinishedPrograms(p) == dependsOnGraph[p] \subseteq finishedPrograms

\* initProgramWithoutDepends
procsWithoutDepends_NoSource == {p \in Programs : dependsOnGraph[p] = {}}
procsWithoutDepends == Programs \ getDependsOnInfo

\* initDepends has read the configuration, whatever it says.
Init ==
  /\ dependsOnGraph \in [Programs -> SUBSET Names]
  /\ finishedPrograms = {} /\ progsStartOrder = <<>>
  /\ unvisited = getDependsOnInfo \ Depending
  /\ pc = "free" /\ result = <<>>

Place(n) ==
  /\ finishedPrograms' = finishedPrograms \cup {n}
  /\ progsStartOrder' = Append(progsStartOrder, n)

\* sortDepends, first loop: the names without dependencies of their own.
PlaceFree(n) ==
  /\ pc = "free" /\ n \in unvisited
  /\ Place(n)
  /\ unvisited' = unvisited \ {n}
  /\ UNCHANGED <<dependsOnGraph, pc, result>>

FreePlaced ==
  /\ pc = "free" /\ unvisited = {}
  /\ pc' = "test"
  /\ UNCHANGED <<dependsOnGraph, finishedPrograms, progsStartOrder, unvisited, result>>

\* sortDepends, second loop: passes over the graph until every name is placed.
AllPlaced_OneMore == Cardinality(finishedPrograms) > Cardinality(getDependsOnInfo)
AllPlaced_OneShort == Cardinality(finishedPrograms) + 1 >= Cardinality(getDependsOnInfo)
AllPlaced == Cardinality(finishedPrograms) >= Cardinality(getDependsOnInfo)

BeginPass ==
  /\ pc = "test" /\ ~AllPlaced
  /\ pc' = "pass" /\ unvisited' = Depending
  /\ UNCHANGED <<dependsOnGraph, finishedPrograms, progsStartOrder, result>>

EndPass ==
  /\ pc = "pass" /\ unvisited = {}
  /\ pc' = "test"
  /\ UNCHANGED <<dependsOnGraph, finishedPrograms, progsStartOrder, unvisited, result>>

Visit_Again(n) ==
  /\ pc = "pass" /\ n \in unvisited
  /\ unvisited' = unvisited \ {n}
  /\ IF inFinishedPrograms(n) THEN Place(n) ELSE UNCHANGED <<finishedPrograms, progsStartOrder>>
  /\ UNCHANGED <<dependsOnGraph, pc, result>>
Visit(n) ==
  /\ pc = "pass" /\ n \in unvisited
  /\ unvisited' = unvisited \ {n}
  /\ IF n \notin finishedPrograms /\ inFinishedPrograms(n)
     THEN Place(n) ELSE UNCHANGED <<finishedPrograms, progsStartOrder>>
  /\ UNCHANGED <<dependsOnGraph, pc, result>>

\* SortProgram: the loop over the order keeps the configured names.
Configured(order) ==
  LET kept[i \in 0..Len(order)] ==
        IF i = 0 THEN <<>>
        ELSE IF order[i] \in Programs THEN Append(kept[i-1], order[i]) ELSE kept[i-1]
  IN kept[Len(order)]

\* The order begins with the configured names placed.
Sorted_Unconfigured ==
  /\ pc = "test" /\ AllPlaced
  /\ pc' = "sorted" /\ result' = progsStartOrder
  /\ UNCHANGED <<dependsOnGraph, finishedPrograms, progsStartOrder, unvisited>>
Sorted ==
  /\ pc = "test" /\ AllPlaced
  /\ pc' = "sorted"
  /\ result' = Configured(progsStartOrder)
  /\ UNCHANGED <<dependsOnGraph, finishedPrograms, progsStartOrder, unvisited>>

\* SortProgram: then the others by priority; sort.Sort is not stable.
ByPriority(s) == \A i, j \in DOMAIN s : i < j => Priority[s[i]] <= Priority[s[j]]

AppendRest ==
  /\ pc = "sorted"
  /\ \E s \in SetToSeqs(procsWithoutDepends) : ByPriority(s) /\ result' = result \o s
  /\ pc' = "done"
  /\ UNCHANGED <<dependsOnGraph, finishedPrograms, progsStartOrder, unvisited>>

Next ==
  \/ \E n \in Names : PlaceFree(n) \/ Visit(n)
  \/ FreePlaced \/ BeginPass \/ EndPass \/ Sorted \/ AppendRest

Spec == Init /\ [][Next]_vars

\* The sorter runs on.
FairSpec == Spec /\ WF_vars(Next)

-----------------------------------------------------------------------------

TypeOK ==
  /\ dependsOnGraph \in [Programs -> SUBSET Names]
  /\ finishedPrograms \subseteq Names /\ progsStartOrder \in Seq(Names)
  /\ unvisited \subseteq Names
  /\ pc \in {"free", "test", "pass", "sorted", "done"}
  /\ result \in Seq(Programs)

\* The order never names a program before everything it depends on, in
\* whatever order the maps are visited.
DependenciesFirst ==
  \A j \in DOMAIN progsStartOrder : \A p \in Programs :
    progsStartOrder[j] = p => \A d \in dependsOnGraph[p] : \E i \in 1..(j - 1) : progsStartOrder[i] = d

\* No name is placed twice, so that no program is started twice.
PlacedOnce == \A i, j \in DOMAIN progsStartOrder : progsStartOrder[i] = progsStartOrder[j] => i = j

\* What SortProgram returns: every configured program exactly once, each after
\* the configured programs it depends on.
ResultIsStartOrder ==
  pc = "done" =>
    /\ Len(result) = Cardinality(Programs) /\ ToSet(result) = Programs
    /\ \A i, j \in DOMAIN result : result[i] \in dependsOnGraph[result[j]] => i < j

\* No dependency cycle.
Acyclic ==
  \A S \in SUBSET Programs : S # {} => \E p \in S : dependsOnGraph[p] \cap S = {}

\* Sorting ends when the dependencies have no cycle, even if they name
\* programs that do not exist.  With a cycle it never does, and the manager's
\* lock stays taken.
SortEnds == Acyclic ~> pc = "done"

\* With a cycle no order is ever returned.
CycleNeverSorted == ~Acyclic => pc \notin {"sorted", "done"}
=============================================================================
