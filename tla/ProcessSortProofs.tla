------------------------- MODULE ProcessSortProofs -------------------------
(***************************************************************************)
(* Proofs about ProcessSort, for any set of programs and any dependencies. *)
(***************************************************************************)
EXTENDS ProcessSort, Induction, SequenceTheorems, FiniteSetTheorems, TLAPS

USE ProgramsAssumption

OrderTyped ==
  /\ dependsOnGraph \in [Programs -> SUBSET Names]
  /\ finishedPrograms \subseteq Names /\ progsStartOrder \in Seq(Names)
  /\ pc \in {"free", "test", "pass", "sorted", "done"}

\* The placed names are those of the order, ...
Placed ==
  /\ finishedPrograms \subseteq getDependsOnInfo
  /\ \A n \in Names : n \in finishedPrograms <=> \E i \in DOMAIN progsStartOrder : progsStartOrder[i] = n

\* ... a loop over a map has still to visit keys of that map, ...
Visiting ==
  /\ pc = "free" => unvisited \subseteq getDependsOnInfo \ Depending /\ unvisited \cap finishedPrograms = {}
  /\ pc = "pass" => unvisited \subseteq Depending

\* ... and the passes end only when every name is placed.
Complete == pc \in {"sorted", "done"} => finishedPrograms = getDependsOnInfo

IInv == OrderTyped /\ Placed /\ Visiting /\ Complete /\ DependenciesFirst /\ PlacedOnce

-----------------------------------------------------------------------------
\* Every name in a dependency is a name, and there are finitely many.
LEMMA InfoFinite ==
  ASSUME OrderTyped
  PROVE  getDependsOnInfo \subseteq Names /\ IsFiniteSet(getDependsOnInfo)
  <1>1. getDependsOnInfo \subseteq Names  BY DEF OrderTyped, getDependsOnInfo, Depending
  <1> QED  BY <1>1, FS_Subset

\* Placing a new name whose dependencies are placed keeps the order right.
LEMMA PlaceKeeps ==
  ASSUME IInv, NEW n \in Names, Place(n), n \notin finishedPrograms, UNCHANGED dependsOnGraph,
         n \in getDependsOnInfo,
         n \in Programs => dependsOnGraph[n] \subseteq finishedPrograms
  PROVE  /\ progsStartOrder' \in Seq(Names) /\ finishedPrograms' \subseteq Names
         /\ Placed' /\ DependenciesFirst' /\ PlacedOnce'
  <1> DEFINE s == progsStartOrder
             t == progsStartOrder'
  <1>1. s \in Seq(Names) /\ t = Append(s, n)  BY DEF IInv, OrderTyped, Place
  <1>2. /\ t \in Seq(Names) /\ Len(s) \in Nat /\ Len(t) = Len(s) + 1
        /\ DOMAIN s = 1..Len(s) /\ DOMAIN t = 1..(Len(s) + 1)
        /\ \A i \in 1..Len(s) : t[i] = s[i]
        /\ t[Len(s) + 1] = n
    BY <1>1, AppendProperties, LenProperties
  <1>3. \A i \in DOMAIN s : s[i] \in finishedPrograms
    <2>1. \A i \in DOMAIN s : s[i] \in Names  BY <1>1, LenProperties
    <2> QED  BY <2>1 DEF IInv, Placed
  <1>4. Placed'
    <2>1. getDependsOnInfo' = getDependsOnInfo  BY DEF getDependsOnInfo, Depending
    <2>2. finishedPrograms' \subseteq getDependsOnInfo'  BY <2>1 DEF IInv, Placed, Place
    <2>3. ASSUME NEW m \in Names
          PROVE  m \in finishedPrograms' <=> \E i \in DOMAIN t : t[i] = m
      <3>1. CASE m = n  BY <1>2, <3>1 DEF Place
      <3>2. CASE m # n
        <4>1. m \in finishedPrograms' <=> m \in finishedPrograms  BY <3>2 DEF Place
        <4>2. m \in finishedPrograms <=> \E i \in DOMAIN s : s[i] = m  BY DEF IInv, Placed
        <4>3. (\E i \in DOMAIN s : s[i] = m) <=> \E i \in DOMAIN t : t[i] = m  BY <1>2, <3>2
        <4> QED  BY <4>1, <4>2, <4>3
      <3> QED  BY <3>1, <3>2
    <2> QED  BY <2>2, <2>3 DEF Placed
  <1>5. DependenciesFirst'
    <2> SUFFICES ASSUME NEW j \in DOMAIN t, NEW p \in Programs, t[j] = p, NEW d \in dependsOnGraph[p]
                 PROVE  \E i \in 1..(j - 1) : t[i] = d
      BY DEF DependenciesFirst
    <2>1. CASE j \in DOMAIN s
      <3>1. \E i \in 1..(j - 1) : s[i] = d  BY <1>2, <2>1 DEF IInv, DependenciesFirst
      <3> QED  BY <1>2, <2>1, <3>1
    <2>2. CASE j = Len(s) + 1
      <3>1. d \in finishedPrograms /\ d \in Names  BY <1>2, <2>2 DEF IInv, OrderTyped
      <3>2. \E i \in DOMAIN s : s[i] = d  BY <3>1 DEF IInv, Placed
      <3> QED  BY <1>2, <2>2, <3>2
    <2> QED  BY <1>2, <2>1, <2>2
  <1>6. PlacedOnce'
    <2> SUFFICES ASSUME NEW i \in DOMAIN t, NEW j \in DOMAIN t, t[i] = t[j] PROVE i = j
      BY DEF PlacedOnce
    <2>1. CASE i \in DOMAIN s /\ j \in DOMAIN s  BY <1>2, <2>1 DEF IInv, PlacedOnce
    <2>2. CASE i \in DOMAIN s /\ j = Len(s) + 1  BY <1>2, <1>3, <2>2
    <2>3. CASE i = Len(s) + 1 /\ j \in DOMAIN s  BY <1>2, <1>3, <2>3
    <2>4. CASE i = Len(s) + 1 /\ j = Len(s) + 1  BY <2>4
    <2> QED  BY <1>2, <2>1, <2>2, <2>3, <2>4
  <1>7. finishedPrograms' \subseteq Names  BY DEF IInv, OrderTyped, Place
  <1> QED  BY <1>2, <1>4, <1>5, <1>6, <1>7

\* Nothing is placed yet.
LEMMA InitIInv == Init => IInv
  <1> SUFFICES ASSUME Init PROVE IInv
    OBVIOUS
  <1>1. OrderTyped  BY DEF Init, OrderTyped
  <1>2. DOMAIN progsStartOrder = {}  BY DEF Init
  <1>3. Placed /\ Visiting /\ Complete  BY <1>2 DEF Init, Placed, Visiting, Complete
  <1>4. DependenciesFirst /\ PlacedOnce  BY <1>2 DEF DependenciesFirst, PlacedOnce
  <1> QED  BY <1>1, <1>3, <1>4 DEF IInv

\* Steps that place nothing keep the order.
LEMMA OrderKept ==
  ASSUME IInv, UNCHANGED <<dependsOnGraph, finishedPrograms, progsStartOrder>>,
         pc' \in {"free", "test", "pass", "sorted", "done"}
  PROVE  /\ OrderTyped' /\ Placed' /\ DependenciesFirst' /\ PlacedOnce'
         /\ getDependsOnInfo' = getDependsOnInfo /\ Depending' = Depending
  <1>1. getDependsOnInfo' = getDependsOnInfo /\ Depending' = Depending
    BY DEF getDependsOnInfo, Depending
  <1>2. OrderTyped'  BY DEF IInv, OrderTyped
  <1>3. Placed'  BY <1>1 DEF IInv, Placed
  <1>4. DependenciesFirst' /\ PlacedOnce'  BY DEF IInv, DependenciesFirst, PlacedOnce
  <1> QED  BY <1>1, <1>2, <1>3, <1>4

\* Every step keeps the invariant.
LEMMA StepIInv == IInv /\ [Next]_vars => IInv'
  <1> SUFFICES ASSUME IInv, [Next]_vars PROVE IInv'
    OBVIOUS
  <1>1. pc \in {"free", "test", "pass", "sorted", "done"}  BY DEF IInv, OrderTyped
  <1>2. ASSUME NEW n \in Names, PlaceFree(n) PROVE IInv'
    <2>1. n \in getDependsOnInfo /\ n \notin Depending /\ n \notin finishedPrograms
      BY <1>2 DEF PlaceFree, IInv, Visiting
    <2>2. n \in Programs => dependsOnGraph[n] \subseteq finishedPrograms  BY <2>1 DEF Depending
    <2>3. Place(n) /\ UNCHANGED dependsOnGraph  BY <1>2 DEF PlaceFree
    <2>4. /\ progsStartOrder' \in Seq(Names) /\ finishedPrograms' \subseteq Names
          /\ Placed' /\ DependenciesFirst' /\ PlacedOnce'
      BY <2>1, <2>2, <2>3, PlaceKeeps
    <2>5. OrderTyped'  BY <1>2, <2>4 DEF IInv, OrderTyped, PlaceFree
    <2>6. getDependsOnInfo' = getDependsOnInfo /\ Depending' = Depending
      BY <2>3 DEF getDependsOnInfo, Depending
    <2>7. Visiting' /\ Complete'
      BY <1>2, <2>6 DEF IInv, PlaceFree, Place, Visiting, Complete
    <2> QED  BY <2>4, <2>5, <2>7 DEF IInv
  <1>3. ASSUME NEW n \in Names, Visit(n) PROVE IInv'
    <2>1. n \in Depending /\ UNCHANGED <<dependsOnGraph, pc>> /\ pc = "pass" /\ unvisited' \subseteq unvisited
      BY <1>3 DEF Visit, IInv, Visiting
    <2>2. n \in getDependsOnInfo  BY <2>1 DEF getDependsOnInfo
    <2>3. getDependsOnInfo' = getDependsOnInfo /\ Depending' = Depending
      BY <2>1 DEF getDependsOnInfo, Depending
    <2>4. Visiting' /\ Complete'  BY <2>1, <2>3 DEF IInv, Visiting, Complete
    <2>5. CASE n \notin finishedPrograms /\ inFinishedPrograms(n)
      <3>1. Place(n)  BY <1>3, <2>5 DEF Visit
      <3>2. /\ progsStartOrder' \in Seq(Names) /\ finishedPrograms' \subseteq Names
            /\ Placed' /\ DependenciesFirst' /\ PlacedOnce'
        BY <2>1, <2>2, <2>5, <3>1, PlaceKeeps DEF inFinishedPrograms
      <3>3. OrderTyped'  BY <2>1, <3>2 DEF IInv, OrderTyped
      <3> QED  BY <2>4, <3>2, <3>3 DEF IInv
    <2>6. CASE ~(n \notin finishedPrograms /\ inFinishedPrograms(n))
      <3>1. UNCHANGED <<finishedPrograms, progsStartOrder>>  BY <1>3, <2>6 DEF Visit
      <3> QED  BY <1>1, <2>1, <2>4, <3>1, OrderKept DEF IInv
    <2> QED  BY <2>5, <2>6
  <1>4. CASE FreePlaced \/ BeginPass \/ EndPass
    <2>1. /\ UNCHANGED <<dependsOnGraph, finishedPrograms, progsStartOrder>>
          /\ pc' = "test" \/ (pc' = "pass" /\ unvisited' = Depending)
      BY <1>4 DEF FreePlaced, BeginPass, EndPass
    <2>2. Visiting' /\ Complete'  BY <2>1, OrderKept DEF Visiting, Complete
    <2> QED  BY <2>1, <2>2, OrderKept DEF IInv
  <1>5. CASE Sorted
    <2>1. UNCHANGED <<dependsOnGraph, finishedPrograms, progsStartOrder>> /\ pc' = "sorted"
      BY <1>5 DEF Sorted
    <2>2. finishedPrograms = getDependsOnInfo
      <3> DEFINE F == finishedPrograms
                 G == getDependsOnInfo
      <3>1. IsFiniteSet(G) /\ F \subseteq G  BY InfoFinite DEF IInv, Placed
      <3>2. IsFiniteSet(F) /\ Cardinality(F) <= Cardinality(G) /\ (Cardinality(G) = Cardinality(F) => G = F)
        BY <3>1, FS_Subset
      <3>3. Cardinality(F) \in Nat /\ Cardinality(G) \in Nat  BY <3>1, <3>2, FS_CardinalityType
      <3>4. Cardinality(F) >= Cardinality(G)  BY <1>5 DEF Sorted, AllPlaced
      <3> QED  BY <3>2, <3>3, <3>4
    <2>3. Visiting' /\ Complete'  BY <2>1, <2>2, OrderKept DEF Visiting, Complete
    <2> QED  BY <2>1, <2>3, OrderKept DEF IInv
  <1>6. CASE AppendRest
    <2>1. UNCHANGED <<dependsOnGraph, finishedPrograms, progsStartOrder>> /\ pc = "sorted" /\ pc' = "done"
      BY <1>6 DEF AppendRest
    <2>2. Visiting' /\ Complete'  BY <2>1, OrderKept DEF IInv, Visiting, Complete
    <2> QED  BY <2>1, <2>2, OrderKept DEF IInv
  <1>7. CASE UNCHANGED vars
    <2>1. UNCHANGED <<dependsOnGraph, finishedPrograms, progsStartOrder, unvisited, pc>>  BY <1>7 DEF vars
    <2>2. Visiting' /\ Complete'  BY <1>1, <2>1, OrderKept DEF IInv, Visiting, Complete
    <2> QED  BY <1>1, <2>1, <2>2, OrderKept DEF IInv
  <1> QED  BY <1>2, <1>3, <1>4, <1>5, <1>6, <1>7 DEF Next

\* The inductive invariant holds in every reachable state.
LEMMA Inductive == Spec => []IInv
  BY InitIInv, StepIInv, PTL DEF Spec

-----------------------------------------------------------------------------
\* s is what SortProgram has kept of the first i names of the order: the
\* configured ones, each of them, in that order.
KeptOf(s, order, i) ==
  /\ s \in Seq(Programs)
  /\ \A k \in DOMAIN s : \E a \in 1..i : order[a] = s[k]
  /\ \A a \in 1..i : order[a] \in Programs => \E k \in DOMAIN s : s[k] = order[a]
  /\ \A k, l \in DOMAIN s : k < l => \E a, b \in 1..i : a < b /\ order[a] = s[k] /\ order[b] = s[l]

\* The next name of the order.
LEMMA KeepNext ==
  ASSUME NEW order, NEW i \in Nat \ {0}, NEW s, KeptOf(s, order, i - 1)
  PROVE  KeptOf(IF order[i] \in Programs THEN Append(s, order[i]) ELSE s, order, i)
  <1>1. \A a \in 1..i : a = i \/ a \in 1..(i - 1)  OBVIOUS
  <1>2. \A a \in 1..(i - 1) : a \in 1..i /\ a < i  OBVIOUS
  <1>3. CASE order[i] \notin Programs  BY <1>1, <1>2, <1>3 DEF KeptOf
  <1>4. CASE order[i] \in Programs
    <2> DEFINE t == Append(s, order[i])
    <2>1. /\ t \in Seq(Programs) /\ Len(s) \in Nat
          /\ DOMAIN s = 1..Len(s) /\ DOMAIN t = 1..(Len(s) + 1)
          /\ \A k \in 1..Len(s) : t[k] = s[k]
          /\ t[Len(s) + 1] = order[i]
      BY <1>4, AppendProperties, LenProperties DEF KeptOf
    <2>2. \A k \in DOMAIN t : k \in DOMAIN s \/ k = Len(s) + 1  BY <2>1
    <2>3. \A k \in DOMAIN s : k \in DOMAIN t /\ t[k] = s[k] /\ k < Len(s) + 1  BY <2>1
    <2>4. Len(s) + 1 \in DOMAIN t /\ i \in 1..i  BY <2>1
    <2> HIDE DEF t
    <2>5. \A k \in DOMAIN t : \E a \in 1..i : order[a] = t[k]
      BY <1>2, <2>1, <2>2, <2>3, <2>4 DEF KeptOf
    <2>6. \A a \in 1..i : order[a] \in Programs => \E k \in DOMAIN t : t[k] = order[a]
      BY <1>1, <2>1, <2>3, <2>4 DEF KeptOf
    <2>7. ASSUME NEW k \in DOMAIN t, NEW l \in DOMAIN t, k < l
          PROVE  \E a, b \in 1..i : a < b /\ order[a] = t[k] /\ order[b] = t[l]
      <3>1. CASE l \in DOMAIN s
        <4>1. k \in DOMAIN s  BY <2>1, <2>7, <3>1
        <4>2. PICK a \in 1..(i - 1), b \in 1..(i - 1) : a < b /\ order[a] = s[k] /\ order[b] = s[l]
          BY <2>7, <3>1, <4>1 DEF KeptOf
        <4> QED  BY <1>2, <2>3, <3>1, <4>1, <4>2
      <3>2. CASE l = Len(s) + 1
        <4>1. k \in DOMAIN s  BY <2>1, <2>7, <3>2
        <4>2. PICK a \in 1..(i - 1) : order[a] = s[k]  BY <4>1 DEF KeptOf
        <4> QED  BY <1>2, <2>1, <2>3, <2>4, <3>2, <4>1, <4>2
      <3> QED  BY <2>2, <3>1, <3>2
    <2>8. KeptOf(t, order, i)  BY <2>1, <2>5, <2>6, <2>7 DEF KeptOf
    <2> QED  BY <1>4, <2>8 DEF t
  <1> QED  BY <1>3, <1>4

\* SortProgram's loop over the order keeps exactly the configured names, in order.
LEMMA ConfiguredKeeps ==
  ASSUME NEW order \in Seq(Names)
  PROVE  KeptOf(Configured(order), order, Len(order))
  <1> DEFINE n == Len(order)
             step == [i \in 1..n |-> [s \in Seq(Programs) |->
                       IF order[i] \in Programs THEN Append(s, order[i]) ELSE s]]
             Loop(f) == f = [i \in 0..n |->
                          IF i = 0 THEN <<>>
                          ELSE IF order[i] \in Programs THEN Append(f[i-1], order[i]) ELSE f[i-1]]
             kept == CHOOSE f : Loop(f)
  <1>1. n \in Nat  BY LenProperties
  <1>2. <<>> \in Seq(Programs)  OBVIOUS
  <1>3. step \in [1..n -> [Seq(Programs) -> Seq(Programs)]]
    <2>1. ASSUME NEW i \in 1..n, NEW s \in Seq(Programs)
          PROVE  (IF order[i] \in Programs THEN Append(s, order[i]) ELSE s) \in Seq(Programs)
      BY AppendProperties
    <2> QED  BY <2>1
  <1>4. PICK g \in [0..n -> Seq(Programs)] : Follows(g, n, <<>>, step)
    <2> HIDE DEF n, step
    <2> QED  BY <1>1, <1>2, <1>3, FunctionByRecursion
  <1>5. Loop(g)
    <2>1. ASSUME NEW i \in 0..n
          PROVE  g[i] = IF i = 0 THEN <<>>
                        ELSE IF order[i] \in Programs THEN Append(g[i-1], order[i]) ELSE g[i-1]
      <3>1. CASE i = 0  BY <1>4, <3>1 DEF Follows
      <3>2. CASE i # 0
        <4>1. i \in 1..n /\ i - 1 \in 0..n  BY <1>1, <3>2
        <4>2. g[i-1] \in Seq(Programs)  BY <4>1
        <4>3. g[i] = step[i][g[i-1]]
          <5> HIDE DEF step, n
          <5> QED BY <1>4, <4>1 DEF Follows
        <4> QED  BY <3>2, <4>1, <4>2, <4>3
      <3> QED  BY <3>1, <3>2
    <2> HIDE DEF n
    <2> QED  BY <2>1
  <1>6. Loop(kept)
    <2> HIDE DEF Loop
    <2> QED  BY <1>5
  <1>7. Configured(order) = kept[n]  BY DEF Configured
  <1> HIDE DEF n, kept
  <1>8. /\ kept[0] = <<>>
        /\ \A i \in 1..n : kept[i] = IF order[i] \in Programs THEN Append(kept[i-1], order[i]) ELSE kept[i-1]
    <2>1. 0 \in 0..n /\ \A i \in 1..n : i \in 0..n /\ i # 0  BY <1>1
    <2> QED  BY <1>6, <2>1
  <1> DEFINE T == {i \in 0..n : KeptOf(kept[i], order, i)}
  <1>9. \A i \in 0..n : i \in T
    <2>1. 0 \in T
      <3>1. KeptOf(kept[0], order, 0)  BY <1>8 DEF KeptOf
      <3> QED  BY <1>1, <3>1
    <2>2. ASSUME NEW i \in 1..n, i - 1 \in T PROVE i \in T
      <3>1. KeptOf(kept[i-1], order, i - 1) /\ i \in Nat \ {0} /\ i \in 0..n  BY <2>2, <1>1
      <3> DEFINE s == kept[i-1]
      <3>2. KeptOf(IF order[i] \in Programs THEN Append(s, order[i]) ELSE s, order, i)
        <4> HIDE DEF s
        <4>1. KeptOf(s, order, i - 1)  BY <3>1 DEF s
        <4> QED  BY <3>1, <4>1, KeepNext
      <3> QED  BY <1>8, <3>1, <3>2
    <2> HIDE DEF T
    <2> QED  BY <1>1, <2>1, <2>2, UpTo
  <1>10. n \in 0..n  BY <1>1
  <1> QED  BY <1>7, <1>9, <1>10 DEF n

\* In a result without repetition the configured names come in the order in
\* which they were placed, and none comes twice.
LEMMA KeptInOrder ==
  ASSUME NEW n \in Nat, NEW order, NEW r, KeptOf(r, order, n),
         \A a, b \in 1..n : order[a] = order[b] => a = b
  PROVE  /\ \A k, l \in DOMAIN r : r[k] = r[l] => k = l
         /\ \A k, l \in DOMAIN r : \A a, b \in 1..n :
              order[a] = r[k] /\ order[b] = r[l] /\ a < b => k < l
  <1>1. DOMAIN r = 1..Len(r) /\ Len(r) \in Nat  BY LenProperties DEF KeptOf
  <1>2. \A k, l \in DOMAIN r : k < l => \E a, b \in 1..n : a < b /\ order[a] = r[k] /\ order[b] = r[l]
    BY DEF KeptOf
  <1>3. \A k, l \in DOMAIN r : k < l \/ k = l \/ l < k  BY <1>1
  <1>4. ASSUME NEW k \in DOMAIN r, NEW l \in DOMAIN r, r[k] = r[l] PROVE k = l
    <2>1. \A x, y \in DOMAIN r : x < y => r[x] # r[y]
      <3> SUFFICES ASSUME NEW x \in DOMAIN r, NEW y \in DOMAIN r, x < y PROVE r[x] # r[y]
        OBVIOUS
      <3>1. PICK a \in 1..n, b \in 1..n : a < b /\ order[a] = r[x] /\ order[b] = r[y]  BY <1>2
      <3>2. a # b  BY <3>1
      <3> QED  BY <3>1, <3>2
    <2> QED  BY <1>3, <1>4, <2>1
  <1>5. ASSUME NEW k \in DOMAIN r, NEW l \in DOMAIN r, NEW a \in 1..n, NEW b \in 1..n,
               order[a] = r[k], order[b] = r[l], a < b
        PROVE  k < l
    <2>1. k # l
      <3>1. a # b  BY <1>5
      <3> QED  BY <1>5, <3>1
    <2>2. ~(l < k)
      <3> SUFFICES ASSUME l < k PROVE FALSE
        OBVIOUS
      <3>1. PICK x \in 1..n, y \in 1..n : x < y /\ order[x] = r[l] /\ order[y] = r[k]  BY <1>2
      <3>2. x = b /\ y = a  BY <1>5, <3>1
      <3> QED  BY <1>5, <3>1, <3>2
    <2> QED  BY <1>3, <2>1, <2>2
  <1> QED  BY <1>4, <1>5

\* The programs without dependencies, in any sequence of SetToSeqs: each once.
LEMMA RestOnce ==
  ASSUME NEW W, W \subseteq Programs, NEW s \in SetToSeqs(W)
  PROVE  /\ s \in Seq(Programs) /\ \A i \in DOMAIN s : s[i] \in W
         /\ \A i, j \in DOMAIN s : s[i] = s[j] => i = j
         /\ \A w \in W : \E i \in DOMAIN s : s[i] = w
  <1> DEFINE c == Cardinality(W)
             D == 1..c
  <1>1. IsFiniteSet(W) /\ c \in Nat
    <2>1. IsFiniteSet(Programs)  BY FS_Subset
    <2>2. IsFiniteSet(W)  BY <2>1, FS_Subset
    <2> QED  BY <2>2, FS_CardinalityType
  <1>2. s \in [D -> W] /\ \A i, j \in D : i # j => s[i] # s[j]  BY DEF SetToSeqs
  <1>3. DOMAIN s = D /\ s \in Seq(Programs)
    <2>1. s \in [1..c -> Programs]  BY <1>2
    <2> QED  BY <1>1, <1>2, <2>1
  <1>4. s \in Injection(D, W)
    <2>1. \A i, j \in D : s[i] = s[j] => i = j  BY <1>2
    <2> QED  BY <1>2, <1>3, <2>1 DEF Injection, IsInjective
  <1>5. Cardinality(D) = c
    <2>1. Cardinality(1..c) = IF 1 > c THEN 0 ELSE c - 1 + 1  BY <1>1, FS_Interval
    <2> HIDE DEF c
    <2> QED  BY <1>1, <2>1
  <1>6. s \in Surjection(D, W)
    <2> HIDE DEF D
    <2> QED  BY <1>1, <1>4, <1>5, FS_Injection
  <1>7. \A w \in W : \E i \in D : s[i] = w  BY <1>6 DEF Surjection
  <1> HIDE DEF D
  <1> QED  BY <1>2, <1>3, <1>7

\* A sequence with every program exactly once is as long as there are programs.
LEMMA EachOnce ==
  ASSUME NEW r \in Seq(Programs), \A i, j \in DOMAIN r : r[i] = r[j] => i = j,
         \A p \in Programs : \E i \in DOMAIN r : r[i] = p
  PROVE  Len(r) = Cardinality(Programs) /\ ToSet(r) = Programs
  <1>1. Len(r) \in Nat /\ DOMAIN r = 1..Len(r) /\ r \in [1..Len(r) -> Programs]  BY LenProperties
  <1>2. r \in Bijection(1..Len(r), Programs)
    <2>1. r \in Injection(1..Len(r), Programs)  BY <1>1 DEF Injection, IsInjective
    <2>2. r \in Surjection(1..Len(r), Programs)  BY <1>1 DEF Surjection
    <2> QED  BY <2>1, <2>2 DEF Bijection
  <1>3. ExistsBijection(1..Len(r), Programs)  BY <1>2 DEF ExistsBijection
  <1>4. Len(r) = Cardinality(Programs)  BY <1>1, <1>3, FS_CountingElements
  <1>5. ToSet(r) = Programs  BY <1>1 DEF ToSet
  <1> QED  BY <1>4, <1>5

\* What SortProgram returns when every dependency is placed.
LEMMA ResultComplete ==
  ASSUME IInv, finishedPrograms = getDependsOnInfo,
         NEW s \in SetToSeqs(procsWithoutDepends)
  PROVE  LET r == Configured(progsStartOrder) \o s IN
         /\ r \in Seq(Programs) /\ Len(r) = Cardinality(Programs) /\ ToSet(r) = Programs
         /\ \A i, j \in DOMAIN r : r[i] \in dependsOnGraph[r[j]] => i < j
  <1> DEFINE o == progsStartOrder
             n == Len(o)
             k == Configured(o)
             W == procsWithoutDepends
             r == k \o s
  <1>1. o \in Seq(Names) /\ n \in Nat /\ DOMAIN o = 1..n  BY LenProperties DEF IInv, OrderTyped
  <1>2. KeptOf(k, o, n)
    <2> HIDE DEF o
    <2> QED  BY <1>1, ConfiguredKeeps
  <1>3. \A a, b \in 1..n : o[a] = o[b] => a = b  BY <1>1 DEF IInv, PlacedOnce
  <1>4. /\ \A x, y \in DOMAIN k : k[x] = k[y] => x = y
        /\ \A x, y \in DOMAIN k : \A a, b \in 1..n : o[a] = k[x] /\ o[b] = k[y] /\ a < b => x < y
    <2> HIDE DEF o, n, k
    <2> QED  BY <1>1, <1>2, <1>3, KeptInOrder
  <1>5. /\ s \in Seq(Programs) /\ \A i \in DOMAIN s : s[i] \in W
        /\ \A i, j \in DOMAIN s : s[i] = s[j] => i = j
        /\ \A w \in W : \E i \in DOMAIN s : s[i] = w
    <2>1. W \subseteq Programs  BY DEF procsWithoutDepends
    <2> HIDE DEF W
    <2>2. s \in SetToSeqs(W)  BY DEF W
    <2> QED  BY <2>1, <2>2, RestOnce
  <1>6. k \in Seq(Programs)  BY <1>2 DEF KeptOf
  <1>7. \A a \in 1..n : o[a] \in getDependsOnInfo
    <2>1. \A a \in 1..n : o[a] \in Names  BY <1>1
    <2> QED  BY <1>1, <2>1 DEF IInv, Placed
  <1>8. \A x \in DOMAIN k : k[x] \in getDependsOnInfo /\ k[x] \in Programs
    <2>1. \A x \in DOMAIN k : k[x] \in Programs  BY <1>6, LenProperties
    <2>2. \A x \in DOMAIN k : \E a \in 1..n : o[a] = k[x]  BY <1>2 DEF KeptOf
    <2> HIDE DEF o, n, k
    <2> QED  BY <1>7, <2>1, <2>2
  <1>9. \A p \in Programs : p \in getDependsOnInfo => \E x \in DOMAIN k : k[x] = p
    <2>1. \A p \in Programs : p \in getDependsOnInfo => \E a \in 1..n : o[a] = p
      BY <1>1 DEF IInv, Placed
    <2> HIDE DEF o, n, k
    <2> QED  BY <1>2, <2>1 DEF KeptOf
  <1>10. \A p \in Programs : p \in W <=> p \notin getDependsOnInfo  BY DEF procsWithoutDepends
  <1>11. \A i \in DOMAIN s : s[i] \in Programs /\ s[i] \notin getDependsOnInfo
    <2>1. \A i \in DOMAIN s : s[i] \in Programs  BY <1>5, LenProperties
    <2> QED  BY <1>5, <1>10, <2>1
  <1>12. /\ \A x, y \in DOMAIN k : k[x] \in dependsOnGraph[k[y]] => x < y
         /\ \A p, q \in Programs : q \in dependsOnGraph[p] =>
              p \in getDependsOnInfo /\ q \in getDependsOnInfo
    <2>1. ASSUME NEW p \in Programs, NEW q \in dependsOnGraph[p]
          PROVE  p \in getDependsOnInfo /\ q \in getDependsOnInfo
      BY <2>1 DEF getDependsOnInfo, Depending
    <2>2. ASSUME NEW x \in DOMAIN k, NEW y \in DOMAIN k, k[x] \in dependsOnGraph[k[y]]
          PROVE  x < y
      <3>1. PICK b \in 1..n : o[b] = k[y]
        <4> HIDE DEF o, n, k
        <4> QED  BY <1>2 DEF KeptOf
      <3>2. PICK a \in 1..(b - 1) : o[a] = k[x]
        <4> HIDE DEF n, k
        <4>1. k[y] \in Programs  BY <1>8
        <4> QED  BY <1>1, <2>2, <3>1, <4>1 DEF IInv, DependenciesFirst
      <3>3. a \in 1..n /\ a < b  BY <1>1
      <3> HIDE DEF o, n, k
      <3> QED  BY <1>4, <3>1, <3>2, <3>3
    <2> QED  BY <2>1, <2>2
  <1> HIDE DEF o, n, k, W
  <1>13. /\ r \in Seq(Programs) /\ Len(k) \in Nat /\ Len(s) \in Nat
         /\ DOMAIN k = 1..Len(k) /\ DOMAIN s = 1..Len(s) /\ DOMAIN r = 1..(Len(k) + Len(s))
         /\ \A i \in 1..(Len(k) + Len(s)) : r[i] = IF i <= Len(k) THEN k[i] ELSE s[i - Len(k)]
    BY <1>5, <1>6, ConcatProperties, LenProperties
  <1> HIDE DEF r
  <1>14. \A i \in DOMAIN r :
           \/ i \in DOMAIN k /\ r[i] = k[i]
           \/ i > Len(k) /\ i - Len(k) \in DOMAIN s /\ r[i] = s[i - Len(k)]
    BY <1>13
  <1>15. \A i, j \in DOMAIN r : r[i] = r[j] => i = j
    <2> SUFFICES ASSUME NEW i \in DOMAIN r, NEW j \in DOMAIN r, r[i] = r[j] PROVE i = j
      OBVIOUS
    <2>1. CASE i \in DOMAIN k /\ r[i] = k[i]
      <3>1. r[j] \in getDependsOnInfo  BY <1>8, <2>1
      <3>2. j \in DOMAIN k /\ r[j] = k[j]  BY <1>11, <1>14, <3>1
      <3> QED  BY <1>4, <2>1, <3>2
    <2>2. CASE i > Len(k) /\ i - Len(k) \in DOMAIN s /\ r[i] = s[i - Len(k)]
      <3>1. r[j] \notin getDependsOnInfo  BY <1>11, <2>2
      <3>2. j > Len(k) /\ j - Len(k) \in DOMAIN s /\ r[j] = s[j - Len(k)]  BY <1>8, <1>14, <3>1
      <3>3. i - Len(k) = j - Len(k)  BY <1>5, <2>2, <3>2
      <3> QED  BY <1>13, <3>3
    <2> QED  BY <1>14, <2>1, <2>2
  <1>16. ASSUME NEW p \in Programs PROVE \E i \in DOMAIN r : r[i] = p
    <2>1. CASE p \in getDependsOnInfo
      <3>1. PICK x \in DOMAIN k : k[x] = p  BY <1>9, <2>1
      <3>2. x \in DOMAIN r /\ r[x] = p  BY <1>13, <3>1
      <3> QED  BY <3>2
    <2>2. CASE p \notin getDependsOnInfo
      <3>1. PICK x \in DOMAIN s : s[x] = p  BY <1>5, <1>10, <2>2
      <3>2. Len(k) + x \in DOMAIN r /\ ~(Len(k) + x <= Len(k)) /\ Len(k) + x - Len(k) = x
        BY <1>13
      <3>3. r[Len(k) + x] = p  BY <1>13, <3>1, <3>2
      <3> QED  BY <3>2, <3>3
    <2> QED  BY <2>1, <2>2
  <1>17. Len(r) = Cardinality(Programs) /\ ToSet(r) = Programs
    BY <1>13, <1>15, <1>16, EachOnce
  <1>18. ASSUME NEW i \in DOMAIN r, NEW j \in DOMAIN r, r[i] \in dependsOnGraph[r[j]] PROVE i < j
    <2>1. r[i] \in Programs /\ r[j] \in Programs  BY <1>13
    <2>2. r[i] \in getDependsOnInfo /\ r[j] \in getDependsOnInfo  BY <1>12, <1>18, <2>1
    <2>3. i \in DOMAIN k /\ r[i] = k[i] /\ j \in DOMAIN k /\ r[j] = k[j]  BY <1>11, <1>14, <2>2
    <2> QED  BY <1>12, <1>18, <2>3
  <1> QED  BY <1>13, <1>17, <1>18 DEF r, k, o

-----------------------------------------------------------------------------
\* The result is built after the sorting, ...
Outcome ==
  /\ result \in Seq(Programs)
  /\ pc \in {"free", "test", "pass"} => result = <<>>
  /\ pc = "sorted" => result = Configured(progsStartOrder)
  /\ ResultIsStartOrder

\* ... and the first loop places every name without dependencies of its own.
FreeFirst ==
  /\ unvisited \subseteq Names
  /\ getDependsOnInfo \ Depending \subseteq finishedPrograms \cup (IF pc = "free" THEN unvisited ELSE {})

RInv == IInv /\ Outcome /\ FreeFirst

\* There is no result yet, and the first loop has all its names to visit.
LEMMA InitRInv == Init => RInv
  <1> SUFFICES ASSUME Init PROVE RInv
    OBVIOUS
  <1>1. IInv  BY InitIInv
  <1>2. Outcome  BY DEF Init, Outcome, ResultIsStartOrder
  <1>3. getDependsOnInfo \subseteq Names  BY <1>1, InfoFinite DEF IInv
  <1>4. FreeFirst  BY <1>3 DEF Init, FreeFirst
  <1> QED  BY <1>1, <1>2, <1>4 DEF RInv

\* Every step keeps both.
LEMMA StepRInv == RInv /\ [Next]_vars => RInv'
  <1> SUFFICES ASSUME RInv, [Next]_vars PROVE RInv'
    OBVIOUS
  <1>1. IInv /\ IInv'  BY StepIInv DEF RInv
  <1>2. dependsOnGraph' = dependsOnGraph
    BY DEF Next, PlaceFree, Visit, FreePlaced, BeginPass, EndPass, Sorted, AppendRest, vars
  <1>3. getDependsOnInfo' = getDependsOnInfo /\ Depending' = Depending
    BY <1>2 DEF getDependsOnInfo, Depending
  <1>4. FreeFirst'
    <2>1. getDependsOnInfo \subseteq Names /\ Depending \subseteq Names
      BY <1>1, InfoFinite DEF IInv, Depending
    <2>2. ASSUME NEW n \in Names, PlaceFree(n) PROVE FreeFirst'
      BY <1>3, <2>2 DEF PlaceFree, Place, RInv, FreeFirst
    <2>3. ASSUME NEW n \in Names, Visit(n) PROVE FreeFirst'
      BY <1>3, <2>3 DEF Visit, Place, RInv, FreeFirst
    <2>4. CASE FreePlaced  BY <1>3, <2>4 DEF FreePlaced, RInv, FreeFirst
    <2>5. CASE BeginPass  BY <1>3, <2>1, <2>5 DEF BeginPass, RInv, FreeFirst
    <2>6. CASE EndPass  BY <1>3, <2>6 DEF EndPass, RInv, FreeFirst
    <2>7. CASE Sorted  BY <1>3, <2>7 DEF Sorted, RInv, FreeFirst
    <2>8. CASE AppendRest  BY <1>3, <2>8 DEF AppendRest, RInv, FreeFirst
    <2>9. CASE UNCHANGED vars  BY <1>3, <2>9 DEF vars, RInv, FreeFirst
    <2> QED  BY <2>2, <2>3, <2>4, <2>5, <2>6, <2>7, <2>8, <2>9 DEF Next
  <1>5. Outcome'
    <2>1. ASSUME pc' \in {"free", "test", "pass"}, pc \in {"free", "test", "pass"}, UNCHANGED result
          PROVE  Outcome'
      BY <2>1 DEF RInv, Outcome, ResultIsStartOrder
    <2>2. ASSUME NEW n \in Names, PlaceFree(n) \/ Visit(n) PROVE Outcome'
      BY <2>1, <2>2 DEF PlaceFree, Visit
    <2>3. CASE FreePlaced \/ BeginPass \/ EndPass
      BY <2>1, <2>3 DEF FreePlaced, BeginPass, EndPass
    <2>4. CASE Sorted
      <3>1. pc' = "sorted" /\ result' = Configured(progsStartOrder) /\ UNCHANGED progsStartOrder
        BY <2>4 DEF Sorted
      <3>2. progsStartOrder \in Seq(Names)  BY <1>1 DEF IInv, OrderTyped
      <3>3. Configured(progsStartOrder) \in Seq(Programs)  BY <3>2, ConfiguredKeeps DEF KeptOf
      <3>4. Configured(progsStartOrder)' = Configured(progsStartOrder)  BY <3>1 DEF Configured
      <3>5. result' = Configured(progsStartOrder)'  BY <3>1, <3>4
      <3> QED  BY <3>1, <3>3, <3>5 DEF Outcome, ResultIsStartOrder
    <2>5. CASE AppendRest
      <3>1. PICK s \in SetToSeqs(procsWithoutDepends) : result' = result \o s  BY <2>5 DEF AppendRest
      <3>2. pc = "sorted" /\ pc' = "done"  BY <2>5 DEF AppendRest
      <3>3. result = Configured(progsStartOrder) /\ finishedPrograms = getDependsOnInfo
        BY <1>1, <3>2 DEF RInv, Outcome, IInv, Complete
      <3>4. result' = Configured(progsStartOrder) \o s  BY <3>1, <3>3
      <3>5. /\ result' \in Seq(Programs) /\ Len(result') = Cardinality(Programs)
            /\ ToSet(result') = Programs
            /\ \A i, j \in DOMAIN result' : result'[i] \in dependsOnGraph[result'[j]] => i < j
        BY <1>1, <3>3, <3>4, ResultComplete
      <3>6. ToSet(result)' = ToSet(result')  BY DEF ToSet
      <3>7. ResultIsStartOrder'  BY <1>2, <3>5, <3>6 DEF ResultIsStartOrder
      <3> QED  BY <3>2, <3>5, <3>7 DEF Outcome
    <2>6. CASE UNCHANGED vars
      <3>1. UNCHANGED <<pc, result, progsStartOrder, dependsOnGraph>>  BY <2>6 DEF vars
      <3>2. Configured(progsStartOrder)' = Configured(progsStartOrder)  BY <3>1 DEF Configured
      <3>3. ResultIsStartOrder'  BY <3>1 DEF RInv, Outcome, ResultIsStartOrder, ToSet
      <3> QED  BY <3>1, <3>2, <3>3 DEF RInv, Outcome
    <2> QED  BY <2>2, <2>3, <2>4, <2>5, <2>6 DEF Next
  <1> QED  BY <1>1, <1>4, <1>5 DEF RInv

\* Both hold in every reachable state.
LEMMA ResultInductive == Spec => []RInv
  BY InitRInv, StepRInv, PTL DEF Spec

-----------------------------------------------------------------------------
\* sortDepends places every program after all it depends on, for any
\* dependencies and any order in which Go visits the maps.
THEOREM OrderRespectsDependencies == Spec => []DependenciesFirst
  <1>1. IInv => DependenciesFirst  BY DEF IInv
  <1> QED  BY <1>1, Inductive, PTL

\* sortDepends places no program twice.
THEOREM NoProgramTwice == Spec => []PlacedOnce
  <1>1. IInv => PlacedOnce  BY DEF IInv
  <1> QED  BY <1>1, Inductive, PTL

\* When the dependencies have a cycle SortProgram never returns: among the
\* placed programs of the cycle one would be first, before its own dependency.
THEOREM CycleMeansNoOrder == Spec => []CycleNeverSorted
  <1>1. IInv => CycleNeverSorted
    <2> SUFFICES ASSUME IInv, ~Acyclic, pc \in {"sorted", "done"} PROVE FALSE
      BY DEF CycleNeverSorted
    <2>1. PICK S \in SUBSET Programs : S # {} /\ \A p \in S : dependsOnGraph[p] \cap S # {}
      BY DEF Acyclic
    <2>2. S \subseteq finishedPrograms
      BY <2>1 DEF IInv, Complete, getDependsOnInfo, Depending
    <2> DEFINE T == {i \in DOMAIN progsStartOrder : progsStartOrder[i] \in S}
    <2>3. DOMAIN progsStartOrder = 1..Len(progsStartOrder) /\ Len(progsStartOrder) \in Nat
      BY LenProperties DEF IInv, OrderTyped
    <2>4. T \subseteq Nat /\ T # {}
      <3>1. T \subseteq Nat  BY <2>3
      <3>2. PICK p \in S : p \in Names  BY <2>1
      <3>3. \E i \in DOMAIN progsStartOrder : progsStartOrder[i] = p
        BY <2>2, <3>2 DEF IInv, Placed
      <3> QED  BY <3>1, <3>2, <3>3
    <2>5. PICK m \in T : \A k \in T : ~(k < m)
      <3> HIDE DEF T
      <3> QED  BY <2>4, LeastNumber
    <2>6. PICK d \in S : d \in dependsOnGraph[progsStartOrder[m]]  BY <2>1
    <2>7. \E i \in 1..(m - 1) : progsStartOrder[i] = d
      BY <2>1, <2>6 DEF IInv, DependenciesFirst
    <2>8. PICK i \in 1..(m - 1) : progsStartOrder[i] = d  BY <2>7
    <2>9. i \in T /\ i < m  BY <2>3, <2>8
    <2> QED  BY <2>5, <2>9
  <1> QED  BY <1>1, Inductive, PTL

\* The state is well-typed; in particular SortProgram returns programs only.
THEOREM TypeCorrect == Spec => []TypeOK
  <1>1. RInv => TypeOK  BY DEF RInv, IInv, OrderTyped, Outcome, FreeFirst, TypeOK
  <1> QED  BY <1>1, ResultInductive, PTL

\* SortProgram returns every configured program exactly once, each after the
\* configured programs it depends on, although the order it sorts may name
\* programs nobody configured and the maps are visited in any order.
THEOREM SortedOnceAfterDependencies == Spec => []ResultIsStartOrder
  <1>1. RInv => ResultIsStartOrder  BY DEF RInv, Outcome
  <1> QED  BY <1>1, ResultInductive, PTL

\* While a name is left to place and there is no cycle, the next visit to some
\* program places it: every pass of sortDepends that visits all of them
\* advances.
PassAdvances ==
  pc \in {"test", "pass"} /\ Acyclic /\ ~AllPlaced =>
    \E p \in Depending \ finishedPrograms : inFinishedPrograms(p)

\* A pass of sortDepends over the graph is never in vain: the safety half of
\* the sorting's termination.
THEOREM SortNeverStuck == Spec => []PassAdvances
  <1>1. RInv => PassAdvances
    <2> SUFFICES ASSUME RInv, pc \in {"test", "pass"}, Acyclic, ~AllPlaced
                 PROVE  \E p \in Depending \ finishedPrograms : inFinishedPrograms(p)
      BY DEF PassAdvances
    <2> DEFINE S == Depending \ finishedPrograms
    <2>1. finishedPrograms \subseteq getDependsOnInfo /\ getDependsOnInfo \ Depending \subseteq finishedPrograms
      BY DEF RInv, IInv, Placed, FreeFirst
    <2>2. S # {}
      <3> SUFFICES ASSUME S = {} PROVE FALSE
        OBVIOUS
      <3>1. finishedPrograms = getDependsOnInfo  BY <2>1
      <3>2. Cardinality(getDependsOnInfo) \in Nat  BY InfoFinite, FS_CardinalityType DEF RInv, IInv
      <3> QED  BY <3>1, <3>2 DEF AllPlaced
    <2>3. S \in SUBSET Programs  BY DEF Depending
    <2>4. PICK p \in S : dependsOnGraph[p] \cap S = {}  BY <2>2, <2>3 DEF Acyclic
    <2>5. dependsOnGraph[p] \subseteq getDependsOnInfo  BY <2>4 DEF getDependsOnInfo, Depending
    <2>6. dependsOnGraph[p] \subseteq finishedPrograms  BY <2>1, <2>4, <2>5
    <2> QED  BY <2>4, <2>6 DEF inFinishedPrograms
  <1> QED  BY <1>1, ResultInductive, PTL
=============================================================================
