----------------------------- MODULE Induction -----------------------------
(***************************************************************************)
(* Induction over the positions of a sequence or a file number, in a form  *)
(* that names a set: the library's induction theorems name a predicate.    *)
(***************************************************************************)
EXTENDS Integers, WellFoundedInduction, TLAPS

\* A set of natural numbers has a least one.
LEMMA LeastNumber ==
  ASSUME NEW T, T \subseteq Nat, T # {}
  PROVE  \E m \in T : \A k \in T : ~(k < m)
  <1>1. \E m \in T : \A k \in T : ~(<<k, m>> \in OpToRel(<, Nat))
    BY WFMin, NatLessThanWellFounded, Zenon
  <1> QED  BY <1>1 DEF OpToRel

\* A set that has 0, and each number after one it has, has every number up to n.
LEMMA UpTo ==
  ASSUME NEW n \in Nat, NEW S, 0 \in S, \A i \in 1..n : i - 1 \in S => i \in S
  PROVE  \A i \in 0..n : i \in S
  <1> DEFINE T == {i \in 0..n : i \notin S}
  <1> SUFFICES ASSUME T # {} PROVE FALSE
    OBVIOUS
  <1>1. PICK m \in T : \A k \in T : ~(k < m)
    <2>1. T \subseteq Nat  OBVIOUS
    <2> HIDE DEF T
    <2> QED  BY <2>1, LeastNumber
  <1>2. m \in 1..n /\ m - 1 \in 0..n /\ m - 1 < m  OBVIOUS
  <1>3. m - 1 \in S  BY <1>1, <1>2
  <1> QED  BY <1>2, <1>3

\* f has a given first value, and each of its values follows from the one before.
Follows(f, n, first, step) == f[0] = first /\ \A i \in 1..n : f[i] = step[i][f[i-1]]

\* There is such a function on 0..n.
LEMMA FunctionByRecursion ==
  ASSUME NEW n \in Nat, NEW S, NEW first \in S, NEW step \in [1..n -> [S -> S]]
  PROVE  \E f \in [0..n -> S] : Follows(f, n, first, step)
  <1> DEFINE Solves(m, f) == f = [i \in 0..m |-> IF i = 0 THEN first ELSE step[i][f[i-1]]]
             T == {m \in 0..n : \E f \in [0..m -> S] : Solves(m, f)}
  <1>1. 0 \in T
    <2> DEFINE g == [i \in 0..0 |-> first]
    <2>1. g \in [0..0 -> S] /\ Solves(0, g)  OBVIOUS
    <2>2. 0 \in 0..n /\ \E h \in [0..0 -> S] : Solves(0, h)
      <3> HIDE DEF g, Solves
      <3> QED  BY <2>1
    <2> QED  BY <2>2
  <1>2. ASSUME NEW m \in 1..n, m - 1 \in T PROVE m \in T
    <2>1. PICK f \in [0 .. m-1 -> S] : Solves(m - 1, f)  BY <1>2
    <2> DEFINE g == [i \in 0..m |-> IF i = m THEN step[m][f[m-1]] ELSE f[i]]
    <2>2. m - 1 \in 0 .. m-1 /\ f[m-1] \in S  BY <2>1
    <2>3. step[m][f[m-1]] \in S  BY <2>2
    <2>4. \A i \in 0..m : i # m => i \in 0 .. m-1  OBVIOUS
    <2>5. g \in [0..m -> S]  BY <2>1, <2>3, <2>4
    <2>6. \A i \in 0 .. m-1 : f[i] = IF i = 0 THEN first ELSE step[i][f[i-1]]  BY <2>1
    <2>7. \A i \in 0..m : g[i] = IF i = 0 THEN first ELSE step[i][g[i-1]]
      <3> SUFFICES ASSUME NEW i \in 0..m PROVE g[i] = IF i = 0 THEN first ELSE step[i][g[i-1]]
        OBVIOUS
      <3>1. CASE i = m
        <4>1. g[i-1] = f[m-1] /\ i # 0  BY <3>1
        <4> QED  BY <3>1, <4>1
      <3>2. CASE i # m /\ i # 0
        <4>1. i - 1 \in 0..m /\ i - 1 # m /\ i \in 0 .. m-1  BY <3>2
        <4>2. g[i-1] = f[i-1] /\ g[i] = f[i]  BY <3>2, <4>1
        <4> QED  BY <2>6, <3>2, <4>1, <4>2
      <3>3. CASE i # m /\ i = 0
        <4>1. 0 \in 0 .. m-1 /\ g[i] = f[0]  BY <3>3
        <4>2. f[0] = first  BY <2>6, <4>1
        <4> QED  BY <3>3, <4>1, <4>2
      <3> QED  BY <3>1, <3>2, <3>3
    <2>8. Solves(m, g)
      <3> HIDE DEF g
      <3> QED  BY <2>5, <2>7
    <2>9. m \in 0..n /\ \E h \in [0..m -> S] : Solves(m, h)
      <3> HIDE DEF g, Solves
      <3> QED  BY <2>5, <2>8
    <2> QED  BY <2>9
  <1>3. \A m \in 0..n : m \in T
    <2> HIDE DEF T
    <2> QED  BY <1>1, <1>2, UpTo
  <1>4. n \in T  BY <1>3
  <1>5. PICK f \in [0..n -> S] : Solves(n, f)  BY <1>4
  <1>6. 0 \in 0..n /\ \A i \in 1..n : i \in 0..n /\ i # 0  OBVIOUS
  <1>7. Follows(f, n, first, step)  BY <1>5, <1>6 DEF Follows
  <1> QED  BY <1>7
=============================================================================
