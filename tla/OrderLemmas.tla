---------------------------- MODULE OrderLemmas ----------------------------
(***************************************************************************)
(* The smallest and the greatest of a set of numbers exist, and so does    *)
(* what a recursive function on the places of a sequence defines.          *)
(***************************************************************************)
EXTENDS Integers, Sequences, WellFoundedInduction, TLAPS

\* Any natural numbers have a smallest one.
LEMMA Smallest ==
  ASSUME NEW S, S \subseteq Nat, S # {}
  PROVE  \E x \in S : \A y \in S : x <= y
<1> DEFINE R == {ss \in Nat \X Nat : ss[1] < ss[2]}
<1>1. PICK x \in S : \A y \in S : ~(<<y, x>> \in R)
  <2>1. IsWellFoundedOn(R, Nat)
    BY NatLessThanWellFounded DEF OpToRel
  <2> HIDE DEF R
  <2> QED
    BY <2>1, WFMin
<1>2. ASSUME NEW y \in S
      PROVE  x <= y
  <2>1. x \in Nat /\ y \in Nat
    OBVIOUS
  <2>2. <<y, x>> \in Nat \X Nat /\ <<y, x>>[1] = y /\ <<y, x>>[2] = x
    BY <2>1
  <2>3. y < x => <<y, x>> \in R
    BY <2>2
  <2> QED
    BY <1>1, <2>1, <2>3
<1> QED
  BY <1>2

\* Natural numbers up to a bound have a greatest one.
LEMMA Greatest ==
  ASSUME NEW n \in Nat, NEW S, S \subseteq 0..n, S # {}
  PROVE  \E x \in S : \A y \in S : y <= x
<1> DEFINE A == {n - x : x \in S}
<1>1. A \subseteq Nat /\ A # {}
  <2>1. \A x \in S : x \in 0..n
    OBVIOUS
  <2>2. \A x \in S : n - x \in Nat
    BY <2>1
  <2> QED
    BY <2>2
<1>2. PICK a \in A : \A b \in A : a <= b
  <2> HIDE DEF A
  <2> QED
    BY <1>1, Smallest
<1>3. PICK x \in S : a = n - x
  OBVIOUS
<1>4. \A y \in S : n - x <= n - y
  BY <1>2, <1>3
<1>5. \A y \in S : y \in Nat
  OBVIOUS
<1>6. \A y \in S : y <= x
  BY <1>4, <1>5
<1> QED
  BY <1>6

\* The runs that take one step for each element of a sequence.
RunsOf(T, step, t, s) ==
  {g \in [0..Len(s) -> T] :
     g[0] = t /\ \A i \in 1..Len(s) : g[i] = step[g[i - 1]][s[i]]}

\* There is one, so that a recursive function defined that way has its values.
LEMMA Recursion ==
  ASSUME NEW T, NEW S, NEW step, \A x \in T : \A e \in S : step[x][e] \in T,
         NEW t \in T, NEW s \in Seq(S)
  PROVE  RunsOf(T, step, t, s) # {}
<1> DEFINE Runs(n) == {g \in [0..n -> T] :
                         g[0] = t /\ \A i \in 1..n : g[i] = step[g[i - 1]][s[i]]}
           Bad == {n \in 0..Len(s) : Runs(n) = {}}
<1>1. Bad = {}
  <2> SUFFICES ASSUME Bad # {} PROVE FALSE
    OBVIOUS
  <2>1. Bad \subseteq Nat
    OBVIOUS
  <2>2. PICK m \in Bad : \A n \in Bad : m <= n
    <3> HIDE DEF Bad
    <3> QED BY <2>1, Smallest
  <2>3. m \in 0..Len(s) /\ Len(s) \in Nat
    OBVIOUS
  <2>4. m # 0
    <3> DEFINE z == [i \in 0..0 |-> t]
    <3>1. z \in [0..0 -> T] /\ z[0] = t /\ 1..0 = {}
      OBVIOUS
    <3>2. z \in Runs(0)
      BY <3>1
    <3> QED BY <3>2
  <2>5. m - 1 \in 0..Len(s) /\ m - 1 \notin Bad
    <3> HIDE DEF Bad
    <3>1. m \in Nat /\ m - 1 \in 0..Len(s)
      BY <2>1, <2>3, <2>4
    <3>2. ~(m <= m - 1)
      BY <3>1
    <3> QED BY <2>2, <3>1, <3>2
  <2>6. PICK g \in Runs(m - 1) : TRUE
    BY <2>5
  <2> DEFINE h == [i \in 0..m |-> IF i = m THEN step[g[m - 1]][s[m]] ELSE g[i]]
  <2>7. g \in [0..m - 1 -> T] /\ g[0] = t
        /\ \A i \in 1..m - 1 : g[i] = step[g[i - 1]][s[i]]
    BY <2>6
  <2>8. step[g[m - 1]][s[m]] \in T
    <3>1. g[m - 1] \in T /\ s[m] \in S
      BY <2>3, <2>4, <2>7
    <3> QED BY <3>1
  <2>9. h \in [0..m -> T]
    BY <2>3, <2>7, <2>8
  <2>10. h[0] = t
    BY <2>3, <2>4, <2>7
  <2>11. ASSUME NEW i \in 1..m PROVE h[i] = step[h[i - 1]][s[i]]
    <3>1. h[i - 1] = g[i - 1]
      BY <2>3
    <3>2. CASE i = m
      <4>1. h[m] = step[g[m - 1]][s[m]]
        BY <2>3
      <4> HIDE DEF h
      <4> QED BY <3>1, <3>2, <4>1
    <3>3. CASE i # m
      <4>1. i \in 1..m - 1 /\ h[i] = g[i]
        BY <2>3, <3>3
      <4> QED BY <2>7, <3>1, <4>1
    <3> QED BY <3>2, <3>3
  <2>12. h \in Runs(m)
    <3> HIDE DEF h
    <3> QED BY <2>9, <2>10, <2>11
  <2> QED BY <2>12
<1>2. Len(s) \in 0..Len(s)
  OBVIOUS
<1>3. PICK g \in Runs(Len(s)) : TRUE
  BY <1>1, <1>2
<1> QED BY <1>3 DEF RunsOf

=============================================================================
