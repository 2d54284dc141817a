----------------------------- MODULE Induction ------------------------------
(***************************************************************************)
(* Induction over the natural numbers, about sets instead of operators,    *)
(* and the recursive functions it justifies.                               *)
(***************************************************************************)
EXTENDS Loops, Sequences, WellFoundedInduction, TLAPS

(* A set of numbers is all of them if it has 0 and each one's successor.   *)
LEMMA Induction ==
    ASSUME NEW S, 0 \in S, \A n \in Nat : n \in S => n + 1 \in S
    PROVE  Nat \subseteq S
  <1> DEFINE R == OpToRel(<, Nat)
             T == Nat \ S
  <1>1. IsWellFoundedOn(R, Nat)
    BY NatLessThanWellFounded
  <1> SUFFICES ASSUME T # {} PROVE FALSE
    OBVIOUS
  <1>2. PICK x \in T : \A y \in T : <<y, x>> \notin R
    <2> HIDE DEF R
    <2>1. T \subseteq Nat
      OBVIOUS
    <2> HIDE DEF T
    <2> QED
      BY <1>1, <2>1, WFMin
  <1>3. x # 0 /\ x - 1 \in Nat
    OBVIOUS
  <1>4. x - 1 \in T
    BY <1>3
  <1>5. <<x - 1, x>> \in R
    BY <1>3 DEF OpToRel
  <1> QED
    BY <1>2, <1>4, <1>5

(* The same up to a bound. *)
LEMMA BoundedInduction ==
    ASSUME NEW n \in Nat, NEW S, 0 \in S, \A k \in 0..(n - 1) : k \in S => k + 1 \in S
    PROVE  0..n \subseteq S
  <1> DEFINE T == {k \in Nat : k <= n => k \in S}
  <1>1. 0 \in T
    OBVIOUS
  <1>2. \A k \in Nat : k \in T => k + 1 \in T
    OBVIOUS
  <1>3. Nat \subseteq T
    <2> HIDE DEF T
    <2> QED
      BY <1>1, <1>2, Induction
  <1> QED
    BY <1>3

(* A set of numbers that is not empty has a least one. *)
LEMMA LeastNumber ==
    ASSUME NEW S, S \subseteq Nat, S # {}
    PROVE  \E x \in S : \A y \in S : x <= y
  <1> DEFINE T == {k \in Nat : \A y \in S : k <= y}
  <1> SUFFICES ASSUME \A x \in S : \E y \in S : y < x PROVE FALSE
    OBVIOUS
  <1>1. 0 \in T
    OBVIOUS
  <1>2. \A k \in Nat : k \in T => k + 1 \in T
    OBVIOUS
  <1>3. Nat \subseteq T
    <2> HIDE DEF T
    <2> QED
      BY <1>1, <1>2, Induction
  <1>4. PICK x \in S : TRUE
    OBVIOUS
  <1>5. x + 1 \in T
    BY <1>3, <1>4
  <1> QED
    BY <1>4, <1>5

-----------------------------------------------------------------------------
(* A loop that is run n times, in the states of T. *)
LoopIs(f, n, x, next) == f = [k \in 0..n |-> IF k = 0 THEN x ELSE next[k][f[k - 1]]]

LEMMA LoopExists ==
    ASSUME NEW T, NEW n \in Nat, NEW x \in T, NEW next \in [1..n -> [T -> T]]
    PROVE  \E f \in [0..n -> T] : LoopIs(f, n, x, next)
  <1> DEFINE S == {m \in Nat : \E f \in [0..m -> T] : LoopIs(f, m, x, next)}
  <1>1. 0 \in S
    <2> DEFINE f == [k \in 0..0 |-> x]
    <2>1. f \in [0..0 -> T] /\ LoopIs(f, 0, x, next)
      BY DEF LoopIs
    <2> QED
      BY <2>1
  <1>2. ASSUME NEW m \in 0..(n - 1), m \in S PROVE m + 1 \in S
    <2>1. PICK f \in [0..m -> T] : LoopIs(f, m, x, next)
      BY <1>2
    <2> DEFINE g == [k \in 0..(m + 1) |-> IF k <= m THEN f[k] ELSE next[m + 1][f[m]]]
    <2>2. m + 1 \in 1..n /\ m \in 0..m /\ m + 1 \in Nat
      OBVIOUS
    <2>3. f[m] \in T /\ next[m + 1][f[m]] \in T
      BY <2>2
    <2>4. g \in [0..(m + 1) -> T]
      BY <2>3
    <2>5. \A k \in 0..(m + 1) : g[k] = IF k = 0 THEN x ELSE next[k][g[k - 1]]
      <3>0. \A k \in 0..m : f[k] = IF k = 0 THEN x ELSE next[k][f[k - 1]]
        BY <2>1 DEF LoopIs
      <3> SUFFICES ASSUME NEW k \in 0..(m + 1)
                   PROVE  g[k] = IF k = 0 THEN x ELSE next[k][g[k - 1]]
        OBVIOUS
      <3>1. CASE k = 0
        BY <3>0, <3>1
      <3>2. CASE k \in 1..m
        <4>1. k \in 0..m /\ k - 1 \in 0..m /\ k # 0 /\ g[k] = f[k] /\ g[k - 1] = f[k - 1]
          BY <3>2
        <4> QED
          BY <3>0, <4>1
      <3>3. CASE k = m + 1
        <4>1. g[k] = next[k][f[m]] /\ g[k - 1] = f[m] /\ k # 0
          BY <3>3
        <4> QED
          BY <4>1
      <3> QED
        BY <3>1, <3>2, <3>3
    <2>6. LoopIs(g, m + 1, x, next)
      <3> HIDE DEF g
      <3>1. g = [k \in 0..(m + 1) |-> g[k]]
        BY <2>4
      <3> QED
        BY <2>5, <3>1 DEF LoopIs
    <2> QED
      BY <2>2, <2>4, <2>6
  <1>3. n \in S
    <2> HIDE DEF S
    <2>1. 0..n \subseteq S
      BY <1>1, <1>2, BoundedInduction
    <2>2. n \in 0..n
      OBVIOUS
    <2> QED
      BY <2>1, <2>2
  <1> QED
    BY <1>3

(* What a loop keeps holds of all its states. *)
LEMMA LoopTyped ==
    ASSUME NEW T, NEW n \in Nat, NEW f, f = [k \in 0..n |-> f[k]], f[0] \in T,
           \A k \in 1..n : f[k - 1] \in T => f[k] \in T
    PROVE  f \in [0..n -> T]
  <1> DEFINE S == {k \in 0..n : f[k] \in T}
  <1>1. 0 \in S
    OBVIOUS
  <1>2. ASSUME NEW k \in 0..(n - 1), k \in S PROVE k + 1 \in S
    <2>1. k + 1 \in 1..n /\ (k + 1) - 1 = k
      OBVIOUS
    <2> QED
      BY <1>2, <2>1
  <1>3. 0..n \subseteq S
    <2> HIDE DEF S
    <2> QED
      BY <1>1, <1>2, BoundedInduction
  <1> QED
    BY <1>3

(* Passes that keep what is in T there, and what they make of x one by one. *)
Keeps(pass, n, T) == \A k \in 1..n : \A t \in T : pass[k][t] \in T

RunIs(f, n, x, pass) == f[0] = x /\ \A k \in 1..n : f[k] = pass[k][f[k - 1]]

LEMMA AfterLoopWithin ==
    ASSUME NEW T, NEW n \in Nat, NEW x \in T, NEW pass,
           Keeps(pass, n, T)
    PROVE  \E f \in [0..n -> T] : RunIs(f, n, x, pass) /\ f[n] = AfterLoop(n, x, pass)
  <1> DEFINE within == [k \in 1..n |-> [t \in T |-> pass[k][t]]]
             Is(f) == LoopIs(f, n, x, pass)
             g == CHOOSE f : Is(f)
  <1>1. AfterLoop(n, x, pass) = g[n]
    BY Zenon DEF AfterLoop, LoopIs
  <1>2. Is(g)
    <2>1. within \in [1..n -> [T -> T]]
      BY DEF Keeps
    <2>2. \A k \in 1..n : \A t \in T : within[k][t] = pass[k][t]
      OBVIOUS
    <2> HIDE DEF within
    <2>3. PICK f \in [0..n -> T] : LoopIs(f, n, x, within)
      BY <2>1, LoopExists
    <2>4. LoopIs(f, n, x, pass)
      <3>1. \A k \in 0..n : f[k] = IF k = 0 THEN x ELSE within[k][f[k - 1]]
        BY <2>3 DEF LoopIs
      <3>2. \A k \in 0..n : k # 0 => k \in 1..n /\ k - 1 \in 0..n /\ f[k - 1] \in T
        BY <2>3
      <3>3. \A k \in 0..n : f[k] = IF k = 0 THEN x ELSE pass[k][f[k - 1]]
        BY <2>2, <3>1, <3>2
      <3>4. f = [k \in 0..n |-> f[k]]
        BY <2>3
      <3> QED
        BY <3>3, <3>4 DEF LoopIs
    <2> HIDE DEF Is
    <2>5. Is(f)
      BY <2>4 DEF Is
    <2> QED
      BY <2>5, Zenon
  <1> HIDE DEF g
  <1>3. g = [k \in 0..n |-> g[k]] /\ g[0] = x /\ \A k \in 1..n : g[k] = pass[k][g[k - 1]]
    BY <1>2 DEF LoopIs
  <1>4. g \in [0..n -> T]
    <2>1. \A k \in 1..n : g[k - 1] \in T => g[k] \in T
      BY <1>3 DEF Keeps
    <2> QED
      BY <1>3, <2>1, LoopTyped
  <1> QED
    BY <1>1, <1>3, <1>4 DEF RunIs

(* There is but one such run of the passes. *)
LEMMA AfterLoopEnds ==
    ASSUME NEW T, NEW n \in Nat, NEW x \in T, NEW pass,
           Keeps(pass, n, T), NEW f, RunIs(f, n, x, pass)
    PROVE  f[n] = AfterLoop(n, x, pass)
  <1>1. PICK g \in [0..n -> T] : RunIs(g, n, x, pass) /\ g[n] = AfterLoop(n, x, pass)
    BY AfterLoopWithin
  <1> DEFINE S == {k \in 0..n : f[k] = g[k]}
  <1>2. 0 \in S
    BY <1>1 DEF RunIs
  <1>3. ASSUME NEW k \in 0..(n - 1), k \in S PROVE k + 1 \in S
    <2>1. k + 1 \in 1..n /\ (k + 1) - 1 = k
      OBVIOUS
    <2> QED
      BY <1>1, <1>3, <2>1 DEF RunIs
  <1>4. 0..n \subseteq S
    <2> HIDE DEF S
    <2> QED
      BY <1>2, <1>3, BoundedInduction
  <1> QED
    BY <1>1, <1>4

(* The first pass, and then the others. *)
LEMMA FirstPass ==
    ASSUME NEW T, NEW n \in Nat, NEW x \in T, NEW pass, Keeps(pass, n + 1, T),
           NEW others, \A k \in 1..n : others[k] = pass[k + 1]
    PROVE  AfterLoop(n + 1, x, pass) = AfterLoop(n, pass[1][x], others)
  <1>0. n + 1 \in Nat
    OBVIOUS
  <1>1. PICK f \in [0..(n + 1) -> T] :
               RunIs(f, n + 1, x, pass) /\ f[n + 1] = AfterLoop(n + 1, x, pass)
    BY <1>0, AfterLoopWithin
  <1> DEFINE g == [k \in 0..n |-> f[k + 1]]
             y == pass[1][x]
  <1>2. g[0] = y /\ y \in T
    BY <1>1 DEF RunIs
  <1>3. Keeps(others, n, T)
    BY DEF Keeps
  <1>4. \A k \in 1..n : g[k] = others[k][g[k - 1]]
    <2> TAKE k \in 1..n
    <2>1. k + 1 \in 1..(n + 1) /\ (k + 1) - 1 = k /\ k - 1 \in 0..n /\ k \in 0..n /\ (k - 1) + 1 = k
      OBVIOUS
    <2>2. g[k] = f[k + 1] /\ g[k - 1] = f[k]
      BY <2>1
    <2> QED
      BY <1>1, <2>1, <2>2 DEF RunIs
  <1>5. g[n] = f[n + 1]
    OBVIOUS
  <1> HIDE DEF g, y
  <1>6. RunIs(g, n, y, others)
    BY <1>2, <1>4 DEF RunIs
  <1>7. g[n] = AfterLoop(n, y, others)
    BY <1>2, <1>3, <1>6, AfterLoopEnds
  <1> QED
    BY <1>1, <1>5, <1>7 DEF y

LEMMA AfterLoopIs ==
    ASSUME NEW T, NEW n \in Nat, NEW x \in T, NEW pass \in [1..n -> [T -> T]]
    PROVE  \E f \in [0..n -> T] : /\ f[0] = x /\ f[n] = AfterLoop(n, x, pass)
                                  /\ \A k \in 1..n : f[k] = pass[k][f[k - 1]]
  <1>1. Keeps(pass, n, T)
    BY DEF Keeps
  <1>2. PICK f \in [0..n -> T] : RunIs(f, n, x, pass) /\ f[n] = AfterLoop(n, x, pass)
    BY <1>1, AfterLoopWithin
  <1> QED
    BY <1>2 DEF RunIs

(* A search that goes on further right, and keeps some of what it finds.   *)
SearchIs(f, m, n, keep, out, next) ==
    f = [i \in m..n |-> IF next[i] = 0 THEN <<>>
                        ELSE IF keep[i] THEN <<out[i]>> \o f[next[i]] ELSE f[next[i]]]

LEMMA SearchExists ==
    ASSUME NEW T, NEW n \in Nat, NEW keep, NEW out, NEW next,
           \A i \in 1..n : next[i] = 0 \/ next[i] \in (i + 1)..n,
           \A i \in 1..n : next[i] # 0 /\ keep[i] => out[i] \in T
    PROVE  /\ \E f : SearchIs(f, 1, n, keep, out, next)
           /\ \A f : SearchIs(f, 1, n, keep, out, next) => f \in [1..n -> Seq(T)]
  <1> DEFINE Found(f, i) == IF next[i] = 0 THEN <<>>
                            ELSE IF keep[i] THEN <<out[i]>> \o f[next[i]] ELSE f[next[i]]
  <1>1. ASSUME NEW m \in 1..n, NEW f, \A i \in (m + 1)..n : f[i] \in Seq(T)
        PROVE  Found(f, m) \in Seq(T)
    BY <1>1
  <1>2. ASSUME NEW f, SearchIs(f, 1, n, keep, out, next) PROVE f \in [1..n -> Seq(T)]
    <2> DEFINE S == {k \in 0..n : \A i \in (n - k + 1)..n : f[i] \in Seq(T)}
    <2>1. 0 \in S
      OBVIOUS
    <2>2. ASSUME NEW k \in 0..(n - 1), k \in S PROVE k + 1 \in S
      <3> DEFINE m == n - k
      <3>1. m \in 1..n /\ n - (k + 1) + 1 = m /\ n - k + 1 = m + 1
        OBVIOUS
      <3>2. \A i \in (m + 1)..n : f[i] \in Seq(T)
        BY <2>2, <3>1
      <3>3. f[m] = Found(f, m)
        BY <1>2, <3>1 DEF SearchIs
      <3> HIDE DEF m, Found
      <3>4. f[m] \in Seq(T)
        BY <1>1, <3>1, <3>2, <3>3
      <3>5. \A i \in m..n : f[i] \in Seq(T)
        BY <3>1, <3>2, <3>4
      <3> QED
        BY <3>1, <3>5
    <2>3. 0..n \subseteq S
      <3> HIDE DEF S
      <3> QED
        BY <2>1, <2>2, BoundedInduction
    <2>4. \A i \in 1..n : f[i] \in Seq(T)
      <3>1. n \in S /\ n - n + 1 = 1
        BY <2>3
      <3> QED
        BY <3>1
    <2>5. f = [i \in 1..n |-> f[i]]
      BY <1>2 DEF SearchIs
    <2> QED
      BY <2>4, <2>5
  <1>3. \E f : SearchIs(f, 1, n, keep, out, next)
    <2> DEFINE S == {k \in 0..n : \E f : SearchIs(f, n - k + 1, n, keep, out, next)}
    <2>1. 0 \in S
      <3> DEFINE f == [i \in (n - 0 + 1)..n |-> <<>>]
      <3>1. SearchIs(f, n - 0 + 1, n, keep, out, next)
        <4>1. (n - 0 + 1)..n = {}
          OBVIOUS
        <4> QED
          BY <4>1 DEF SearchIs
      <3> QED
        BY <3>1
    <2>2. ASSUME NEW k \in 0..(n - 1), k \in S PROVE k + 1 \in S
      <3> DEFINE m == n - k
      <3>1. m \in 1..n /\ n - (k + 1) + 1 = m /\ n - k + 1 = m + 1
        OBVIOUS
      <3>2. PICK f : SearchIs(f, m + 1, n, keep, out, next)
        BY <2>2, <3>1
      <3> HIDE DEF m
      <3>3. \A i \in (m + 1)..n : f[i] = Found(f, i)
        BY <3>2 DEF SearchIs
      <3> DEFINE g == [i \in m..n |-> IF i = m THEN Found(f, m) ELSE f[i]]
      <3>4. ASSUME NEW i \in m..n PROVE Found(g, i) = Found(f, i)
        <4>1. CASE next[i] = 0
          BY <4>1
        <4>2. CASE next[i] # 0
          <5>1. next[i] \in (m + 1)..n
            BY <3>1, <4>2
          <5>2. g[next[i]] = f[next[i]]
            BY <5>1, <3>1
          <5> HIDE DEF g
          <5> QED
            BY <5>2
        <4> QED
          BY <4>1, <4>2
      <3>5. ASSUME NEW i \in m..n PROVE g[i] = Found(g, i)
        <4>1. CASE i = m
          <5>1. g[i] = Found(f, m)
            BY <4>1
          <5> HIDE DEF g, Found
          <5> QED
            BY <3>4, <4>1, <5>1
        <4>2. CASE i # m
          <5>1. i \in (m + 1)..n /\ g[i] = f[i]
            BY <3>1, <4>2
          <5> HIDE DEF g, Found
          <5> QED
            BY <3>3, <3>4, <5>1
        <4> QED
          BY <4>1, <4>2
      <3>6. SearchIs(g, m, n, keep, out, next)
        <4>1. g = [i \in m..n |-> g[i]]
          OBVIOUS
        <4> HIDE DEF g
        <4> QED
          BY <3>5, <4>1 DEF SearchIs
      <3> QED
        BY <3>1, <3>6
    <2>3. n \in S
      <3>1. 0..n \subseteq S
        <4> HIDE DEF S
        <4> QED
          BY <2>1, <2>2, BoundedInduction
      <3> QED
        BY <3>1
    <2>4. n - n + 1 = 1
      OBVIOUS
    <2> QED
      BY <2>3, <2>4
  <1> QED
    BY <1>2, <1>3
=============================================================================
