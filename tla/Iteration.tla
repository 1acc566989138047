----------------------------- MODULE Iteration -----------------------------
(***************************************************************************)
(* Facts about loops that the proofs of several components use.  The       *)
(* induction theorems of the library take operators; these take sets and   *)
(* functions, and rest on the well-foundedness of the natural numbers.     *)
(***************************************************************************)
EXTENDS Integers, WellFoundedInduction, NaturalsInduction, TLAPS

\* A nonempty set of naturals has a least element.
LEMMA SmallestExists ==
    ASSUME NEW S \in SUBSET Nat, S # {}
    PROVE  \E s \in S : \A t \in S : s <= t
<1>. DEFINE Less == {r \in Nat \X Nat : r[1] < r[2]}
<1>1. IsWellFoundedOn(Less, Nat)
  BY NatLessThanWellFounded DEF OpToRel
<1>2. PICK s \in S : \A t \in S : ~(<<t, s>> \in Less)
  <2>. HIDE DEF Less
  <2>. QED BY <1>1, WFMin
<1>3. ASSUME NEW t \in S
      PROVE  s <= t
  <2>1. <<t, s>> \in Nat \X Nat /\ ~(<<t, s>> \in Less)
    BY <1>2
  <2>2. ~(t < s)
    BY <2>1
  <2>3. s \in Nat /\ t \in Nat
    OBVIOUS
  <2>. QED BY <2>2, <2>3
<1>. QED BY <1>3

\* What holds before a loop of N rounds and is kept by each round holds
\* behind every round.
LEMMA RoundByRound ==
    ASSUME NEW N \in Nat, NEW Good \in SUBSET (0 .. N), 0 \in Good,
           \A j \in 1 .. N : j - 1 \in Good => j \in Good
    PROVE  Good = 0 .. N
<1> SUFFICES ASSUME Good # 0 .. N PROVE FALSE OBVIOUS
<1>1. PICK n \in (0 .. N) \ Good : \A m \in (0 .. N) \ Good : n <= m
  BY SmallestExists, (0 .. N) \ Good \in SUBSET Nat, (0 .. N) \ Good # {}
<1>2. n # 0 /\ n \in 1 .. N /\ n - 1 \in 0 .. N BY <1>1
<1>3. n - 1 \in Good BY <1>1, <1>2
<1>. QED BY <1>1, <1>2, <1>3

\* The variable of a loop of N rounds, whose j-th round is f[j], has a value
\* behind every round.
LEMMA LoopRuns ==
    ASSUME NEW S, NEW v \in S, NEW N \in Nat, NEW f \in [1 .. N -> [S -> S]]
    PROVE  \E w \in [0 .. N -> S] : w[0] = v /\ \A j \in 1 .. N : w[j] = f[j][w[j - 1]]
<1>. DEFINE Runs(w, n) == w[0] = v /\ \A j \in 1 .. n : w[j] = f[j][w[j - 1]]
            Good == {n \in 0 .. N : \E w \in [0 .. n -> S] : Runs(w, n)}
<1>1. 0 \in Good
  <2>1. [j \in 0 .. 0 |-> v] \in [0 .. 0 -> S] /\ Runs([j \in 0 .. 0 |-> v], 0) OBVIOUS
  <2>2. 0 \in 0 .. N OBVIOUS
  <2>. HIDE DEF Runs
  <2>. QED BY <2>1, <2>2
<1>2. ASSUME NEW n \in 1 .. N, n - 1 \in Good PROVE n \in Good
  <2>1. PICK w \in [0 .. n - 1 -> S] : Runs(w, n - 1) BY <1>2
  <2>. DEFINE u == [j \in 0 .. n |-> IF j = n THEN f[n][w[n - 1]] ELSE w[j]]
  <2>2. n - 1 \in 0 .. n - 1 /\ 0 \in 0 .. n - 1 OBVIOUS
  <2>3. f[n][w[n - 1]] \in S BY <2>1, <2>2
  <2>4. u \in [0 .. n -> S] BY <2>1, <2>2, <2>3
  <2>5. u[n] = f[n][w[n - 1]] /\ \A j \in 0 .. n - 1 : u[j] = w[j] OBVIOUS
  <2>. HIDE DEF u
  <2>6. ASSUME NEW j \in 1 .. n PROVE u[j] = f[j][u[j - 1]]
    <3>1. CASE j = n BY <2>2, <2>5, <3>1
    <3>2. CASE j # n
      <4>1. j \in 1 .. n - 1 /\ j - 1 \in 0 .. n - 1 /\ j \in 0 .. n - 1 BY <3>2
      <4>. QED BY <2>1, <2>5, <4>1
    <3>. QED BY <3>1, <3>2
  <2>7. Runs(u, n) BY <2>1, <2>2, <2>5, <2>6
  <2>. HIDE DEF Runs
  <2>. QED BY <2>4, <2>7
<1>3. N \in Good
  <2>. HIDE DEF Good
  <2>1. Good \in SUBSET (0 .. N) BY DEF Good
  <2>2. Good = 0 .. N BY <1>1, <1>2, <2>1, RoundByRound
  <2>. QED BY <2>2
<1>. QED BY <1>3
=============================================================================
