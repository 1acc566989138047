------------------------- MODULE SchedPriorityProofs -------------------------
(***************************************************************************)
(* Proofs about the priority scheduler, for every size of its table: the   *)
(* array of slots is sorted after every insertion and searched without     *)
(* fail, the sleepers' relative times add up to what they asked for, and   *)
(* the rings stay whole but for the steps that Treacherous names.          *)
(***************************************************************************)
EXTENDS SchedPriority, Iteration, FiniteSetTheorems, SequenceTheorems

LEMMA Sizes ==
    /\ MaxProcess \in Nat /\ MaxProcess >= 2
    /\ CantPriorities \in Nat /\ CantPriorities >= 1
    /\ 0 \in Priority /\ CantPriorities - 1 \in Priority
    /\ Pids \subseteq Nat \ {0, 1} /\ SleepMs \subseteq Nat
BY SizeAssumption, PriorityAssumption, PidsAssumption, SleepAssumption DEF Priority

LEMMA MinIsLeast ==
    ASSUME NEW S \in SUBSET Nat, S # {}
    PROVE  Min(S) \in S /\ \A x \in S : Min(S) <= x
<1>1. \E x \in S : \A y \in S : x <= y BY SmallestExists
<1>. QED BY <1>1 DEF Min

-----------------------------------------------------------------------------
(* The shell sort.                                                         *)

LEMMA MultipleBelow ==
    ASSUME NEW inc \in Nat \ {0}, NEW a \in Nat, NEW b \in Nat, b < a,
           a % inc = 0, b % inc = 0
    PROVE  a - b >= inc /\ (a - inc) % inc = 0 /\ (b + inc) % inc = 0
<1>1. PICK x \in Nat : x = a \div inc OBVIOUS
<1>2. PICK y \in Nat : y = b \div inc OBVIOUS
<1>3. a = inc * x /\ b = inc * y BY <1>1, <1>2
<1>4. x > y BY <1>3
<1>5. PICK d \in Nat : x = y + 1 + d
  <2>1. x - y - 1 \in Nat /\ x = y + 1 + (x - y - 1) BY <1>4
  <2>. QED BY <2>1
<1>6. a - b = inc + inc * d BY <1>3, <1>5
<1>7. inc * d >= 0 OBVIOUS
<1>8. (a - inc) % inc = 0 /\ (b + inc) % inc = 0
  <2>1. a - inc = inc * (y + d) /\ b + inc = inc * (y + 1) BY <1>3, <1>5
  <2>2. \A q \in Nat : (inc * q) % inc = 0 OBVIOUS
  <2>3. y + d \in Nat /\ y + 1 \in Nat OBVIOUS
  <2>4. (inc * (y + d)) % inc = 0 /\ (inc * (y + 1)) % inc = 0 BY <2>2, <2>3
  <2>. QED BY <2>1, <2>4, Zenon
<1>9. a - b >= inc
  <2>1. PICK e \in Nat : e = inc * d BY <1>7
  <2>. QED BY <1>6, <2>1
<1>. QED BY <1>8, <1>9

\* w holds what v holds, each as often, if v holds nothing twice.
Rearranged(v, w, n) ==
    /\ w \in [1 .. n -> Slot]
    /\ (\A a, b \in 1 .. n : v[a] = v[b] => a = b)
          => \A a, b \in 1 .. n : w[a] = w[b] => a = b
    /\ \A a \in 1 .. n : \E b \in 1 .. n : w[a] = v[b]
    /\ \A a \in 1 .. n : \E b \in 1 .. n : v[a] = w[b]

\* One element moves down, whatever those in its way are.
LEMMA SiftMoves ==
    ASSUME NEW u, NEW n \in Nat, NEW v \in [1 .. n -> Slot], NEW j \in 1 .. n,
           NEW inc \in Nat \ {0}
    PROVE  Rearranged(v, Sift(u, v, j, inc), n)
<1>. DEFINE passed == {k \in 1 .. j : /\ (j - k) % inc = 0
                                       /\ \A m \in k .. j - 1 :
                                             (j - m) % inc = 0 => u.pid[v[m]] > u.pid[v[j]]}
            greater == {m \in 1 .. j - 1 : (j - m) % inc = 0 => u.pid[v[m]] > u.pid[v[j]]}
            w == Sift(u, v, j, inc)
<1>1. \A k \in 1 .. j : k \in passed <=> (j - k) % inc = 0 /\ \A m \in k .. j - 1 : m \in greater
  <2>1. TAKE k \in 1 .. j
  <2>2. \A m \in k .. j - 1 : m \in 1 .. j - 1 OBVIOUS
  <2>3. \A m \in k .. j - 1 : m \in greater <=> ((j - m) % inc = 0 => u.pid[v[m]] > u.pid[v[j]])
    BY <2>2
  <2>. HIDE DEF greater
  <2>. QED BY <2>3, Zenon
<1>2. passed \subseteq 1 .. j OBVIOUS
<1>3. PICK to : to = Min(passed) OBVIOUS
<1>4. w = [k \in 1 .. n |-> IF k = to THEN v[j] ELSE IF k \in passed THEN v[k - inc] ELSE v[k]]
  BY <1>3 DEF Sift
<1>. HIDE DEF passed, greater, w
<1>5. j \in passed
  <2>1. (j - j) % inc = 0 OBVIOUS
  <2>. QED BY <1>1, <2>1
<1>6. to \in passed /\ \A k \in passed : to <= k
  <2>1. passed \in SUBSET Nat /\ passed # {} BY <1>2, <1>5
  <2>. QED BY <1>3, <2>1, MinIsLeast
<1>7. to \in 1 .. j BY <1>2, <1>6
<1>8. ASSUME NEW k \in passed, k # to PROVE k - inc \in passed
  <2>1. k \in 1 .. j /\ to < k BY <1>2, <1>6, <1>7, <1>8
  <2>2. PICK a \in Nat : a = j - to BY <1>7
  <2>3. PICK b \in Nat : b = j - k BY <2>1
  <2>4. b < a /\ a % inc = 0 /\ b % inc = 0 BY <1>1, <1>6, <1>7, <2>1, <2>2, <2>3
  <2>5. a - b >= inc /\ (b + inc) % inc = 0 BY <2>4, MultipleBelow
  <2>6. k - inc >= to /\ k - inc \in 1 .. j /\ b + inc = j - (k - inc)
    BY <1>7, <2>1, <2>2, <2>3, <2>5
  <2>7. \A m \in to .. j - 1 : m \in greater BY <1>1, <1>6, <1>7
  <2>8. \A m \in k - inc .. j - 1 : m \in to .. j - 1 BY <1>7, <2>6
  <2>. QED BY <1>1, <2>5, <2>6, <2>7, <2>8
<1>9. ASSUME NEW k \in passed, k # j PROVE k + inc \in passed /\ k + inc # to
  <2>1. k \in 1 .. j /\ k < j /\ to <= k BY <1>2, <1>6, <1>9
  <2>2. PICK a \in Nat : a = j - k BY <2>1
  <2>3. 0 < a /\ a % inc = 0 /\ 0 % inc = 0 BY <1>1, <2>1, <2>2
  <2>4. a >= inc /\ (a - inc) % inc = 0
    <3>1. PICK z \in Nat : z = 0 OBVIOUS
    <3>2. a - z >= inc /\ (a - inc) % inc = 0 BY <2>3, <3>1, MultipleBelow
    <3>. QED BY <3>1, <3>2
  <2>5. k + inc \in 1 .. j /\ a - inc = j - (k + inc) BY <2>1, <2>2, <2>4
  <2>6. \A m \in k .. j - 1 : m \in greater BY <1>1, <2>1
  <2>7. \A m \in k + inc .. j - 1 : m \in k .. j - 1 BY <2>1
  <2>8. k + inc # to BY <2>1, <1>7
  <2>. QED BY <1>1, <2>4, <2>5, <2>6, <2>7, <2>8
<1>. DEFINE src == [k \in 1 .. n |-> IF k = to THEN j ELSE IF k \in passed THEN k - inc ELSE k]
<1>10. w = [k \in 1 .. n |-> v[src[k]]] BY <1>4
<1>11. src \in [1 .. n -> 1 .. n] BY <1>2, <1>8
<1>12. \A a, b \in 1 .. n : src[a] = src[b] => a = b
  <2>1. \A k \in passed : k # to => k - inc \in passed /\ k - inc # j /\ k \in 1 .. n
    BY <1>2, <1>8
  <2>. QED BY <1>2, <1>5, <1>6, <1>7, <2>1
<1>13. \A k \in 1 .. n : \E b \in 1 .. n : src[b] = k
  <2>1. TAKE k \in 1 .. n
  <2>2. CASE k = j
    <3>1. to \in 1 .. n BY <1>7
    <3>. QED BY <2>2, <3>1
  <2>3. CASE k \in passed /\ k # j
    <3>1. k + inc \in 1 .. n /\ src[k + inc] = k BY <1>2, <1>9, <2>3
    <3>. QED BY <3>1
  <2>4. CASE k \notin passed BY <1>5, <1>6, <2>4
  <2>. QED BY <2>2, <2>3, <2>4
<1>. HIDE DEF src
<1>14. w \in [1 .. n -> Slot] BY <1>10, <1>11
<1>15. (\A a, b \in 1 .. n : v[a] = v[b] => a = b) => \A a, b \in 1 .. n : w[a] = w[b] => a = b
  BY <1>10, <1>11, <1>12
<1>16. \A a \in 1 .. n : \E b \in 1 .. n : w[a] = v[b] BY <1>10, <1>11
<1>17. \A a \in 1 .. n : \E b \in 1 .. n : v[a] = w[b] BY <1>10, <1>13
<1>. QED BY <1>14, <1>15, <1>16, <1>17 DEF Rearranged, w

LEMMA RearrangedTwice ==
    ASSUME NEW n \in Nat, NEW v, NEW w, NEW x, Rearranged(v, w, n), Rearranged(w, x, n)
    PROVE  Rearranged(v, x, n)
<1>1. \A a \in 1 .. n : \E b \in 1 .. n : x[a] = v[b]
  <2>1. TAKE a \in 1 .. n
  <2>2. PICK b \in 1 .. n : x[a] = w[b] BY DEF Rearranged
  <2>3. PICK c \in 1 .. n : w[b] = v[c] BY DEF Rearranged
  <2>. QED BY <2>2, <2>3
<1>2. \A a \in 1 .. n : \E b \in 1 .. n : v[a] = x[b]
  <2>1. TAKE a \in 1 .. n
  <2>2. PICK b \in 1 .. n : v[a] = w[b] BY DEF Rearranged
  <2>3. PICK c \in 1 .. n : w[b] = x[c] BY DEF Rearranged
  <2>. QED BY <2>2, <2>3
<1>. QED BY <1>1, <1>2, Zenon DEF Rearranged

LEMMA RearrangedNot ==
    ASSUME NEW n \in Nat, NEW v \in [1 .. n -> Slot]
    PROVE  Rearranged(v, v, n)
BY DEF Rearranged

\* The first j places hold slots in the order of their pids.
SortedTo(u, v, j) == \A a, b \in 1 .. j : a < b => u.pid[v[a]] < u.pid[v[b]]
OneEach(u, v, n) == \A a, b \in 1 .. n : u.pid[v[a]] = u.pid[v[b]] => a = b

LEMMA RearrangedOneEach ==
    ASSUME NEW n \in Nat, NEW u, NEW v, NEW w, Rearranged(v, w, n), OneEach(u, v, n)
    PROVE  OneEach(u, w, n)
<1>1. \A a, b \in 1 .. n : w[a] = w[b] => a = b BY DEF Rearranged, OneEach
<1>2. \A a \in 1 .. n : \E b \in 1 .. n : w[a] = v[b] BY DEF Rearranged
<1>. QED BY <1>1, <1>2 DEF OneEach

\* With steps of one the element arrives where it belongs.
LEMMA SiftSorts ==
    ASSUME NEW u, u.pid \in [Slot -> Nat], NEW n \in Nat, NEW v \in [1 .. n -> Slot],
           NEW j \in 1 .. n, SortedTo(u, v, j - 1), OneEach(u, v, n)
    PROVE  SortedTo(u, Sift(u, v, j, 1), j)
<1>. DEFINE passed == {k \in 1 .. j : /\ (j - k) % 1 = 0
                                       /\ \A m \in k .. j - 1 :
                                             (j - m) % 1 = 0 => u.pid[v[m]] > u.pid[v[j]]}
            p == [k \in 1 .. n |-> u.pid[v[k]]]
            q == [k \in 1 .. n |-> u.pid[Sift(u, v, j, 1)[k]]]
<1>1. \A m \in Int : m % 1 = 0 OBVIOUS
<1>2. p \in [1 .. n -> Nat]
  <2>1. \A k \in 1 .. n : v[k] \in Slot OBVIOUS
  <2>. QED BY <2>1
<1>3. \A k \in 1 .. n : p[k] = u.pid[v[k]] OBVIOUS
<1>4. \A a, b \in 1 .. j - 1 : a < b => p[a] < p[b] BY <1>3 DEF SortedTo
<1>5. \A a, b \in 1 .. n : p[a] = p[b] => a = b BY <1>3 DEF OneEach
<1>6. \A k \in 1 .. j : k \in passed <=> \A m \in k .. j - 1 : p[m] > p[j]
  <2>1. TAKE k \in 1 .. j
  <2>2. (j - k) % 1 = 0 /\ \A m \in k .. j - 1 : (j - m) % 1 = 0 /\ m \in 1 .. n BY <1>1
  <2>. QED BY <1>3, <2>2
<1>7. passed \subseteq 1 .. j OBVIOUS
<1>. HIDE DEF passed, p
<1>8. j \in passed BY <1>6
<1>9. PICK to : to = Min(passed) OBVIOUS
<1>10. to \in passed /\ \A k \in passed : to <= k
  <2>1. passed \in SUBSET Nat /\ passed # {} BY <1>7, <1>8
  <2>. QED BY <1>9, <2>1, MinIsLeast
<1>11. to \in 1 .. j /\ \A m \in to .. j - 1 : p[m] > p[j] BY <1>6, <1>7, <1>10
<1>12. \A k \in 1 .. n : k \in passed <=> k \in to .. j
  <2>1. TAKE k \in 1 .. n
  <2>2. k \in to .. j => k \in 1 .. j /\ \A m \in k .. j - 1 : m \in to .. j - 1 BY <1>11
  <2>3. ASSUME k \in passed PROVE k \in to .. j
    <3>1. k \in 1 .. j /\ to <= k BY <1>7, <1>10, <2>3
    <3>. QED BY <1>11, <3>1
  <2>4. ASSUME k \in to .. j PROVE k \in passed
    <3>1. k \in 1 .. j /\ \A m \in k .. j - 1 : p[m] > p[j] BY <1>11, <2>2, <2>4
    <3>. QED BY <1>6, <3>1
  <2>. QED BY <2>3, <2>4
<1>13. to > 1 => p[to - 1] < p[j]
  <2>1. HAVE to > 1
  <2>2. to - 1 \in 1 .. j /\ to - 1 \in 1 .. n /\ ~(to - 1 \in to .. j) BY <1>11, <2>1
  <2>3. PICK m \in to - 1 .. j - 1 : ~(p[m] > p[j]) BY <1>6, <1>12, <2>2
  <2>4. m = to - 1
    <3>1. m \notin to .. j - 1 BY <1>11, <2>3
    <3>. QED BY <1>11, <2>3, <3>1
  <2>5. p[to - 1] # p[j] BY <1>5, <1>11, <2>2
  <2>6. p[to - 1] \in Nat /\ p[j] \in Nat BY <1>2, <2>2
  <2>. QED BY <2>3, <2>4, <2>5, <2>6
<1>14. \A k \in 1 .. n : Sift(u, v, j, 1)[k]
                          = IF k = to THEN v[j] ELSE IF k \in passed THEN v[k - 1] ELSE v[k]
  BY <1>9 DEF Sift, passed
<1>15. \A k \in 1 .. j : q[k] = IF k = to THEN p[j] ELSE IF k > to THEN p[k - 1] ELSE p[k]
  <2>1. TAKE k \in 1 .. j
  <2>2. k \in 1 .. n /\ (k # to => (k \in passed <=> k > to)) BY <1>11, <1>12
  <2>3. k > to => k - 1 \in 1 .. n BY <1>11
  <2>. QED BY <1>3, <1>14, <2>2, <2>3
<1>16. \A a \in 1 .. j : q[a] = u.pid[Sift(u, v, j, 1)[a]] OBVIOUS
<1>. HIDE DEF q
<1>17. \A a, b \in 1 .. j : a < b => q[a] < q[b]
  <2>1. TAKE a, b \in 1 .. j
  <2>2. HAVE a < b
  <2>3. CASE b < to BY <1>4, <1>11, <1>15, <2>2, <2>3
  <2>4. CASE b = to
    <3>1. q[b] = p[j] /\ q[a] = p[a] BY <1>11, <1>15, <2>2, <2>4
    <3>2. a = to - 1 \/ p[a] < p[to - 1] BY <1>4, <1>11, <2>2, <2>4, SMTT(30)
    <3>3. p[a] \in Nat /\ p[to - 1] \in Nat /\ p[j] \in Nat BY <1>2, <1>11, <2>2, <2>4
    <3>4. p[to - 1] < p[j] BY <1>11, <1>13, <2>2, <2>4
    <3>. QED BY <3>1, <3>2, <3>3, <3>4
  <2>5. CASE b > to /\ a = to BY <1>11, <1>15, <2>2, <2>5
  <2>6. CASE b > to /\ a > to BY <1>4, <1>11, <1>15, <2>2, <2>6
  <2>7. CASE b > to /\ a < to
    <3>1. q[b] = p[b - 1] BY <1>11, <1>15, <2>2, <2>7, SMTT(30)
    <3>2. q[a] = p[a]
      <4>1. a # to /\ ~(a > to) /\ a \in 1 .. j BY <1>11, <2>7
      <4>. QED BY <1>15, <4>1
    <3>3. a < b - 1 /\ a \in 1 .. j - 1 /\ b - 1 \in 1 .. j - 1 BY <1>11, <2>2, <2>7
    <3>. QED BY <1>4, <3>2, <3>1, <3>3
  <2>. QED BY <1>11, <2>3, <2>4, <2>5, <2>6, <2>7
<1>. QED BY <1>16, <1>17 DEF SortedTo

Array(n) == [1 .. n -> Slot]

PassIs(u, n, v, inc, sifted) ==
    /\ ShellPass(u, v, inc) = sifted[n]
    /\ sifted[0] = v
    /\ \A j \in 1 .. n : sifted[j] = IF j <= inc THEN sifted[j - 1]
                                     ELSE Sift(u, sifted[j - 1], j, inc)

\* The values of the array behind each element of a pass.
LEMMA PassLoop ==
    ASSUME NEW u, NEW n \in Nat, NEW v \in Array(n), Len(v) = n, NEW inc \in Nat \ {0}
    PROVE  \E sifted \in [0 .. n -> Array(n)] : PassIs(u, n, v, inc, sifted)
<1>. DEFINE sifted[j \in 0 .. n] ==
                IF j = 0 THEN v
                ELSE IF j <= inc THEN sifted[j - 1] ELSE Sift(u, sifted[j - 1], j, inc)
            f == [j \in 1 .. n |-> [x \in Array(n) |-> IF j <= inc THEN x ELSE Sift(u, x, j, inc)]]
<1>1. ShellPass(u, v, inc) = sifted[n] BY Zenon DEF ShellPass
<1>2. f \in [1 .. n -> [Array(n) -> Array(n)]]
  <2>1. \A j \in 1 .. n, x \in Array(n) : Sift(u, x, j, inc) \in Array(n) BY SiftMoves DEF Rearranged, Array
  <2>. QED BY <2>1
<1>3. v \in Array(n) OBVIOUS
<1>4. PICK g \in [0 .. n -> Array(n)] : g[0] = v /\ \A j \in 1 .. n : g[j] = f[j][g[j - 1]]
  <2>. HIDE DEF f, sifted
  <2>. QED BY <1>2, <1>3, LoopRuns
<1>5. g = [j \in 0 .. n |-> IF j = 0 THEN v
                            ELSE IF j <= inc THEN g[j - 1] ELSE Sift(u, g[j - 1], j, inc)]
  <2>1. \A j \in 0 .. n : j # 0 => j \in 1 .. n /\ j - 1 \in 0 .. n OBVIOUS
  <2>. QED BY <1>4, <2>1
<1>6. sifted = [j \in 0 .. n |-> IF j = 0 THEN v
                                 ELSE IF j <= inc THEN sifted[j - 1]
                                 ELSE Sift(u, sifted[j - 1], j, inc)]
  BY <1>5
<1>. HIDE DEF sifted
<1>7. sifted[0] = v /\ \A j \in 1 .. n : sifted[j] = IF j <= inc THEN sifted[j - 1]
                                                     ELSE Sift(u, sifted[j - 1], j, inc)
  <2>1. 0 \in 0 .. n /\ \A j \in 1 .. n : j \in 0 .. n /\ j # 0 OBVIOUS
  <2>. QED BY <1>6, <2>1
<1>8. \A j \in 0 .. n : sifted[j] \in Array(n)
  <2>. DEFINE Good == {j \in 0 .. n : sifted[j] \in Array(n)}
  <2>1. 0 \in Good BY <1>3, <1>7
  <2>2. ASSUME NEW j \in 1 .. n, j - 1 \in Good PROVE j \in Good
    <3>1. j \in 0 .. n /\ sifted[j - 1] \in Array(n) BY <2>2
    <3>2. Sift(u, sifted[j - 1], j, inc) \in Array(n) BY <3>1, SiftMoves DEF Rearranged, Array
    <3>. QED BY <1>7, <3>1, <3>2
  <2>3. Good \in SUBSET (0 .. n) OBVIOUS
  <2>. HIDE DEF Good
  <2>4. Good = 0 .. n BY <2>1, <2>2, <2>3, RoundByRound
  <2>. QED BY <2>4 DEF Good
<1>9. sifted \in [0 .. n -> Array(n)] BY <1>6, <1>8
<1>10. PassIs(u, n, v, inc, sifted) BY <1>1, <1>7, Zenon DEF PassIs
<1>. QED BY <1>9, <1>10

\* A pass rearranges the array; the last one, of steps of one, sorts it.
LEMMA PassSorts ==
    ASSUME NEW u, u.pid \in [Slot -> Nat], NEW n \in Nat, NEW v \in [1 .. n -> Slot],
           Len(v) = n, NEW inc \in Nat \ {0}
    PROVE  /\ Rearranged(v, ShellPass(u, v, inc), n)
           /\ inc = 1 /\ OneEach(u, v, n) => SortedTo(u, ShellPass(u, v, inc), n)
<1>1. v \in Array(n) BY DEF Array
<1>2. PICK sifted \in [0 .. n -> Array(n)] : PassIs(u, n, v, inc, sifted) BY <1>1, PassLoop
<1>3. /\ ShellPass(u, v, inc) = sifted[n] /\ sifted[0] = v
      /\ \A j \in 1 .. n : sifted[j] = IF j <= inc THEN sifted[j - 1]
                                       ELSE Sift(u, sifted[j - 1], j, inc)
  BY <1>2, Zenon DEF PassIs
<1>. DEFINE Good == {j \in 0 .. n : /\ Rearranged(v, sifted[j], n)
                                    /\ inc = 1 /\ OneEach(u, v, n) => SortedTo(u, sifted[j], j)}
<1>4. 0 \in Good
  <2>1. SortedTo(u, v, 0) BY DEF SortedTo
  <2>. QED BY <1>3, <2>1, RearrangedNot
<1>5. ASSUME NEW j \in 1 .. n, j - 1 \in Good PROVE j \in Good
  <2>1. PICK x \in [1 .. n -> Slot] : x = sifted[j - 1]
    <3>1. j - 1 \in 0 .. n OBVIOUS
    <3>2. sifted[j - 1] \in Array(n) BY <3>1
    <3>. QED BY <3>2 DEF Array
  <2>2. Rearranged(v, x, n) /\ (inc = 1 /\ OneEach(u, v, n) => SortedTo(u, x, j - 1))
    BY <1>5, <2>1
  <2>3. sifted[j] = IF j <= inc THEN x ELSE Sift(u, x, j, inc) BY <1>3, <2>1
  <2>4. CASE j <= inc
    <3>1. inc = 1 => j = 1 BY <2>4
    <3>2. SortedTo(u, x, 1) BY DEF SortedTo
    <3>. QED BY <2>2, <2>3, <2>4, <3>1, <3>2
  <2>5. CASE ~(j <= inc)
    <3>1. Rearranged(x, Sift(u, x, j, inc), n) BY SiftMoves
    <3>2. Rearranged(v, Sift(u, x, j, inc), n) BY <2>2, <3>1, RearrangedTwice
    <3>3. ASSUME inc = 1, OneEach(u, v, n) PROVE SortedTo(u, Sift(u, x, j, inc), j)
      <4>1. OneEach(u, x, n) BY <2>2, <3>3, RearrangedOneEach
      <4>. QED BY <2>2, <3>3, <4>1, SiftSorts
    <3>. QED BY <2>3, <2>5, <3>2, <3>3
  <2>. QED BY <2>4, <2>5
<1>6. Good = 0 .. n
  <2>1. Good \in SUBSET (0 .. n) OBVIOUS
  <2>. HIDE DEF Good
  <2>. QED BY <1>4, <1>5, <2>1, RoundByRound
<1>7. n \in Good
  <2>1. n \in 0 .. n OBVIOUS
  <2>. HIDE DEF Good
  <2>. QED BY <1>6, <2>1
<1>. QED BY <1>3, <1>7

LEMMA ArrayLength ==
    ASSUME NEW n \in Nat, NEW v \in Array(n)
    PROVE  v \in Seq(Slot) /\ Len(v) = n /\ DOMAIN v = 1 .. n
<1>1. v \in [1 .. n -> Slot] BY DEF Array
<1>. QED BY <1>1

OrderIs(u, n, inc, ordered) ==
    /\ orderIndexes(u) = [u EXCEPT !.indexes = ordered[n]]
    /\ inc[0] = n /\ \A k \in 1 .. n : inc[k] = inc[k - 1] \div 2
    /\ ordered[0] = u.indexes
    /\ \A k \in 1 .. n : ordered[k] = IF inc[k] = 0 THEN ordered[k - 1]
                                      ELSE ShellPass(u, ordered[k - 1], inc[k])

LEMMA Halves ==
    ASSUME NEW x \in Nat
    PROVE  x \div 2 \in Nat /\ (x = 0 => x \div 2 = 0) /\ (x # 0 => x \div 2 < x)
           /\ (x >= 2 => x \div 2 >= 1)
OBVIOUS

Steps == Nat

LEMMA HalvingRuns ==
    ASSUME NEW n \in Nat
    PROVE  \E g \in [0 .. n -> Nat] : g[0] = n /\ \A j \in 1 .. n : g[j] = g[j - 1] \div 2
<1>. DEFINE f == [j \in 1 .. n |-> [x \in Steps |-> x \div 2]]
<1>1. f \in [1 .. n -> [Steps -> Steps]] BY Halves DEF Steps
<1>2. PICK v \in Steps : v = n BY DEF Steps
<1>3. PICK g \in [0 .. n -> Steps] : g[0] = v /\ \A j \in 1 .. n : g[j] = f[j][g[j - 1]]
  <2>. HIDE DEF f
  <2>. QED BY <1>1, LoopRuns
<1>4. \A j \in 1 .. n : j - 1 \in 0 .. n OBVIOUS
<1>5. \A j \in 1 .. n : g[j] = g[j - 1] \div 2 BY <1>3, <1>4
<1>. QED BY <1>2, <1>3, <1>5 DEF Steps

\* The steps of the sort, and the values of the array behind each pass.
LEMMA OrderLoop ==
    ASSUME NEW u, u.pid \in [Slot -> Nat], NEW n \in Nat, u.indexes \in Array(n)
    PROVE  \E inc \in [0 .. n -> Nat], ordered \in [0 .. n -> Array(n)] :
              OrderIs(u, n, inc, ordered)
<1>. DEFINE size == Len(u.indexes)
            inc[k \in 0 .. size] == IF k = 0 THEN size ELSE Gap(inc[k - 1])
            ordered[k \in 0 .. size] ==
                IF k = 0 THEN u.indexes
                ELSE IF inc[k] = 0 THEN ordered[k - 1] ELSE ShellPass(u, ordered[k - 1], inc[k])
<1>1. size = n BY ArrayLength
<1>2. orderIndexes(u) = [u EXCEPT !.indexes = ordered[n]]
  <2>1. orderIndexes(u) = [u EXCEPT !.indexes = ordered[size]] BY Zenon DEF orderIndexes
  <2>. HIDE DEF ordered
  <2>. QED BY <1>1, <2>1
<1>. HIDE DEF ordered, size
<1>3. inc = [k \in 0 .. n |-> IF k = 0 THEN n ELSE Gap(inc[k - 1])]
  <2>1. PICK g \in [0 .. n -> Nat] : g[0] = n /\ \A j \in 1 .. n : g[j] = g[j - 1] \div 2
    BY HalvingRuns
  <2>2. g = [k \in 0 .. n |-> IF k = 0 THEN n ELSE Gap(g[k - 1])]
    <3>1. \A j \in 0 .. n : j # 0 => j \in 1 .. n /\ j - 1 \in 0 .. n OBVIOUS
    <3>. QED BY <2>1, <3>1 DEF Gap
  <2>. QED BY <1>1, <2>2
<1>. HIDE DEF inc
<1>4. inc[0] = n /\ \A k \in 1 .. n : inc[k] = inc[k - 1] \div 2
  <2>1. 0 \in 0 .. n /\ \A j \in 1 .. n : j \in 0 .. n /\ j # 0 OBVIOUS
  <2>. QED BY <1>3, <2>1 DEF Gap
<1>5. inc \in [0 .. n -> Nat]
  <2>. DEFINE Good == {j \in 0 .. n : inc[j] \in Nat}
  <2>1. 0 \in Good BY <1>4
  <2>2. ASSUME NEW j \in 1 .. n, j - 1 \in Good PROVE j \in Good BY <1>4, <2>2
  <2>3. Good \in SUBSET (0 .. n) OBVIOUS
  <2>. HIDE DEF Good
  <2>4. Good = 0 .. n BY <2>1, <2>2, <2>3, RoundByRound
  <2>. QED BY <1>3, <2>4 DEF Good
<1>. DEFINE f == [j \in 1 .. n |-> [x \in Array(n) |-> IF inc[j] = 0 THEN x
                                                       ELSE ShellPass(u, x, inc[j])]]
<1>6. \A j \in 1 .. n, x \in Array(n) : inc[j] # 0 => ShellPass(u, x, inc[j]) \in Array(n)
  <2>1. TAKE j \in 1 .. n, x \in Array(n)
  <2>2. HAVE inc[j] # 0
  <2>3. inc[j] \in Nat \ {0} BY <1>5, <2>2
  <2>4. x \in [1 .. n -> Slot] /\ Len(x) = n BY ArrayLength DEF Array
  <2>5. Rearranged(x, ShellPass(u, x, inc[j]), n) BY <2>3, <2>4, PassSorts
  <2>. QED BY <2>5 DEF Rearranged, Array
<1>7. f \in [1 .. n -> [Array(n) -> Array(n)]] BY <1>6
<1>8. PICK g \in [0 .. n -> Array(n)] : g[0] = u.indexes /\ \A j \in 1 .. n : g[j] = f[j][g[j - 1]]
  <2>1. PICK v \in Array(n) : v = u.indexes OBVIOUS
  <2>. HIDE DEF f
  <2>2. \E g \in [0 .. n -> Array(n)] : g[0] = v /\ \A j \in 1 .. n : g[j] = f[j][g[j - 1]]
    BY <1>7, LoopRuns
  <2>. QED BY <2>1, <2>2
<1>9. g = [k \in 0 .. n |-> IF k = 0 THEN u.indexes
                            ELSE IF inc[k] = 0 THEN g[k - 1] ELSE ShellPass(u, g[k - 1], inc[k])]
  <2>1. \A j \in 0 .. n : j # 0 => j \in 1 .. n /\ j - 1 \in 0 .. n OBVIOUS
  <2>. QED BY <1>8, <2>1
<1>10. ordered = [k \in 0 .. n |-> IF k = 0 THEN u.indexes
                                  ELSE IF inc[k] = 0 THEN ordered[k - 1]
                                  ELSE ShellPass(u, ordered[k - 1], inc[k])]
  BY <1>1, <1>9 DEF ordered
<1>11. ordered[0] = u.indexes /\ \A k \in 1 .. n :
           ordered[k] = IF inc[k] = 0 THEN ordered[k - 1] ELSE ShellPass(u, ordered[k - 1], inc[k])
  <2>1. 0 \in 0 .. n /\ \A j \in 1 .. n : j \in 0 .. n /\ j # 0 OBVIOUS
  <2>. QED BY <1>10, <2>1
<1>12. ordered \in [0 .. n -> Array(n)]
  <2>. DEFINE Good == {j \in 0 .. n : ordered[j] \in Array(n)}
  <2>1. 0 \in Good BY <1>11
  <2>2. ASSUME NEW j \in 1 .. n, j - 1 \in Good PROVE j \in Good
    <3>1. j \in 0 .. n /\ ordered[j - 1] \in Array(n) BY <2>2
    <3>. QED BY <1>6, <1>11, <3>1
  <2>3. Good \in SUBSET (0 .. n) OBVIOUS
  <2>. HIDE DEF Good
  <2>4. Good = 0 .. n BY <2>1, <2>2, <2>3, RoundByRound
  <2>. QED BY <1>10, <2>4 DEF Good
<1>13. OrderIs(u, n, inc, ordered) BY <1>2, <1>4, <1>11, Zenon DEF OrderIs
<1>. QED BY <1>5, <1>12, <1>13

\* However many slots there are, one of the passes has steps of one.
LEMMA LastPass ==
    ASSUME NEW n \in Nat, NEW inc \in [0 .. n -> Nat], inc[0] = n, n >= 2,
           \A k \in 1 .. n : inc[k] = inc[k - 1] \div 2
    PROVE  \E k \in 1 .. n : inc[k] = 1 /\ \A j \in k + 1 .. n : inc[j] = 0
<1>. DEFINE Small == {k \in 0 .. n : inc[k] = 0 \/ inc[k] + k <= n}
            Zero == {k \in 0 .. n : inc[k] = 0}
<1>1. 0 \in Small OBVIOUS
<1>2. ASSUME NEW j \in 1 .. n, j - 1 \in Small PROVE j \in Small
  <2>1. PICK x \in Nat : x = inc[j - 1] BY <1>2
  <2>2. PICK y \in Nat : y = inc[j] OBVIOUS
  <2>3. y = x \div 2 BY <2>1, <2>2
  <2>4. x = 0 \/ x + (j - 1) <= n BY <1>2, <2>1
  <2>5. (x = 0 => y = 0) /\ (x # 0 => y < x) BY <2>3, Halves, Zenon
  <2>6. y = 0 \/ y + j <= n BY <2>4, <2>5
  <2>. QED BY <2>2, <2>6
<1>3. n \in Small
  <2>1. Small \in SUBSET (0 .. n) OBVIOUS
  <2>. HIDE DEF Small
  <2>2. Small = 0 .. n BY <1>1, <1>2, <2>1, RoundByRound
  <2>. QED BY <2>2
<1>4. n \in Zero BY <1>3
<1>5. PICK z \in Zero : \A k \in Zero : z <= k
  <2>1. Zero \in SUBSET Nat /\ Zero # {} BY <1>4, SMTT(30)
  <2>. HIDE DEF Zero
  <2>. QED BY <2>1, SmallestExists
<1>6. z \in 1 .. n /\ inc[z] = 0 BY <1>5
<1>7. inc[z - 1] # 0
  <2>1. z - 1 \in 0 .. n /\ z - 1 < z BY <1>6
  <2>. QED BY <1>5, <2>1
<1>8. inc[z - 1] = 1
  <2>1. PICK x \in Nat : x = inc[z - 1] BY <1>6
  <2>2. x \div 2 = 0 /\ x # 0 BY <1>6, <1>7, <2>1
  <2>3. ~(x >= 2)
    <3>1. PICK y \in Nat : y = x \div 2 OBVIOUS
    <3>2. x >= 2 => y >= 1 BY <3>1, Halves, Zenon
    <3>. QED BY <2>2, <3>1, <3>2
  <2>4. x # 0 BY <2>2
  <2>5. x = 1 BY <2>3, <2>4
  <2>. QED BY <2>1, <2>5
<1>9. z # 1
  <2>1. n \div 2 # 0 OBVIOUS
  <2>. QED BY <1>6, <2>1
<1>10. \A j \in z .. n : inc[j] = 0
  <2>. DEFINE Good == {i \in 0 .. n - z : inc[z + i] = 0}
  <2>1. 0 \in Good BY <1>6
  <2>2. ASSUME NEW i \in 1 .. n - z, i - 1 \in Good PROVE i \in Good
    <3>1. z + i \in 1 .. n /\ (z + i) - 1 = z + (i - 1) BY <1>6
    <3>2. inc[z + i] = inc[z + (i - 1)] \div 2 BY <3>1
    <3>. QED BY <2>2, <3>2
  <2>3. Good \in SUBSET (0 .. n - z) /\ n - z \in Nat BY <1>6
  <2>. HIDE DEF Good
  <2>4. Good = 0 .. n - z BY <2>1, <2>2, <2>3, RoundByRound
  <2>5. \A j \in z .. n : j - z \in Good BY <1>6, <2>4
  <2>. QED BY <1>6, <2>5 DEF Good
<1>11. z - 1 \in 1 .. n /\ (z - 1) + 1 = z BY <1>6, <1>9
<1>. QED BY <1>8, <1>10, <1>11

\* An insertion leaves the array sorted.
LEMMA OrderSorts ==
    ASSUME NEW u, u.pid \in [Slot -> Nat], NEW n \in Nat, u.indexes \in Array(n),
           OneEach(u, u.indexes, n)
    PROVE  \E w \in Array(n) : /\ orderIndexes(u) = [u EXCEPT !.indexes = w]
                               /\ Rearranged(u.indexes, w, n) /\ SortedTo(u, w, n)
<1>1. PICK inc \in [0 .. n -> Nat], ordered \in [0 .. n -> Array(n)] : OrderIs(u, n, inc, ordered)
  BY OrderLoop
<1>2. /\ orderIndexes(u) = [u EXCEPT !.indexes = ordered[n]]
      /\ inc[0] = n /\ \A k \in 1 .. n : inc[k] = inc[k - 1] \div 2
      /\ ordered[0] = u.indexes
      /\ \A k \in 1 .. n : ordered[k] = IF inc[k] = 0 THEN ordered[k - 1]
                                        ELSE ShellPass(u, ordered[k - 1], inc[k])
  BY <1>1, Zenon DEF OrderIs
<1>. DEFINE Good == {k \in 0 .. n : Rearranged(u.indexes, ordered[k], n)}
<1>3. 0 \in Good
  <2>1. u.indexes \in [1 .. n -> Slot] BY DEF Array
  <2>2. Rearranged(u.indexes, u.indexes, n) BY <2>1, RearrangedNot
  <2>. QED BY <1>2, <2>2
<1>4. ASSUME NEW k \in 1 .. n, NEW x \in Array(n), inc[k] # 0
      PROVE  /\ Rearranged(x, ShellPass(u, x, inc[k]), n)
             /\ inc[k] = 1 /\ OneEach(u, x, n) => SortedTo(u, ShellPass(u, x, inc[k]), n)
  <2>1. inc[k] \in Nat \ {0} BY <1>4
  <2>2. x \in [1 .. n -> Slot] /\ Len(x) = n BY ArrayLength DEF Array
  <2>. QED BY <2>1, <2>2, PassSorts
<1>5. ASSUME NEW k \in 1 .. n, k - 1 \in Good PROVE k \in Good
  <2>1. PICK x \in Array(n) : x = ordered[k - 1] BY <1>5
  <2>2. Rearranged(u.indexes, x, n) BY <1>5, <2>1
  <2>3. CASE inc[k] = 0 BY <1>2, <2>1, <2>2, <2>3
  <2>4. CASE inc[k] # 0
    <3>1. Rearranged(u.indexes, ShellPass(u, x, inc[k]), n) BY <1>4, <2>2, <2>4, RearrangedTwice
    <3>. QED BY <1>2, <2>1, <2>4, <3>1
  <2>. QED BY <2>3, <2>4
<1>6. Good = 0 .. n
  <2>1. Good \in SUBSET (0 .. n) OBVIOUS
  <2>. HIDE DEF Good
  <2>. QED BY <1>3, <1>5, <2>1, RoundByRound
<1>7. \A k \in 0 .. n : Rearranged(u.indexes, ordered[k], n) BY <1>6
<1>8. SortedTo(u, ordered[n], n)
  <2>1. CASE n < 2 BY <2>1 DEF SortedTo
  <2>2. CASE n >= 2
    <3>1. PICK k \in 1 .. n : inc[k] = 1 /\ \A j \in k + 1 .. n : inc[j] = 0
      BY <1>2, <2>2, LastPass
    <3>2. PICK x \in Array(n) : x = ordered[k - 1] OBVIOUS
    <3>3. Rearranged(u.indexes, x, n)
      <4>1. k - 1 \in 0 .. n OBVIOUS
      <4>. QED BY <1>7, <3>2, <4>1
    <3>4. OneEach(u, x, n) BY <3>3, RearrangedOneEach
    <3>5. SortedTo(u, ordered[k], n) BY <1>2, <1>4, <3>1, <3>2, <3>4
    <3>. DEFINE Same == {i \in 0 .. n - k : ordered[k + i] = ordered[k]}
    <3>6. 0 \in Same OBVIOUS
    <3>7. ASSUME NEW i \in 1 .. n - k, i - 1 \in Same PROVE i \in Same
      <4>1. k + i \in 1 .. n /\ k + i \in k + 1 .. n /\ (k + i) - 1 = k + (i - 1) OBVIOUS
      <4>2. ordered[k + i] = ordered[k + (i - 1)] BY <1>2, <3>1, <4>1
      <4>. QED BY <3>7, <4>2
    <3>8. n - k \in Same
      <4>1. Same \in SUBSET (0 .. n - k) /\ n - k \in Nat OBVIOUS
      <4>. HIDE DEF Same
      <4>2. Same = 0 .. n - k BY <3>6, <3>7, <4>1, RoundByRound
      <4>. QED BY <4>1, <4>2
    <3>9. k + (n - k) = n OBVIOUS
    <3>. QED BY <3>5, <3>8, <3>9
  <2>. QED BY <2>1, <2>2
<1>9. ordered[n] \in Array(n) /\ n \in 0 .. n OBVIOUS
<1>. QED BY <1>2, <1>7, <1>8, <1>9

-----------------------------------------------------------------------------
(* The bisection.                                                          *)

Range2(n) == (0 .. n) \X (0 .. n)

\* One round of the loop of getByPid.
Narrowed(u, pid, w) ==
    LET mid == w[1] + (w[2] - w[1]) \div 2
    IN  IF w[1] >= w[2] THEN w
        ELSE IF u.pid[u.indexes[mid + 1]] < pid THEN <<mid + 1, w[2]>> ELSE <<w[1], mid>>

LEMMA Middle ==
    ASSUME NEW a \in Nat, NEW b \in Nat, a < b
    PROVE  a + (b - a) \div 2 \in a .. b - 1
<1>1. PICK d \in Nat : d = b - a /\ d # 0 OBVIOUS
<1>2. PICK h \in Nat : h = d \div 2 BY Halves
<1>3. h < d BY <1>1, <1>2, Halves, Zenon
<1>. QED BY <1>1, <1>2, <1>3

LEMMA NarrowedStays ==
    ASSUME NEW u, NEW pid, NEW n \in Nat, NEW w \in Range2(n)
    PROVE  Narrowed(u, pid, w) \in Range2(n)
<1>1. PICK a \in 0 .. n, b \in 0 .. n : w = <<a, b>> BY DEF Range2
<1>2. CASE a >= b BY <1>1, <1>2 DEF Narrowed
<1>3. CASE a < b
  <2>1. PICK m \in a .. b - 1 : m = a + (b - a) \div 2 BY <1>3, Middle
  <2>2. Narrowed(u, pid, w) \in {<<m + 1, b>>, <<a, m>>} BY <1>1, <1>3, <2>1 DEF Narrowed
  <2>3. m + 1 \in 0 .. n /\ m \in 0 .. n BY <2>1
  <2>. QED BY <2>2, <2>3 DEF Range2
<1>. QED BY <1>2, <1>3

NarrowIs(u, pid, n, narrow) ==
    /\ Lowest(u, pid) = narrow[MaxProcess][1]
    /\ narrow[0] = <<0, n>>
    /\ \A k \in 1 .. MaxProcess : narrow[k] = Narrowed(u, pid, narrow[k - 1])

LEMMA NarrowLoop ==
    ASSUME NEW u, NEW pid, NEW n \in Nat, u.indexes \in Array(n)
    PROVE  \E narrow \in [0 .. MaxProcess -> Range2(n)] : NarrowIs(u, pid, n, narrow)
<1>. DEFINE size == Len(u.indexes)
            narrow[k \in 0 .. MaxProcess] ==
                IF k = 0 THEN <<0, size>>
                ELSE LET w == narrow[k - 1]
                         mid == w[1] + (w[2] - w[1]) \div 2
                     IN  IF w[1] >= w[2] THEN w
                         ELSE IF u.pid[u.indexes[mid + 1]] < pid THEN <<mid + 1, w[2]>>
                         ELSE <<w[1], mid>>
            f == [j \in 1 .. MaxProcess |-> [x \in Range2(n) |-> Narrowed(u, pid, x)]]
<1>1. size = n BY ArrayLength
<1>2. Lowest(u, pid) = narrow[MaxProcess][1] BY Zenon DEF Lowest
<1>3. f \in [1 .. MaxProcess -> [Range2(n) -> Range2(n)]] BY NarrowedStays
<1>4. PICK g \in [0 .. MaxProcess -> Range2(n)] :
         g[0] = <<0, n>> /\ \A j \in 1 .. MaxProcess : g[j] = f[j][g[j - 1]]
  <2>1. MaxProcess \in Nat BY Sizes
  <2>. HIDE DEF f, narrow, size
  <2>2. PICK v \in Range2(n) : v = <<0, n>>
    <3>1. 0 \in 0 .. n /\ n \in 0 .. n OBVIOUS
    <3>. QED BY <3>1 DEF Range2
  <2>3. \E g \in [0 .. MaxProcess -> Range2(n)] :
           g[0] = v /\ \A j \in 1 .. MaxProcess : g[j] = f[j][g[j - 1]]
    BY <1>3, <2>1, LoopRuns
  <2>. QED BY <2>2, <2>3
<1>5. g = [k \in 0 .. MaxProcess |-> IF k = 0 THEN <<0, size>> ELSE Narrowed(u, pid, g[k - 1])]
  <2>1. \A j \in 0 .. MaxProcess : j # 0 => j \in 1 .. MaxProcess /\ j - 1 \in 0 .. MaxProcess
    BY Sizes
  <2>. HIDE DEF size
  <2>. QED BY <1>1, <1>4, <2>1
<1>6. narrow = CHOOSE h : h = [k \in 0 .. MaxProcess |->
                                  IF k = 0 THEN <<0, size>> ELSE Narrowed(u, pid, h[k - 1])]
  BY DEF Narrowed, narrow
<1>7. narrow = [k \in 0 .. MaxProcess |-> IF k = 0 THEN <<0, size>>
                                          ELSE Narrowed(u, pid, narrow[k - 1])]
  <2>. HIDE DEF size
  <2>. QED BY <1>5, <1>6
<1>. HIDE DEF narrow, size
<1>8. narrow[0] = <<0, n>> /\ \A k \in 1 .. MaxProcess : narrow[k] = Narrowed(u, pid, narrow[k - 1])
  <2>1. 0 \in 0 .. MaxProcess /\ \A j \in 1 .. MaxProcess : j \in 0 .. MaxProcess /\ j # 0 BY Sizes
  <2>. QED BY <1>1, <1>7, <2>1
<1>9. narrow \in [0 .. MaxProcess -> Range2(n)]
  <2>. DEFINE Good == {j \in 0 .. MaxProcess : narrow[j] \in Range2(n)}
  <2>1. 0 \in Good BY <1>8, Sizes DEF Range2
  <2>2. ASSUME NEW j \in 1 .. MaxProcess, j - 1 \in Good PROVE j \in Good
    <3>1. j \in 0 .. MaxProcess /\ narrow[j - 1] \in Range2(n) BY <2>2, Sizes
    <3>. QED BY <1>8, <3>1, NarrowedStays
  <2>3. Good \in SUBSET (0 .. MaxProcess) /\ MaxProcess \in Nat BY Sizes
  <2>. HIDE DEF Good
  <2>4. Good = 0 .. MaxProcess BY <2>1, <2>2, <2>3, RoundByRound
  <2>. QED BY <1>7, <2>4 DEF Good
<1>10. NarrowIs(u, pid, n, narrow) BY <1>2, <1>8, Zenon DEF NarrowIs
<1>. QED BY <1>9, <1>10

\* Whatever the array holds, the place found is in it.
LEMMA PlaceIsPlace ==
    ASSUME NEW u, NEW pid, NEW n \in Nat, u.indexes \in Array(n)
    PROVE  PlaceOf(u, pid) \in 0 .. n
<1>1. PICK narrow \in [0 .. MaxProcess -> Range2(n)] : NarrowIs(u, pid, n, narrow) BY NarrowLoop
<1>2. Len(u.indexes) = n BY ArrayLength
<1>3. narrow[MaxProcess] \in Range2(n) BY <1>1, Sizes
<1>4. PICK low \in 0 .. n : low = Lowest(u, pid) BY <1>1, <1>3 DEF NarrowIs, Range2
<1>. QED BY <1>2, <1>4 DEF PlaceOf

\* In a sorted array the bisection finds what is there and nothing else.
LEMMA Bisection ==
    ASSUME NEW u, u.pid \in [Slot -> Nat], NEW n \in 0 .. MaxProcess, u.indexes \in Array(n),
           SortedTo(u, u.indexes, n), NEW pid \in Nat
    PROVE  /\ \A k \in 1 .. n : u.pid[u.indexes[k]] = pid => PlaceOf(u, pid) = k
           /\ PlaceOf(u, pid) \in 0 .. n
           /\ PlaceOf(u, pid) # 0 => u.pid[u.indexes[PlaceOf(u, pid)]] = pid
<1>1. n \in Nat OBVIOUS
<1>2. PICK narrow \in [0 .. MaxProcess -> Range2(n)] : NarrowIs(u, pid, n, narrow)
  BY <1>1, NarrowLoop
<1>3. Len(u.indexes) = n /\ u.indexes \in [1 .. n -> Slot] BY <1>1, ArrayLength DEF Array
<1>. DEFINE p == [k \in 1 .. n |-> u.pid[u.indexes[k]]]
            Around(w) == /\ w[1] <= w[2]
                         /\ \A k \in 1 .. w[1] : p[k] < pid
                         /\ \A k \in w[2] + 1 .. n : p[k] >= pid
            Good == {j \in 0 .. MaxProcess : /\ Around(narrow[j])
                                             /\ narrow[j][1] = narrow[j][2]
                                                \/ narrow[j][2] - narrow[j][1] + j <= n}
<1>4. p \in [1 .. n -> Nat]
  <2>1. \A k \in 1 .. n : u.indexes[k] \in Slot BY <1>3
  <2>. QED BY <2>1
<1>5. \A k \in 1 .. n : p[k] = u.pid[u.indexes[k]] OBVIOUS
<1>6. \A a, b \in 1 .. n : a < b => p[a] < p[b] BY <1>5 DEF SortedTo
<1>. HIDE DEF p
<1>7. narrow[0] = <<0, n>>
      /\ \A j \in 1 .. MaxProcess : narrow[j] = Narrowed(u, pid, narrow[j - 1])
  BY <1>2 DEF NarrowIs
<1>8. 0 \in Good BY <1>7, Sizes
<1>9. ASSUME NEW j \in 1 .. MaxProcess, j - 1 \in Good PROVE j \in Good
  <2>1. narrow[j - 1] \in Range2(n) BY Sizes
  <2>2. PICK a \in 0 .. n, b \in 0 .. n : narrow[j - 1] = <<a, b>> BY <2>1 DEF Range2
  <2>3. /\ a <= b /\ (\A k \in 1 .. a : p[k] < pid) /\ (\A k \in b + 1 .. n : p[k] >= pid)
        /\ a = b \/ b - a + (j - 1) <= n
    BY <1>9, <2>2
  <2>4. narrow[j] = Narrowed(u, pid, <<a, b>>) BY <1>7, <2>2
  <2>5. CASE a = b
    <3>1. narrow[j] = <<a, b>> BY <2>4, <2>5 DEF Narrowed
    <3>. QED BY <2>3, <2>5, <3>1
  <2>6. CASE a < b
    <3>1. PICK m \in a .. b - 1 : m = a + (b - a) \div 2 BY <2>6, Middle
    <3>2. m + 1 \in 1 .. n BY <3>1
    <3>3. narrow[j] = IF p[m + 1] < pid THEN <<m + 1, b>> ELSE <<a, m>>
      <4>1. p[m + 1] = u.pid[u.indexes[m + 1]] BY <1>5, <3>2
      <4>2. ~(a >= b) BY <2>6
      <4>. QED BY <2>4, <3>1, <4>1, <4>2 DEF Narrowed
    <3>4. CASE p[m + 1] < pid
      <4>1. \A k \in 1 .. m + 1 : p[k] < pid
        <5>1. TAKE k \in 1 .. m + 1
        <5>2. k = m + 1 \/ p[k] < p[m + 1] BY <1>6, <3>2
        <5>3. p[k] \in Nat /\ p[m + 1] \in Nat BY <1>4, <3>2
        <5>. QED BY <3>4, <5>2, <5>3
      <4>2. narrow[j] = <<m + 1, b>> BY <3>3, <3>4
      <4>3. m + 1 <= b /\ (m + 1 = b \/ b - (m + 1) + j <= n) BY <2>3, <2>6, <3>1
      <4>. QED BY <2>3, <4>1, <4>2, <4>3
    <3>5. CASE ~(p[m + 1] < pid)
      <4>1. \A k \in m + 1 .. n : p[k] >= pid
        <5>1. TAKE k \in m + 1 .. n
        <5>2. k \in 1 .. n BY <3>2
        <5>3. k = m + 1 \/ p[m + 1] < p[k] BY <1>6, <3>2, <5>2
        <5>4. p[k] \in Nat /\ p[m + 1] \in Nat BY <1>4, <3>2, <5>2
        <5>. QED BY <3>5, <5>3, <5>4
      <4>2. narrow[j] = <<a, m>> BY <3>3, <3>5
      <4>3. a <= m /\ (a = m \/ m - a + j <= n) BY <2>3, <2>6, <3>1
      <4>. QED BY <2>3, <4>1, <4>2, <4>3
    <3>. QED BY <3>4, <3>5
  <2>. QED BY <2>3, <2>5, <2>6
<1>10. MaxProcess \in Good
  <2>1. Good \in SUBSET (0 .. MaxProcess) /\ MaxProcess \in Nat /\ MaxProcess \in 0 .. MaxProcess
    BY Sizes
  <2>. HIDE DEF Good
  <2>2. Good = 0 .. MaxProcess BY <1>8, <1>9, <2>1, RoundByRound
  <2>. QED BY <2>1, <2>2
<1>11. PICK a \in 0 .. n, b \in 0 .. n : narrow[MaxProcess] = <<a, b>>
  <2>1. narrow[MaxProcess] \in Range2(n) BY Sizes
  <2>. QED BY <2>1 DEF Range2
<1>12. Lowest(u, pid) = a BY <1>2, <1>11 DEF NarrowIs
<1>13. /\ a <= b /\ (\A k \in 1 .. a : p[k] < pid) /\ (\A k \in b + 1 .. n : p[k] >= pid)
       /\ a = b \/ b - a + MaxProcess <= n
  BY <1>10, <1>11
<1>14. a = b BY <1>13, Sizes
<1>15. PlaceOf(u, pid) = IF a < n /\ p[a + 1] = pid THEN a + 1 ELSE 0
  <2>1. a < n => a + 1 \in 1 .. n OBVIOUS
  <2>. QED BY <1>3, <1>5, <1>12, <2>1 DEF PlaceOf
<1>16. ASSUME NEW k \in 1 .. n, p[k] = pid PROVE PlaceOf(u, pid) = k
  <2>1. k > a BY <1>13, <1>16
  <2>2. p[a + 1] >= pid /\ a + 1 \in 1 .. n BY <1>13, <1>14, <2>1
  <2>3. k = a + 1 \/ p[a + 1] < p[k] BY <1>6, <2>1, <2>2
  <2>4. p[a + 1] \in Nat BY <1>4, <2>2
  <2>5. k = a + 1 BY <1>16, <2>2, <2>3, <2>4
  <2>. QED BY <1>15, <1>16, <2>5
<1>. QED BY <1>5, <1>15, <1>16

-----------------------------------------------------------------------------
(* The table.                                                              *)

Table == [pid : [Slot -> Nat], priority : [Slot -> Priority], status : [Slot -> Status],
          nextInPriority : [Slot -> SlotOrNull], waitingTicks : [Slot -> Nat],
          indexes : Seq(Slot), currentProcess : SlotOrNull,
          waitingList : Seq(Slot), freeList : Seq(Slot),
          priorities : [Priority -> SlotOrNull], stuck : BOOLEAN]

NoTwice(q) == \A a, b \in 1 .. Len(q) : q[a] = q[b] => a = b
In(q, s) == \E a \in 1 .. Len(q) : q[a] = s

\* The array holds the slots in use in the order of their pids, the stack
\* those that are free; a dead process that is still there is the current one.
ArrayKept(u) == /\ SortedTo(u, u.indexes, Len(u.indexes))
                /\ \A s \in Slot : In(u.indexes, s) <=> u.status[s] \notin {"FREE", "DEAD"}
StackKept(u) == /\ NoTwice(u.freeList)
                /\ \A s \in Slot : In(u.freeList, s) <=> u.status[s] = "FREE"
DeadKept(u) == \A s \in Slot : u.status[s] = "DEAD" => s = u.currentProcess
Kept(u) == ArrayKept(u) /\ StackKept(u) /\ DeadKept(u)

LEMMA SlotsAreFinite == IsFiniteSet(Slot) /\ Cardinality(Slot) = MaxProcess /\ NULL \notin Slot
<1>1. IsFiniteSet(1 .. MaxProcess)
      /\ Cardinality(1 .. MaxProcess) = IF 1 > MaxProcess THEN 0 ELSE MaxProcess - 1 + 1
  BY FS_Interval, Sizes
<1>. QED BY <1>1, Sizes DEF Slot, NULL

LEMMA ListSize ==
    ASSUME NEW q \in Seq(Slot), NoTwice(q)
    PROVE  /\ IsFiniteSet({s \in Slot : In(q, s)})
           /\ Cardinality({s \in Slot : In(q, s)}) = Len(q)
           /\ Len(q) \in 0 .. MaxProcess
<1>. DEFINE T == {s \in Slot : In(q, s)}
<1>1. PICK n \in Nat : n = Len(q) /\ q \in [1 .. n -> Slot] OBVIOUS
<1>2. IsFiniteSet(1 .. n) /\ Cardinality(1 .. n) = n
  <2>1. IsFiniteSet(1 .. n) /\ Cardinality(1 .. n) = IF 1 > n THEN 0 ELSE n - 1 + 1
    BY FS_Interval
  <2>. QED BY <2>1
<1>3. q \in Bijection(1 .. n, T)
  <2>1. \A a \in 1 .. n : q[a] \in T BY <1>1 DEF In
  <2>2. q \in [1 .. n -> T]
    <3>1. q = [a \in 1 .. n |-> q[a]] BY <1>1
    <3>. HIDE DEF T
    <3>. QED BY <2>1, <3>1
  <2>3. \A s \in T : \E a \in 1 .. n : q[a] = s BY <1>1 DEF In
  <2>4. \A a, b \in 1 .. n : q[a] = q[b] => a = b BY <1>1 DEF NoTwice
  <2>. HIDE DEF T
  <2>5. DOMAIN q = 1 .. n BY <2>2
  <2>. QED BY <2>2, <2>3, <2>4, <2>5 DEF Bijection, Injection, Surjection, IsInjective
<1>4. IsFiniteSet(T) /\ Cardinality(T) = n
  <2>1. ExistsBijection(1 .. n, T) BY <1>3 DEF ExistsBijection
  <2>. HIDE DEF T
  <2>. QED BY <1>2, <2>1, FS_Bijection
<1>5. Cardinality(T) <= MaxProcess
  <2>1. T \in SUBSET Slot OBVIOUS
  <2>. HIDE DEF T
  <2>. QED BY <2>1, FS_Subset, SlotsAreFinite
<1>. QED BY <1>1, <1>4, <1>5, Sizes

LEMMA SortedNoTwice ==
    ASSUME NEW u \in Table, SortedTo(u, u.indexes, Len(u.indexes))
    PROVE  /\ NoTwice(u.indexes) /\ OneEach(u, u.indexes, Len(u.indexes))
           /\ Len(u.indexes) \in 0 .. MaxProcess /\ u.indexes \in Array(Len(u.indexes))
<1>1. PICK q \in Seq(Slot) : q = u.indexes BY DEF Table
<1>2. PICK n \in Nat : n = Len(q) /\ q \in [1 .. n -> Slot] OBVIOUS
<1>3. OneEach(u, q, n)
  <2>1. SUFFICES ASSUME NEW a \in 1 .. n, NEW b \in 1 .. n, u.pid[q[a]] = u.pid[q[b]]
                 PROVE  a = b
    BY DEF OneEach
  <2>2. u.pid[q[a]] \in Nat /\ u.pid[q[b]] \in Nat
    <3>1. q[a] \in Slot /\ q[b] \in Slot BY <1>2
    <3>. QED BY <3>1 DEF Table
  <2>3. a < b => u.pid[q[a]] < u.pid[q[b]] BY <1>1, <1>2 DEF SortedTo
  <2>4. b < a => u.pid[q[b]] < u.pid[q[a]] BY <1>1, <1>2 DEF SortedTo
  <2>. QED BY <2>1, <2>2, <2>3, <2>4
<1>4. NoTwice(q) BY <1>2, <1>3 DEF OneEach, NoTwice
<1>. QED BY <1>1, <1>2, <1>3, <1>4, ListSize DEF Array

\* getByPid finds every process in its slot, and nothing but processes.
LEMMA GetByPidFinds ==
    ASSUME NEW u \in Table, ArrayKept(u)
    PROVE  /\ \A s \in Slot : u.status[s] \notin {"FREE", "DEAD"} => getByPid(u, u.pid[s]) = s
           /\ \A pid \in Nat : LET s == getByPid(u, pid) IN
                 s # NULL => /\ s \in Slot /\ u.pid[s] = pid
                             /\ u.status[s] \notin {"FREE", "DEAD"}
                             /\ PlaceOf(u, pid) \in 1 .. Len(u.indexes)
                             /\ u.indexes[PlaceOf(u, pid)] = s
<1>1. PICK n \in 0 .. MaxProcess : /\ n = Len(u.indexes) /\ u.indexes \in Array(n)
                                   /\ SortedTo(u, u.indexes, n)
  BY SortedNoTwice DEF ArrayKept
<1>2. u.pid \in [Slot -> Nat] /\ u.indexes \in [1 .. n -> Slot] BY <1>1 DEF Table, Array
<1>3. \A pid \in Nat :
         /\ \A k \in 1 .. n : u.pid[u.indexes[k]] = pid => PlaceOf(u, pid) = k
         /\ PlaceOf(u, pid) \in 0 .. n
         /\ PlaceOf(u, pid) # 0 => u.pid[u.indexes[PlaceOf(u, pid)]] = pid
  BY <1>1, <1>2, Bisection
<1>4. ASSUME NEW s \in Slot, u.status[s] \notin {"FREE", "DEAD"} PROVE getByPid(u, u.pid[s]) = s
  <2>1. PICK k \in 1 .. n : u.indexes[k] = s BY <1>1, <1>4 DEF ArrayKept, In
  <2>2. u.pid[s] \in Nat BY <1>2
  <2>3. PlaceOf(u, u.pid[s]) = k BY <1>3, <2>1, <2>2
  <2>. QED BY <2>1, <2>3 DEF getByPid
<1>5. ASSUME NEW pid \in Nat, getByPid(u, pid) # NULL
      PROVE  /\ getByPid(u, pid) \in Slot /\ u.pid[getByPid(u, pid)] = pid
             /\ u.status[getByPid(u, pid)] \notin {"FREE", "DEAD"}
             /\ PlaceOf(u, pid) \in 1 .. Len(u.indexes)
             /\ u.indexes[PlaceOf(u, pid)] = getByPid(u, pid)
  <2>1. PICK k \in 0 .. n : k = PlaceOf(u, pid) BY <1>3
  <2>2. k # 0 BY <1>5, <2>1 DEF getByPid
  <2>3. getByPid(u, pid) = u.indexes[k] BY <2>1, <2>2 DEF getByPid
  <2>4. k \in 1 .. n /\ u.indexes[k] \in Slot BY <1>2, <2>2
  <2>5. u.pid[u.indexes[k]] = pid BY <1>3, <2>1, <2>2
  <2>6. In(u.indexes, u.indexes[k]) BY <1>1, <2>4 DEF In
  <2>. QED BY <1>1, <2>1, <2>3, <2>4, <2>5, <2>6 DEF ArrayKept
<1>. QED BY <1>4, <1>5

-----------------------------------------------------------------------------
(* The rings.                                                              *)

\* Only the rings differ, or the program is stuck.
RingOnly(u, v) ==
    /\ v \in Table
    /\ v.pid = u.pid /\ v.priority = u.priority /\ v.status = u.status
    /\ v.waitingTicks = u.waitingTicks /\ v.waitingList = u.waitingList
    /\ v.indexes = u.indexes /\ v.freeList = u.freeList /\ v.currentProcess = u.currentProcess

LEMMA StuckRingOnly ==
    ASSUME NEW u \in Table
    PROVE  RingOnly(u, Stuck(u))
BY DEF Stuck, RingOnly, Table

LEMMA RingsReplaced ==
    ASSUME NEW u \in Table, NEW next \in [Slot -> SlotOrNull], NEW rings \in [Priority -> SlotOrNull]
    PROVE  /\ RingOnly(u, [u EXCEPT !.nextInPriority = next])
           /\ RingOnly(u, [u EXCEPT !.priorities = rings])
BY DEF RingOnly, Table

LEMMA AddRingOnly ==
    ASSUME NEW u \in Table, NEW slot \in Slot
    PROVE  RingOnly(u, addToReadyList(u, slot))
<1>1. PICK p \in Priority : p = u.priority[slot] BY DEF Table
<1>2. PICK first \in SlotOrNull : first = u.priorities[p] BY <1>1 DEF Table
<1>3. CASE first = NULL
  <2>1. PICK w \in [Slot -> SlotOrNull], r \in [Priority -> SlotOrNull] :
           w = [u.nextInPriority EXCEPT ![slot] = slot] /\ r = [u.priorities EXCEPT ![p] = slot]
    BY DEF Table, SlotOrNull
  <2>2. addToReadyList(u, slot) = [u EXCEPT !.nextInPriority = w, !.priorities = r]
    BY <1>1, <1>2, <1>3, <2>1 DEF addToReadyList, Table
  <2>3. RingOnly(u, [u EXCEPT !.nextInPriority = w, !.priorities = r])
    BY DEF RingOnly, Table
  <2>. QED BY <2>2, <2>3, Zenon
<1>4. CASE first # NULL
  <2>1. first \in Slot /\ u.nextInPriority[first] \in SlotOrNull
    BY <1>2, <1>4 DEF SlotOrNull, Table
  <2>2. PICK w \in [Slot -> SlotOrNull] :
           w = [[u.nextInPriority EXCEPT ![slot] = u.nextInPriority[first]] EXCEPT ![first] = slot]
    BY <2>1 DEF Table, SlotOrNull
  <2>3. addToReadyList(u, slot) = [u EXCEPT !.nextInPriority = w]
    BY <1>1, <1>2, <1>4, <2>2 DEF addToReadyList, Table
  <2>4. u.priorities \in [Priority -> SlotOrNull] BY DEF Table
  <2>. QED BY <2>3, <2>4, RingsReplaced
<1>. QED BY <1>3, <1>4

WalkIs(u, p, at) ==
    /\ Walk(u, p) = at
    /\ at[0] = u.priorities[p]
    /\ \A n \in 1 .. MaxProcess :
          at[n] = IF at[n - 1] = NULL THEN NULL ELSE u.nextInPriority[at[n - 1]]

LEMMA WalkLoop ==
    ASSUME NEW u \in Table, NEW p \in Priority
    PROVE  \E at \in [0 .. MaxProcess -> SlotOrNull] : WalkIs(u, p, at)
<1>. DEFINE at[n \in 0 .. MaxProcess] ==
                IF n = 0 THEN u.priorities[p]
                ELSE LET s == at[n - 1] IN IF s = NULL THEN NULL ELSE u.nextInPriority[s]
            f == [j \in 1 .. MaxProcess |->
                     [s \in SlotOrNull |-> IF s = NULL THEN NULL ELSE u.nextInPriority[s]]]
<1>1. Walk(u, p) = at BY Zenon DEF Walk
<1>2. \A s \in SlotOrNull : s # NULL => u.nextInPriority[s] \in SlotOrNull
  BY DEF SlotOrNull, Table
<1>3. NULL \in SlotOrNull /\ u.priorities[p] \in SlotOrNull /\ MaxProcess \in Nat
  BY Sizes DEF SlotOrNull, Table
<1>4. f \in [1 .. MaxProcess -> [SlotOrNull -> SlotOrNull]] BY <1>2, <1>3
<1>5. PICK g \in [0 .. MaxProcess -> SlotOrNull] :
         g[0] = u.priorities[p] /\ \A j \in 1 .. MaxProcess : g[j] = f[j][g[j - 1]]
  <2>1. PICK v \in SlotOrNull : v = u.priorities[p] BY <1>3
  <2>. HIDE DEF f, at
  <2>2. \E g \in [0 .. MaxProcess -> SlotOrNull] :
           g[0] = v /\ \A j \in 1 .. MaxProcess : g[j] = f[j][g[j - 1]]
    BY <1>3, <1>4, LoopRuns, SMTT(30)
  <2>. QED BY <2>1, <2>2
<1>6. g = [n \in 0 .. MaxProcess |-> IF n = 0 THEN u.priorities[p]
                                     ELSE IF g[n - 1] = NULL THEN NULL
                                     ELSE u.nextInPriority[g[n - 1]]]
  <2>1. \A j \in 0 .. MaxProcess : j # 0 => j \in 1 .. MaxProcess /\ j - 1 \in 0 .. MaxProcess
    BY Sizes
  <2>. QED BY <1>5, <2>1
<1>7. at = [n \in 0 .. MaxProcess |-> IF n = 0 THEN u.priorities[p]
                                      ELSE IF at[n - 1] = NULL THEN NULL
                                      ELSE u.nextInPriority[at[n - 1]]]
  BY <1>6
<1>. HIDE DEF at
<1>8. at[0] = u.priorities[p]
      /\ \A n \in 1 .. MaxProcess :
            at[n] = IF at[n - 1] = NULL THEN NULL ELSE u.nextInPriority[at[n - 1]]
  <2>1. 0 \in 0 .. MaxProcess /\ \A j \in 1 .. MaxProcess : j \in 0 .. MaxProcess /\ j # 0 BY Sizes
  <2>. QED BY <1>7, <2>1
<1>9. at \in [0 .. MaxProcess -> SlotOrNull]
  <2>. DEFINE Good == {j \in 0 .. MaxProcess : at[j] \in SlotOrNull}
  <2>1. 0 \in Good BY <1>3, <1>8
  <2>2. ASSUME NEW j \in 1 .. MaxProcess, j - 1 \in Good PROVE j \in Good
    <3>1. j \in 0 .. MaxProcess /\ at[j - 1] \in SlotOrNull BY <2>2, Sizes
    <3>. QED BY <1>2, <1>3, <1>8, <3>1
  <2>3. Good \in SUBSET (0 .. MaxProcess) OBVIOUS
  <2>. HIDE DEF Good
  <2>4. Good = 0 .. MaxProcess BY <1>3, <2>1, <2>2, <2>3, RoundByRound
  <2>. QED BY <1>7, <2>4 DEF Good
<1>10. WalkIs(u, p, at) BY <1>1, <1>8, Zenon DEF WalkIs
<1>. QED BY <1>9, <1>10

LEMMA RemoveRingOnly ==
    ASSUME NEW u \in Table, NEW slot \in Slot
    PROVE  RingOnly(u, removeFromReadyList(u, slot))
<1>1. PICK p \in Priority : p = u.priority[slot] BY DEF Table
<1>2. PICK next \in SlotOrNull : next = u.nextInPriority[slot] BY DEF Table
<1>3. CASE next = slot
  <2>1. removeFromReadyList(u, slot)
           = [u EXCEPT !.priorities = [u.priorities EXCEPT ![p] = NULL]]
    BY <1>1, <1>2, <1>3 DEF removeFromReadyList
  <2>2. [u.priorities EXCEPT ![p] = NULL] \in [Priority -> SlotOrNull] BY DEF Table, SlotOrNull
  <2>3. u.nextInPriority \in [Slot -> SlotOrNull] BY DEF Table
  <2>. QED BY <2>1, <2>2, <2>3, RingsReplaced
<1>4. CASE next # slot /\ getPrevReadySlot(u, slot) = {}
  <2>1. removeFromReadyList(u, slot) = Stuck(u) BY <1>2, <1>4 DEF removeFromReadyList
  <2>. QED BY <2>1, StuckRingOnly
<1>5. CASE next # slot /\ getPrevReadySlot(u, slot) # {}
  <2>1. PICK prev : /\ prev = CHOOSE s \in getPrevReadySlot(u, slot) : TRUE
                    /\ prev \in getPrevReadySlot(u, slot)
    BY <1>5
  <2>2. PICK at \in [0 .. MaxProcess -> SlotOrNull] : WalkIs(u, p, at) BY WalkLoop
  <2>3. PICK k \in 0 .. MaxProcess - 1 : prev = at[k] /\ at[k] # NULL
    BY <1>1, <2>1, <2>2, Zenon DEF getPrevReadySlot, WalkIs
  <2>4. prev \in Slot BY <2>3, Sizes DEF SlotOrNull
  <2>5. PICK first \in SlotOrNull : first = IF u.priorities[p] = slot THEN next ELSE u.priorities[p]
    BY DEF Table
  <2>6. PICK w \in [Slot -> SlotOrNull], r \in [Priority -> SlotOrNull] :
           w = [u.nextInPriority EXCEPT ![prev] = next] /\ r = [u.priorities EXCEPT ![p] = first]
    BY <2>4 DEF Table
  <2>7. removeFromReadyList(u, slot) = [u EXCEPT !.nextInPriority = w, !.priorities = r]
    BY <1>1, <1>2, <1>5, <2>1, <2>5, <2>6 DEF removeFromReadyList
  <2>8. RingOnly(u, [u EXCEPT !.nextInPriority = w, !.priorities = r])
    BY DEF RingOnly, Table
  <2>. QED BY <2>7, <2>8, Zenon
<1>. QED BY <1>3, <1>4, <1>5

-----------------------------------------------------------------------------
(* What each function leaves of the table.                                 *)

\* The array, the stack, the sleepers and the current process are the same.
Calm(u, v) ==
    /\ v.pid = u.pid /\ v.waitingTicks = u.waitingTicks /\ v.waitingList = u.waitingList
    /\ v.indexes = u.indexes /\ v.freeList = u.freeList /\ v.currentProcess = u.currentProcess

InUse(u, s) == u.status[s] \notin {"FREE", "DEAD"}

LEMMA StatusStrings ==
    /\ Status = {"WAITING", "BLOCKED", "READY", "RUNNING", "DEAD", "FREE"}
    /\ {"READY", "RUNNING", "WAITING", "BLOCKED"} \cap {"FREE", "DEAD"} = {}
    /\ "FREE" # "DEAD"
BY DEF Status

LEMMA CalmKept ==
    ASSUME NEW u \in Table, NEW v \in Table, Kept(u), Calm(u, v),
           \A s \in Slot : v.status[s] = u.status[s] \/ (InUse(u, s) /\ InUse(v, s))
    PROVE  Kept(v)
<1>1. v.indexes = u.indexes /\ v.pid = u.pid /\ v.freeList = u.freeList
      /\ v.currentProcess = u.currentProcess
  BY DEF Calm
<1>2. \A s \in Slot : /\ v.status[s] \notin {"FREE", "DEAD"} <=> u.status[s] \notin {"FREE", "DEAD"}
                      /\ v.status[s] = "FREE" <=> u.status[s] = "FREE"
                      /\ v.status[s] = "DEAD" <=> u.status[s] = "DEAD"
  BY DEF InUse
<1>3. ArrayKept(v) BY <1>1, <1>2, Zenon DEF Kept, ArrayKept, SortedTo
<1>4. StackKept(v) BY <1>1, <1>2, Zenon DEF Kept, StackKept
<1>5. DeadKept(v) BY <1>1, <1>2, Zenon DEF Kept, DeadKept
<1>. QED BY <1>3, <1>4, <1>5 DEF Kept

LEMMA RingOnlyCalm ==
    ASSUME NEW u \in Table, NEW v, RingOnly(u, v)
    PROVE  v \in Table /\ Calm(u, v) /\ v.status = u.status
BY DEF RingOnly, Calm

LEMMA GetByPidTyped ==
    ASSUME NEW u \in Table, NEW pid
    PROVE  getByPid(u, pid) \in SlotOrNull
<1>1. PICK n \in Nat : n = Len(u.indexes) /\ u.indexes \in [1 .. n -> Slot] BY DEF Table
<1>2. PICK k \in 0 .. n : k = PlaceOf(u, pid) BY <1>1, PlaceIsPlace DEF Array
<1>. QED BY <1>1, <1>2 DEF getByPid, SlotOrNull

LEMMA ContinueTyped ==
    ASSUME NEW u \in Table, NEW pid
    PROVE  LET v == schedContinue(u, pid) IN
              /\ v \in Table /\ Calm(u, v)
              /\ \A s \in Slot : v.status[s] = IF s = getByPid(u, pid) THEN "READY" ELSE u.status[s]
<1>1. PICK slot \in SlotOrNull : slot = getByPid(u, pid) BY GetByPidTyped
<1>2. CASE slot = NULL
  <2>1. schedContinue(u, pid) = Stuck(u) BY <1>1, <1>2, Zenon DEF schedContinue
  <2>2. RingOnly(u, Stuck(u)) BY StuckRingOnly
  <2>3. slot \notin Slot BY <1>2, SlotsAreFinite
  <2>. QED BY <1>1, <2>1, <2>2, <2>3, RingOnlyCalm
<1>3. CASE slot # NULL
  <2>1. slot \in Slot BY <1>3 DEF SlotOrNull
  <2>2. PICK f \in [Slot -> Status] : f = [u.status EXCEPT ![slot] = "READY"]
    BY DEF Table, Status
  <2>3. PICK w : w = [u EXCEPT !.status = f] OBVIOUS
  <2>4. w \in Table /\ Calm(u, w) /\ w.status = f BY <2>3 DEF Table, Calm
  <2>5. schedContinue(u, pid) = addToReadyList(w, slot)
    BY <1>1, <1>3, <2>2, <2>3, Zenon DEF schedContinue
  <2>6. RingOnly(w, addToReadyList(w, slot)) BY <2>1, <2>4, AddRingOnly
  <2>7. \A s \in Slot : f[s] = IF s = slot THEN "READY" ELSE u.status[s]
    BY <2>1, <2>2 DEF Table
  <2>. QED BY <1>1, <2>4, <2>5, <2>6, <2>7 DEF RingOnly, Calm
<1>. QED BY <1>2, <1>3

\* schedContinue: the process found is ready.
LEMMA ContinueKeeps ==
    ASSUME NEW u \in Table, Kept(u), NEW pid \in Nat
    PROVE  LET v == schedContinue(u, pid) IN
              /\ v \in Table /\ Kept(v) /\ Calm(u, v)
              /\ \A s \in Slot : v.status[s] = IF s = getByPid(u, pid) THEN "READY" ELSE u.status[s]
<1>1. PICK v : v = schedContinue(u, pid) OBVIOUS
<1>2. /\ v \in Table /\ Calm(u, v)
      /\ \A s \in Slot : v.status[s] = IF s = getByPid(u, pid) THEN "READY" ELSE u.status[s]
  BY <1>1, ContinueTyped
<1>3. \A s \in Slot : s = getByPid(u, pid) => InUse(u, s)
  <2>1. ArrayKept(u) BY DEF Kept
  <2>. QED BY <2>1, GetByPidFinds, SlotsAreFinite DEF InUse
<1>4. \A s \in Slot : v.status[s] = u.status[s] \/ (InUse(u, s) /\ InUse(v, s))
  BY <1>2, <1>3 DEF InUse
<1>5. Kept(v) BY <1>2, <1>4, CalmKept
<1>. QED BY <1>1, <1>2, <1>5

\* A process that stays in use may be given any status of one.
LEMMA Marked ==
    ASSUME NEW u \in Table, Kept(u), NEW slot \in Slot, InUse(u, slot),
           NEW status \in {"WAITING", "BLOCKED", "READY", "RUNNING"}
    PROVE  LET v == [u EXCEPT !.status[slot] = status] IN
              /\ v \in Table /\ Kept(v) /\ Calm(u, v)
              /\ \A s \in Slot : v.status[s] = IF s = slot THEN status ELSE u.status[s]
<1>1. PICK f \in [Slot -> Status] : f = [u.status EXCEPT ![slot] = status]
  BY DEF Table, Status
<1>2. PICK v : v = [u EXCEPT !.status = f] OBVIOUS
<1>3. v \in Table /\ Calm(u, v) /\ v.status = f BY <1>2 DEF Table, Calm
<1>4. \A s \in Slot : f[s] = IF s = slot THEN status ELSE u.status[s] BY <1>1 DEF Table
<1>5. \A s \in Slot : v.status[s] = u.status[s] \/ (InUse(u, s) /\ InUse(v, s))
  BY <1>3, <1>4 DEF InUse
<1>6. Kept(v) BY <1>3, <1>5, CalmKept
<1>7. [u EXCEPT !.status[slot] = status] = v BY <1>1, <1>2
<1>. QED BY <1>3, <1>4, <1>6, <1>7

LEMMA BlockKeeps ==
    ASSUME NEW u \in Table, Kept(u), NEW pid \in Nat
    PROVE  LET v == schedBlock(u, pid) IN v \in Table /\ Kept(v) /\ Calm(u, v)
<1>1. PICK slot \in SlotOrNull : slot = getByPid(u, pid) BY GetByPidTyped
<1>2. CASE slot = NULL \/ u.status[slot] \notin {"READY", "RUNNING"}
  <2>1. schedBlock(u, pid) = u BY <1>1, <1>2, Zenon DEF schedBlock
  <2>. QED BY <2>1 DEF Calm
<1>3. CASE ~(slot = NULL \/ u.status[slot] \notin {"READY", "RUNNING"})
  <2>1. slot \in Slot BY <1>3 DEF SlotOrNull
  <2>2. PICK w : w = removeFromReadyList(u, slot) OBVIOUS
  <2>3. w \in Table /\ Calm(u, w) /\ w.status = u.status BY <2>1, <2>2, RemoveRingOnly, RingOnlyCalm
  <2>4. Kept(w) BY <2>3, CalmKept
  <2>5. InUse(w, slot) BY <1>3, <2>3 DEF InUse
  <2>6. PICK v : v = [w EXCEPT !.status[slot] = "BLOCKED"] OBVIOUS
  <2>7. v \in Table /\ Kept(v) /\ Calm(w, v) BY <2>1, <2>3, <2>4, <2>5, <2>6, Marked
  <2>8. schedBlock(u, pid) = v BY <1>1, <1>3, <2>2, <2>6, Zenon DEF schedBlock
  <2>. QED BY <2>3, <2>7, <2>8 DEF Calm
<1>. QED BY <1>2, <1>3

LEMMA ChangeStatusKeeps ==
    ASSUME NEW u \in Table, Kept(u), NEW pid \in Nat, NEW status
    PROVE  LET v == schedChangeStatus(u, pid, status) IN v \in Table /\ Kept(v) /\ Calm(u, v)
<1>1. PICK v : v = schedChangeStatus(u, pid, status) OBVIOUS
<1>2. v = u \/ v = schedBlock(u, pid) \/ v = schedContinue(u, pid)
  BY <1>1, Zenon DEF schedChangeStatus
<1>3. CASE v = u BY <1>1, <1>3 DEF Calm
<1>4. CASE v = schedBlock(u, pid) BY <1>1, <1>4, BlockKeeps
<1>5. CASE v = schedContinue(u, pid)
  <2>1. v \in Table /\ Kept(v) /\ Calm(u, v) BY <1>5, ContinueKeeps
  <2>. QED BY <1>1, <2>1
<1>. QED BY <1>2, <1>3, <1>4, <1>5

LEMMA SetPriorityKeeps ==
    ASSUME NEW u \in Table, Kept(u), NEW pid, NEW priority \in Priority
    PROVE  LET v == schedSetPriority(u, pid, priority) IN
              v \in Table /\ Kept(v) /\ Calm(u, v) /\ v.status = u.status
<1>1. PICK slot \in SlotOrNull : slot = getByPid(u, pid) BY GetByPidTyped
<1>2. CASE slot = NULL
  <2>1. schedSetPriority(u, pid, priority) = u BY <1>1, <1>2, Zenon DEF schedSetPriority
  <2>. QED BY <2>1 DEF Calm
<1>3. CASE slot # NULL
  <2>1. slot \in Slot BY <1>3 DEF SlotOrNull
  <2>2. PICK v : v = removeFromReadyList(u, slot) OBVIOUS
  <2>3. v \in Table /\ Calm(u, v) /\ v.status = u.status BY <2>1, <2>2, RemoveRingOnly, RingOnlyCalm
  <2>4. PICK f \in [Slot -> Priority] : f = [v.priority EXCEPT ![slot] = priority]
    BY <2>1, <2>3 DEF Table
  <2>5. PICK w : w = [v EXCEPT !.priority = f] OBVIOUS
  <2>6. w \in Table /\ Calm(v, w) /\ w.status = v.status BY <2>3, <2>5 DEF Table, Calm
  <2>7. PICK x : x = schedSetPriority(u, pid, priority) OBVIOUS
  <2>8. x = addToReadyList(w, slot) \/ x = w
    BY <1>1, <1>3, <2>2, <2>4, <2>5, <2>7, Zenon DEF schedSetPriority
  <2>9. x \in Table /\ Calm(w, x) /\ x.status = w.status
    <3>1. RingOnly(w, addToReadyList(w, slot)) BY <2>1, <2>6, AddRingOnly
    <3>. QED BY <2>6, <2>8, <3>1, RingOnlyCalm DEF Calm
  <2>10. Calm(u, x) /\ x.status = u.status BY <2>3, <2>6, <2>9 DEF Calm
  <2>11. Kept(x) BY <2>9, <2>10, CalmKept
  <2>. QED BY <2>7, <2>9, <2>10, <2>11
<1>. QED BY <1>2, <1>3

\* The sleepers and their times are the same.
SameSleepers(u, v) == v.waitingList = u.waitingList /\ v.waitingTicks = u.waitingTicks
SameLinks(u, v) ==
    /\ v.priority = u.priority /\ v.stuck = u.stuck
    /\ v.nextInPriority = u.nextInPriority /\ v.priorities = u.priorities

\* No slot is in use that was not, and those that are have the pids they had.
Holders(u, v) == \A s \in Slot : InUse(v, s) => InUse(u, s) /\ v.pid[s] = u.pid[s]

LEMMA CalmHolders ==
    ASSUME NEW u, NEW v, Kept(u), Kept(v), Calm(u, v)
    PROVE  Holders(u, v)
<1>1. v.indexes = u.indexes /\ v.pid = u.pid BY DEF Calm
<1>2. \A s \in Slot : InUse(v, s) <=> In(v.indexes, s) BY DEF Kept, ArrayKept, InUse
<1>3. \A s \in Slot : InUse(u, s) <=> In(u.indexes, s) BY DEF Kept, ArrayKept, InUse
<1>. QED BY <1>1, <1>2, <1>3, Zenon DEF Holders

LEMMA HoldersTwice ==
    ASSUME NEW u, NEW v, NEW w, Holders(u, v), Holders(v, w)
    PROVE  Holders(u, w)
BY DEF Holders

\* A slot more on top of the stack.
LEMMA Pushed ==
    ASSUME NEW q \in Seq(Slot), NEW slot \in Slot, NEW l, l = <<slot>> \o q
    PROVE  /\ l \in Seq(Slot)
           /\ \A s \in Slot : In(l, s) <=> s = slot \/ In(q, s)
           /\ NoTwice(q) /\ ~In(q, slot) => NoTwice(l)
<1>1. l \in Seq(Slot)
  <2>1. <<slot>> \in Seq(Slot) OBVIOUS
  <2>2. <<slot>> \o q \in Seq(Slot) BY <2>1
  <2>. QED BY <2>2
<1>2. PICK n \in Nat : n = Len(q) OBVIOUS
<1>3. Len(l) = n + 1 /\ l[1] = slot /\ \A a \in 1 .. n : l[a + 1] = q[a]
  BY <1>2
<1>4. \A a \in 1 .. n : q[a] \in Slot BY <1>2
<1>5. ASSUME NEW s \in Slot PROVE In(l, s) <=> s = slot \/ In(q, s)
  <2>1. ASSUME s = slot PROVE In(l, s)
    <3>1. 1 \in 1 .. n + 1 OBVIOUS
    <3>. QED BY <1>3, <2>1, <3>1 DEF In
  <2>2. ASSUME In(q, s) PROVE In(l, s)
    <3>1. PICK a \in 1 .. n : q[a] = s BY <1>2, <2>2 DEF In
    <3>2. a + 1 \in 1 .. n + 1 /\ l[a + 1] = s BY <1>3, <3>1
    <3>. QED BY <1>3, <3>2 DEF In
  <2>3. ASSUME In(l, s), s # slot PROVE In(q, s)
    <3>1. PICK b \in 1 .. n + 1 : l[b] = s BY <1>3, <2>3 DEF In
    <3>2. b # 1 BY <1>3, <2>3, <3>1
    <3>3. b - 1 \in 1 .. n /\ (b - 1) + 1 = b BY <3>2
    <3>4. q[b - 1] = s BY <1>3, <3>1, <3>3
    <3>. QED BY <1>2, <3>3, <3>4 DEF In
  <2>. QED BY <2>1, <2>2, <2>3
<1>6. ASSUME NoTwice(q), ~In(q, slot) PROVE NoTwice(l)
  <2>1. SUFFICES ASSUME NEW a \in 1 .. n + 1, NEW b \in 1 .. n + 1, l[a] = l[b] PROVE a = b
    BY <1>3 DEF NoTwice
  <2>2. \A c \in 1 .. n + 1 : c # 1 => c - 1 \in 1 .. n /\ l[c] = q[c - 1] /\ l[c] # slot
    <3>1. TAKE c \in 1 .. n + 1
    <3>2. HAVE c # 1
    <3>3. c - 1 \in 1 .. n /\ (c - 1) + 1 = c BY <3>2
    <3>4. l[c] = q[c - 1] BY <1>3, <3>3
    <3>5. q[c - 1] # slot BY <1>2, <1>6, <3>3 DEF In
    <3>. QED BY <3>3, <3>4, <3>5
  <2>3. \A c, d \in 1 .. n : q[c] = q[d] => c = d BY <1>2, <1>6 DEF NoTwice
  <2>4. a = 1 <=> b = 1 BY <1>3, <2>1, <2>2
  <2>5. a # 1 /\ b # 1 => a - 1 = b - 1 BY <2>1, <2>2, <2>3
  <2>. QED BY <2>4, <2>5
<1>. QED BY <1>1, <1>5, <1>6

\* addToFreeSlots: the stack takes a slot that has just become free.
LEMMA FreedKeeps ==
    ASSUME NEW u \in Table, ArrayKept(u), DeadKept(u), NEW slot \in Slot, u.status[slot] = "FREE",
           NoTwice(u.freeList),
           \A s \in Slot : In(u.freeList, s) <=> u.status[s] = "FREE" /\ s # slot
    PROVE  LET v == addToFreeSlots(u, slot) IN
              /\ v \in Table /\ Kept(v) /\ SameSleepers(u, v) /\ Holders(u, v)
              /\ v.status = u.status /\ v.currentProcess = u.currentProcess
<1>1. PICK f \in [Slot -> Nat], p \in [Slot -> Priority], r \in [Slot -> SlotOrNull] :
         /\ f = [u.pid EXCEPT ![slot] = 0] /\ p = [u.priority EXCEPT ![slot] = 0]
         /\ r = [u.nextInPriority EXCEPT ![slot] = NULL]
  BY Sizes DEF Table, SlotOrNull
<1>2. PICK q \in Seq(Slot) : q = u.freeList BY DEF Table
<1>3. PICK l \in Seq(Slot) : l = <<slot>> \o q
  <2>1. PICK l : l = <<slot>> \o q OBVIOUS
  <2>2. l \in Seq(Slot) BY <2>1, Pushed
  <2>. QED BY <2>1, <2>2
<1>4. (\A s \in Slot : In(l, s) <=> s = slot \/ In(q, s)) /\ NoTwice(l)
  BY <1>2, <1>3, Pushed
<1>5. PICK v : v = [u EXCEPT !.freeList = l, !.pid = f, !.priority = p, !.nextInPriority = r]
  OBVIOUS
<1>6. v = addToFreeSlots(u, slot)
  BY <1>1, <1>2, <1>3, <1>5, Zenon DEF addToFreeSlots
<1>7. /\ v \in Table /\ SameSleepers(u, v) /\ v.status = u.status
      /\ v.currentProcess = u.currentProcess /\ v.indexes = u.indexes
      /\ v.freeList = l /\ v.pid = f
  BY <1>5 DEF Table, SameSleepers
<1>8. ArrayKept(v)
  <2>1. PICK m \in Nat : m = Len(u.indexes) /\ u.indexes \in [1 .. m -> Slot] BY DEF Table
  <2>2. \A a \in 1 .. m : u.indexes[a] \in Slot /\ u.indexes[a] # slot
    BY <2>1 DEF ArrayKept, In
  <2>3. \A a \in 1 .. m : f[u.indexes[a]] = u.pid[u.indexes[a]]
    BY <1>1, <2>2 DEF Table
  <2>4. SortedTo(v, v.indexes, m)
    <3>1. \A a, b \in 1 .. m : a < b => u.pid[u.indexes[a]] < u.pid[u.indexes[b]]
      BY <2>1, Zenon DEF ArrayKept, SortedTo
    <3>. QED BY <1>7, <2>3, <3>1 DEF SortedTo
  <2>. QED BY <1>7, <2>1, <2>4, Zenon DEF ArrayKept
<1>9. StackKept(v) BY <1>2, <1>4, <1>7, Zenon DEF StackKept
<1>10. DeadKept(v) BY <1>7, Zenon DEF DeadKept
<1>11. Holders(u, v)
  <2>1. \A s \in Slot : s # slot => f[s] = u.pid[s] BY <1>1 DEF Table
  <2>. QED BY <1>7, <2>1 DEF Holders, InUse
<1>. QED BY <1>6, <1>7, <1>8, <1>9, <1>10, <1>11 DEF Kept

\* What schedSchedule does with a dead process: its slot becomes free.
LEMMA EvictKeeps ==
    ASSUME NEW u \in Table, Kept(u), NEW slot \in Slot, u.status[slot] = "DEAD"
    PROVE  LET v == addToFreeSlots(removeFromReadyList([u EXCEPT !.status[slot] = "FREE"], slot),
                                   slot)
           IN  /\ v \in Table /\ Kept(v) /\ SameSleepers(u, v) /\ Holders(u, v)
               /\ v.currentProcess = u.currentProcess /\ v.status[slot] = "FREE"
<1>1. PICK f \in [Slot -> Status] : f = [u.status EXCEPT ![slot] = "FREE"]
  BY DEF Table, Status
<1>2. PICK w : w = [u EXCEPT !.status = f] OBVIOUS
<1>3. w \in Table /\ Calm(u, w) /\ w.status = f BY <1>2 DEF Table, Calm
<1>4. PICK x : x = removeFromReadyList(w, slot) OBVIOUS
<1>5. x \in Table /\ Calm(w, x) /\ x.status = f BY <1>3, <1>4, RemoveRingOnly, RingOnlyCalm
<1>6. Calm(u, x) BY <1>3, <1>5 DEF Calm
<1>7. \A s \in Slot : f[s] = IF s = slot THEN "FREE" ELSE u.status[s] BY <1>1 DEF Table
<1>8. /\ x.indexes = u.indexes /\ x.pid = u.pid /\ x.freeList = u.freeList
      /\ x.currentProcess = u.currentProcess /\ SameSleepers(u, x)
  BY <1>6 DEF Calm, SameSleepers
<1>9. ArrayKept(x)
  <2>1. \A s \in Slot : x.status[s] \notin {"FREE", "DEAD"} <=> u.status[s] \notin {"FREE", "DEAD"}
    BY <1>5, <1>7
  <2>. QED BY <1>8, <2>1, Zenon DEF Kept, ArrayKept, SortedTo
<1>10. DeadKept(x)
  <2>1. \A s \in Slot : x.status[s] = "DEAD" => u.status[s] = "DEAD" BY <1>5, <1>7
  <2>. QED BY <1>8, <2>1, Zenon DEF Kept, DeadKept
<1>11. /\ NoTwice(x.freeList)
       /\ \A s \in Slot : In(x.freeList, s) <=> x.status[s] = "FREE" /\ s # slot
  <2>1. \A s \in Slot : x.status[s] = "FREE" /\ s # slot <=> u.status[s] = "FREE"
    BY <1>5, <1>7
  <2>. QED BY <1>8, <2>1, Zenon DEF Kept, StackKept
<1>12. PICK v : v = addToFreeSlots(x, slot) OBVIOUS
<1>13. x.status[slot] = "FREE" BY <1>5, <1>7
<1>14. /\ v \in Table /\ Kept(v) /\ SameSleepers(x, v) /\ v.currentProcess = x.currentProcess
       /\ v.status = x.status /\ Holders(x, v)
  BY <1>5, <1>9, <1>10, <1>11, <1>12, <1>13, FreedKeeps
<1>15. SameSleepers(u, v) /\ v.currentProcess = u.currentProcess
  BY <1>8, <1>14 DEF SameSleepers
<1>16. addToFreeSlots(removeFromReadyList([u EXCEPT !.status[slot] = "FREE"], slot), slot) = v
  BY <1>1, <1>2, <1>4, <1>12, Zenon
<1>17. Holders(u, x) BY <1>5, <1>7, <1>8 DEF Holders, InUse
<1>18. Holders(u, v) BY <1>14, <1>17, HoldersTwice
<1>. QED BY <1>13, <1>14, <1>15, <1>16, <1>18

\* schedSchedule: it is another's turn, or the program is stuck.
LEMMA ScheduleKeeps ==
    ASSUME NEW u \in Table, Kept(u), u.currentProcess \in Slot
    PROVE  LET v == schedSchedule(u) IN
              /\ v \in Table /\ Kept(v) /\ SameSleepers(u, v) /\ Holders(u, v)
              /\ v.currentProcess \in Slot
<1>. DEFINE current == u.currentProcess
            level == CHOOSE p \in Levels(u) : \A q \in Levels(u) : p <= q
            next == IF u.priority[current] = level THEN u.nextInPriority[current]
                    ELSE u.priorities[level]
            v == [u EXCEPT !.priorities[level] = next,
                           !.status[current] = IF u.status[current] = "RUNNING" THEN "READY"
                                               ELSE u.status[current]]
            w == IF v.status[current] # "DEAD" THEN v
                 ELSE addToFreeSlots(removeFromReadyList([v EXCEPT !.status[current] = "FREE"],
                                                         current), current)
<1>1. schedSchedule(u) = IF Levels(u) = {} \/ next = NULL THEN Stuck(u)
                         ELSE [w EXCEPT !.currentProcess = next]
  BY Zenon DEF schedSchedule
<1>2. w = IF v.status[current] # "DEAD" THEN v
          ELSE addToFreeSlots(removeFromReadyList([v EXCEPT !.status[current] = "FREE"],
                                                  current), current)
  OBVIOUS
<1>. HIDE DEF w
<1>3. v = [u EXCEPT !.priorities[level] = next,
                    !.status[current] = IF u.status[current] = "RUNNING" THEN "READY"
                                        ELSE u.status[current]]
  OBVIOUS
<1>. HIDE DEF v
<1>4. CASE Levels(u) = {} \/ next = NULL
  <2>1. schedSchedule(u) = Stuck(u) BY <1>1, <1>4, Zenon
  <2>2. Stuck(u) \in Table /\ Calm(u, Stuck(u)) /\ Stuck(u).status = u.status
    BY StuckRingOnly, RingOnlyCalm
  <2>3. Kept(Stuck(u)) BY <2>2, CalmKept
  <2>4. Holders(u, Stuck(u)) BY <2>2, <2>3, CalmHolders
  <2>. QED BY <2>1, <2>2, <2>3, <2>4 DEF Calm, SameSleepers
<1>5. CASE ~(Levels(u) = {} \/ next = NULL)
  <2>1. level \in Levels(u)
    <3>1. Levels(u) \in SUBSET Nat /\ Levels(u) # {} BY <1>5, Sizes DEF Levels, Priority
    <3>. QED BY <3>1, SmallestExists
  <2>2. level \in Priority BY <2>1 DEF Levels
  <2>. HIDE DEF level
  <2>3. next \in Slot BY <1>5, <2>2 DEF Table, SlotOrNull
  <2>. HIDE DEF next
  <2>4. current \in Slot /\ u.currentProcess = current OBVIOUS
  <2>. HIDE DEF current
  <2>5. PICK r \in [Priority -> SlotOrNull], f \in [Slot -> Status] :
           /\ r = [u.priorities EXCEPT ![level] = next]
           /\ f = [u.status EXCEPT ![current] = IF u.status[current] = "RUNNING" THEN "READY"
                                                ELSE u.status[current]]
    BY <2>2, <2>3, <2>4 DEF Table, SlotOrNull, Status
  <2>6. v = [u EXCEPT !.priorities = r, !.status = f] BY <1>3, <2>5, Zenon
  <2>7. v \in Table /\ Calm(u, v) /\ v.status = f BY <2>6 DEF Table, Calm
  <2>8. \A s \in Slot : f[s] = u.status[s] \/ (u.status[s] = "RUNNING" /\ f[s] = "READY")
    BY <2>4, <2>5 DEF Table
  <2>9. Kept(v)
    <3>1. \A s \in Slot : v.status[s] = u.status[s] \/ (InUse(u, s) /\ InUse(v, s))
      BY <2>7, <2>8 DEF InUse
    <3>. QED BY <2>7, <3>1, CalmKept
  <2>10. v.currentProcess = current /\ SameSleepers(u, v)
    BY <2>4, <2>7 DEF Calm, SameSleepers
  <2>11. /\ w \in Table /\ Kept(w) /\ SameSleepers(u, w) /\ Holders(u, w)
         /\ \A s \in Slot : w.status[s] # "DEAD"
    <3>. Holders(u, v) BY <2>7, <2>9, CalmHolders
    <3>1. CASE v.status[current] # "DEAD"
      <4>1. w = v BY <1>2, <3>1
      <4>2. \A s \in Slot : w.status[s] # "DEAD"
        BY <2>9, <2>10, <3>1, <4>1 DEF Kept, DeadKept
      <4>. QED BY <2>7, <2>9, <2>10, <4>1, <4>2
    <3>2. CASE v.status[current] = "DEAD"
      <4>1. w = addToFreeSlots(removeFromReadyList([v EXCEPT !.status[current] = "FREE"],
                                                   current), current)
        BY <1>2, <3>2, Zenon
      <4>2. /\ w \in Table /\ Kept(w) /\ SameSleepers(v, w) /\ w.currentProcess = current
            /\ w.status[current] = "FREE" /\ Holders(v, w)
        BY <2>4, <2>7, <2>9, <2>10, <3>2, <4>1, EvictKeeps
      <4>3. \A s \in Slot : w.status[s] # "DEAD"
        BY <4>2 DEF Kept, DeadKept
      <4>4. Holders(u, w) BY <4>2, HoldersTwice
      <4>. QED BY <2>10, <4>2, <4>3, <4>4 DEF SameSleepers
    <3>. QED BY <3>1, <3>2
  <2>12. PICK x : x = [w EXCEPT !.currentProcess = next] OBVIOUS
  <2>13. x = schedSchedule(u) BY <1>1, <1>5, <2>12, Zenon
  <2>14. /\ x \in Table /\ x.currentProcess = next /\ SameSleepers(u, x) /\ x.status = w.status
         /\ x.indexes = w.indexes /\ x.pid = w.pid /\ x.freeList = w.freeList
    BY <2>3, <2>11, <2>12 DEF Table, SameSleepers, SlotOrNull
  <2>15. Kept(x)
    <3>1. ArrayKept(x) BY <2>11, <2>14, Zenon DEF Kept, ArrayKept, SortedTo
    <3>2. StackKept(x) BY <2>11, <2>14, Zenon DEF Kept, StackKept
    <3>3. DeadKept(x) BY <2>11, <2>14 DEF DeadKept
    <3>. QED BY <3>1, <3>2, <3>3 DEF Kept
  <2>16. Holders(u, x) BY <2>11, <2>14 DEF Holders, InUse
  <2>. QED BY <2>3, <2>13, <2>14, <2>15, <2>16
<1>. QED BY <1>4, <1>5

\* x is the m elements of q behind the first c.
PieceOf(x, q, c, m) == x \in Seq(Slot) /\ Len(x) = m /\ \A k \in 1 .. m : x[k] = q[k + c]

LEMMA Piece ==
    ASSUME NEW q \in Seq(Slot), NEW a \in 1 .. Len(q) + 1, NEW b \in a - 1 .. Len(q),
           NEW c \in Nat, c = a - 1, NEW m \in Nat, m = b - c
    PROVE  PieceOf(SubSeq(q, a, b), q, c, m)
<1>1. PICK n \in Nat : n = Len(q) /\ \A k \in 1 .. n : q[k] \in Slot OBVIOUS
<1>2. a \in Int /\ b \in Int /\ \A k \in a .. b : q[k] \in Slot BY <1>1
<1>3. PICK x : x = SubSeq(q, a, b) OBVIOUS
<1>4. /\ x \in Seq(Slot) /\ Len(x) = IF a <= b THEN b - a + 1 ELSE 0
      /\ \A k \in 1 .. b - a + 1 : x[k] = q[a + k - 1]
  BY <1>2, <1>3, SubSeqProperties
<1>5. (IF a <= b THEN b - a + 1 ELSE 0) = m /\ b - a + 1 = m
      /\ \A k \in 1 .. m : a + k - 1 = k + c
  BY <1>1
<1>6. Len(x) = m /\ \A k \in 1 .. m : x[k] = q[k + c] BY <1>4, <1>5, Zenon
<1>. QED BY <1>3, <1>4, <1>6, Zenon DEF PieceOf

\* z is x with y behind it.
JoinOf(z, x, m, y, n) ==
    /\ z \in Seq(Slot) /\ Len(z) = m + n
    /\ \A k \in 1 .. m + n : z[k] = IF k <= m THEN x[k] ELSE y[k - m]

LEMMA Behind ==
    ASSUME NEW x \in Seq(Slot), NEW y \in Seq(Slot), NEW m \in Nat, NEW n \in Nat,
           m = Len(x), n = Len(y)
    PROVE  JoinOf(x \o y, x, m, y, n)
BY ConcatProperties, Zenon DEF JoinOf

\* RemoveAt and InsertAt, of an array of n elements.
RemovedIs(z, q, n, i) ==
    /\ z \in Seq(Slot) /\ Len(z) = n - 1
    /\ \A a \in 1 .. n - 1 : z[a] = IF a < i THEN q[a] ELSE q[a + 1]

InsertedIs(z, q, n, i, s) ==
    /\ z \in Seq(Slot) /\ Len(z) = n + 1
    /\ \A a \in 1 .. n + 1 : z[a] = IF a < i THEN q[a] ELSE IF a = i THEN s ELSE q[a - 1]

LEMMA RemoveAtIs ==
    ASSUME NEW q \in Seq(Slot), NEW n \in Nat, n = Len(q), NEW i \in 1 .. n
    PROVE  RemovedIs(RemoveAt(q, i), q, n, i)
<1>1. PICK c \in Nat : c = i - 1 OBVIOUS
<1>2. PICK d \in Nat : d = n - i
  <2>1. n - i \in Nat OBVIOUS
  <2>2. PICK d : d = n - i OBVIOUS
  <2>. QED BY <2>1, <2>2, Zenon
<1>3. PICK x : x = SubSeq(q, 1, i - 1) OBVIOUS
<1>4. PICK y : y = SubSeq(q, i + 1, n) OBVIOUS
<1>5. PieceOf(x, q, 0, c)
  <2>1. /\ 1 \in 1 .. Len(q) + 1 /\ i - 1 \in 1 - 1 .. Len(q)
        /\ 0 \in Nat /\ 0 = 1 - 1 /\ c = (i - 1) - 0
    BY <1>1
  <2>2. PieceOf(SubSeq(q, 1, i - 1), q, 0, c) BY <2>1, Piece, Zenon
  <2>. QED BY <1>3, <2>2, Zenon
<1>6. PieceOf(y, q, i, d)
  <2>1. PICK e \in Nat : e = i + 1 OBVIOUS
  <2>2. /\ e \in 1 .. Len(q) + 1 /\ n \in e - 1 .. Len(q)
        /\ i \in Nat /\ i = e - 1
    BY <2>1
  <2>3. PieceOf(SubSeq(q, e, n), q, i, d) BY <1>2, <2>2, Piece, Zenon
  <2>. QED BY <1>4, <2>1, <2>3, Zenon
<1>7. PICK z : z = x \o y OBVIOUS
<1>8. JoinOf(z, x, c, y, d)
  <2>1. x \in Seq(Slot) /\ y \in Seq(Slot) /\ c = Len(x) /\ d = Len(y)
    BY <1>5, <1>6, Zenon DEF PieceOf
  <2>. QED BY <1>7, <2>1, Behind, Zenon
<1>9. z \in Seq(Slot) /\ Len(z) = n - 1
  <2>1. c + d = n - 1 BY <1>1, <1>2
  <2>. QED BY <1>8, <2>1, Zenon DEF JoinOf
<1>10. ASSUME NEW a \in 1 .. n - 1 PROVE z[a] = IF a < i THEN q[a] ELSE q[a + 1]
  <2>1. a \in 1 .. c + d BY <1>1, <1>2
  <2>2. z[a] = IF a <= c THEN x[a] ELSE y[a - c] BY <1>8, <2>1, Zenon DEF JoinOf
  <2>3. CASE a < i
    <3>1. a \in 1 .. c /\ a <= c /\ a + 0 = a BY <1>1, <2>3
    <3>2. x[a] = q[a + 0] BY <1>5, <3>1, Zenon DEF PieceOf
    <3>. QED BY <2>2, <2>3, <3>1, <3>2
  <2>4. CASE ~(a < i)
    <3>1. a - c \in 1 .. d /\ ~(a <= c) /\ (a - c) + i = a + 1 BY <1>1, <1>2, <2>4
    <3>2. y[a - c] = q[(a - c) + i] BY <1>6, <3>1, Zenon DEF PieceOf
    <3>. QED BY <2>2, <2>4, <3>1, <3>2
  <2>. QED BY <2>3, <2>4
<1>11. RemoveAt(q, i) = z BY <1>3, <1>4, <1>7, Zenon DEF RemoveAt
<1>. QED BY <1>9, <1>10, <1>11, Zenon DEF RemovedIs

LEMMA InsertAtIs ==
    ASSUME NEW q \in Seq(Slot), NEW n \in Nat, n = Len(q), NEW i \in 1 .. n + 1, NEW s \in Slot
    PROVE  InsertedIs(InsertAt(q, i, s), q, n, i, s)
<1>1. PICK c \in Nat : c = i - 1 OBVIOUS
<1>2. PICK d \in Nat : d = n - c BY <1>1
<1>3. PICK x : x = SubSeq(q, 1, i - 1) OBVIOUS
<1>4. PICK y : y = SubSeq(q, i, n) OBVIOUS
<1>5. PieceOf(x, q, 0, c)
  <2>1. /\ 1 \in 1 .. Len(q) + 1 /\ i - 1 \in 1 - 1 .. Len(q)
        /\ 0 \in Nat /\ 0 = 1 - 1 /\ c = (i - 1) - 0
    BY <1>1
  <2>2. PieceOf(SubSeq(q, 1, i - 1), q, 0, c) BY <2>1, Piece, Zenon
  <2>. QED BY <1>3, <2>2, Zenon
<1>6. PieceOf(y, q, c, d)
  <2>1. i \in 1 .. Len(q) + 1 /\ n \in i - 1 .. Len(q) OBVIOUS
  <2>2. PieceOf(SubSeq(q, i, n), q, c, d) BY <1>1, <1>2, <2>1, Piece, Zenon
  <2>. QED BY <1>4, <2>2, Zenon
<1>7. <<s>> \in Seq(Slot) /\ Len(<<s>>) = 1 /\ <<s>>[1] = s OBVIOUS
<1>8. PICK r : r = <<s>> OBVIOUS
<1>9. r \in Seq(Slot) /\ Len(r) = 1 /\ r[1] = s BY <1>7, <1>8, Zenon
<1>10. PICK z : z = x \o r OBVIOUS
<1>11. JoinOf(z, x, c, r, 1)
  <2>1. x \in Seq(Slot) /\ c = Len(x) /\ 1 \in Nat BY <1>5, Zenon DEF PieceOf
  <2>. QED BY <1>9, <1>10, <2>1, Behind, Zenon
<1>12. PICK w : w = z \o y OBVIOUS
<1>13. JoinOf(w, z, i, y, d)
  <2>1. z \in Seq(Slot) /\ Len(z) = c + 1 BY <1>11, Zenon DEF JoinOf
  <2>2. i \in Nat /\ i = c + 1 BY <1>1
  <2>3. y \in Seq(Slot) /\ d = Len(y) BY <1>6, Zenon DEF PieceOf
  <2>. QED BY <1>12, <2>1, <2>2, <2>3, Behind, Zenon
<1>14. w \in Seq(Slot) /\ Len(w) = n + 1
  <2>1. i + d = n + 1 BY <1>1, <1>2
  <2>. QED BY <1>13, <2>1, Zenon DEF JoinOf
<1>15. ASSUME NEW a \in 1 .. n + 1
       PROVE  w[a] = IF a < i THEN q[a] ELSE IF a = i THEN s ELSE q[a - 1]
  <2>1. a \in 1 .. i + d BY <1>1, <1>2
  <2>2. w[a] = IF a <= i THEN z[a] ELSE y[a - i] BY <1>13, <2>1, Zenon DEF JoinOf
  <2>3. CASE a <= i
    <3>1. a \in 1 .. c + 1 BY <1>1, <2>3
    <3>2. z[a] = IF a <= c THEN x[a] ELSE r[a - c] BY <1>11, <3>1, Zenon DEF JoinOf
    <3>3. CASE a < i
      <4>1. a \in 1 .. c /\ a <= c /\ a + 0 = a BY <1>1, <3>3
      <4>2. x[a] = q[a + 0] BY <1>5, <4>1, Zenon DEF PieceOf
      <4>. QED BY <2>2, <2>3, <3>2, <3>3, <4>1, <4>2
    <3>4. CASE a = i
      <4>1. ~(a <= c) /\ a - c = 1 BY <1>1, <3>4
      <4>2. z[a] = s BY <1>9, <3>2, <4>1
      <4>. QED BY <2>2, <2>3, <3>4, <4>2
    <3>. QED BY <2>3, <3>3, <3>4
  <2>4. CASE ~(a <= i)
    <3>1. a - i \in 1 .. d /\ (a - i) + c = a - 1 BY <1>1, <1>2, <2>4
    <3>2. y[a - i] = q[(a - i) + c] BY <1>6, <3>1, Zenon DEF PieceOf
    <3>. QED BY <2>2, <2>4, <3>1, <3>2
  <2>. QED BY <2>3, <2>4
<1>16. InsertAt(q, i, s) = w BY <1>3, <1>4, <1>8, <1>10, <1>12, Zenon DEF InsertAt
<1>. QED BY <1>14, <1>15, <1>16, Zenon DEF InsertedIs

\* x is u with slot off its ring and marked; v has it on the stack too, unless
\* it is the current one.
PartedAs(u, x, v, slot) ==
    /\ SameLinks(removeFromReadyList(u, slot), x)
    /\ x.pid = u.pid /\ x.waitingList = u.waitingList
    /\ \A s \in Slot : x.status[s] = IF s # slot THEN u.status[s]
                                     ELSE IF slot = u.currentProcess THEN "DEAD" ELSE "FREE"
    /\ v = IF slot = u.currentProcess THEN x ELSE addToFreeSlots(x, slot)
Parted(u, v, slot) == \E x \in Table : PartedAs(u, x, v, slot)

\* schedRemove: the process found is out of the array; its slot is free, or
\* dead if it is the current one.
LEMMA RemoveKeeps ==
    ASSUME NEW u \in Table, Kept(u), NEW pid \in Nat
    PROVE  LET v == schedRemove(u, pid) IN
              /\ v \in Table /\ Kept(v) /\ SameSleepers(u, v) /\ Holders(u, v)
              /\ v.currentProcess = u.currentProcess
              /\ getByPid(u, pid) # NULL => /\ v.status[getByPid(u, pid)] \in {"DEAD", "FREE"}
                                            /\ Parted(u, v, getByPid(u, pid))
<1>. DEFINE place == PlaceOf(u, pid)
            slot == getByPid(u, pid)
            v == removeFromIndexes(removeFromReadyList(u, slot), place)
<1>1. schedRemove(u, pid) = IF slot = NULL THEN u
                            ELSE IF slot = u.currentProcess THEN [v EXCEPT !.status[slot] = "DEAD"]
                            ELSE addToFreeSlots([v EXCEPT !.status[slot] = "FREE"], slot)
  BY Zenon DEF schedRemove
<1>2. v = removeFromIndexes(removeFromReadyList(u, slot), place) OBVIOUS
<1>. HIDE DEF v
<1>3. CASE slot = NULL
  <2>1. schedRemove(u, pid) = u BY <1>1, <1>3, Zenon
  <2>. QED BY <1>3, <2>1 DEF SameSleepers, Holders
<1>4. CASE slot # NULL
  <2>1. PICK n \in Nat : n = Len(u.indexes) BY DEF Table
  <2>2. /\ slot \in Slot /\ u.status[slot] \notin {"FREE", "DEAD"}
        /\ place \in 1 .. n /\ u.indexes[place] = slot
    <3>1. ArrayKept(u) BY DEF Kept
    <3>. QED BY <1>4, <2>1, <3>1, GetByPidFinds
  <2>. HIDE DEF slot, place
  <2>3. PICK w : w = removeFromReadyList(u, slot) OBVIOUS
  <2>4. w \in Table /\ Calm(u, w) /\ w.status = u.status BY <2>2, <2>3, RemoveRingOnly, RingOnlyCalm
  <2>5. PICK q \in Seq(Slot) : q = u.indexes BY DEF Table
  <2>6. PICK l \in Seq(Slot) : /\ l = RemoveAt(q, place) /\ Len(l) = n - 1
                               /\ \A a \in 1 .. n - 1 : l[a] = IF a < place THEN q[a] ELSE q[a + 1]
    <3>1. RemovedIs(RemoveAt(q, place), q, n, place) BY <2>1, <2>2, <2>5, RemoveAtIs, Zenon
    <3>. QED BY <3>1, Zenon DEF RemovedIs
  <2>7. v = [w EXCEPT !.indexes = l]
    BY <1>2, <2>3, <2>4, <2>5, <2>6 DEF removeFromIndexes, Calm
  <2>8. /\ v \in Table /\ v.indexes = l /\ v.status = u.status /\ v.pid = u.pid
        /\ v.freeList = u.freeList /\ v.currentProcess = u.currentProcess /\ SameSleepers(u, v)
        /\ SameLinks(w, v)
    BY <2>4, <2>7 DEF Table, Calm, SameSleepers, SameLinks
  <2>9. \A a, b \in 1 .. n : a < b => u.pid[q[a]] < u.pid[q[b]]
    BY <2>1, <2>5, Zenon DEF Kept, ArrayKept, SortedTo
  <2>10. \A a \in 1 .. n : q[a] \in Slot BY <2>1, <2>5
  <2>11. \A a, b \in 1 .. n : q[a] = q[b] => a = b
    <3>1. NoTwice(u.indexes) BY SortedNoTwice DEF Kept, ArrayKept
    <3>. QED BY <2>1, <2>5, <3>1 DEF NoTwice
  <2>12. SortedTo(v, l, n - 1)
    <3>1. SUFFICES ASSUME NEW a \in 1 .. n - 1, NEW b \in 1 .. n - 1, a < b
                   PROVE  u.pid[l[a]] < u.pid[l[b]]
      BY <2>8 DEF SortedTo
    <3>2. PICK x \in 1 .. n : x = (IF a < place THEN a ELSE a + 1) /\ l[a] = q[x] BY <2>6
    <3>3. PICK y \in 1 .. n : y = (IF b < place THEN b ELSE b + 1) /\ l[b] = q[y] BY <2>6
    <3>4. x < y BY <2>2, <3>1, <3>2, <3>3
    <3>. QED BY <2>9, <3>2, <3>3, <3>4
  <2>13. \A s \in Slot : In(l, s) <=> u.status[s] \notin {"FREE", "DEAD"} /\ s # slot
    <3>1. TAKE s \in Slot
    <3>2. In(q, s) <=> u.status[s] \notin {"FREE", "DEAD"}
      BY <2>5, Zenon DEF Kept, ArrayKept
    <3>3. ASSUME In(l, s) PROVE In(q, s) /\ s # slot
      <4>1. PICK a \in 1 .. n - 1 : l[a] = s BY <2>6, <3>3 DEF In
      <4>2. PICK x \in 1 .. n : x = (IF a < place THEN a ELSE a + 1) /\ l[a] = q[x] BY <2>6
      <4>3. x # place BY <2>2, <4>2
      <4>4. q[x] # q[place] BY <2>2, <2>11, <4>3
      <4>. QED BY <2>1, <2>2, <2>5, <4>1, <4>2, <4>4 DEF In
    <3>4. ASSUME In(q, s), s # slot PROVE In(l, s)
      <4>1. PICK x \in 1 .. n : q[x] = s BY <2>1, <2>5, <3>4 DEF In
      <4>2. x # place BY <2>2, <2>5, <3>4, <4>1
      <4>3. PICK a \in 1 .. n - 1 : a = IF x < place THEN x ELSE x - 1 BY <2>2, <4>2
      <4>4. l[a] = q[x] BY <2>2, <2>6, <4>2, <4>3
      <4>. QED BY <2>6, <4>1, <4>4 DEF In
    <3>. QED BY <3>2, <3>3, <3>4
  <2>14. CASE slot = u.currentProcess
    <3>1. PICK f \in [Slot -> Status] : f = [u.status EXCEPT ![slot] = "DEAD"]
      BY DEF Table, Status
    <3>2. PICK x : x = [v EXCEPT !.status = f] OBVIOUS
    <3>3. x = schedRemove(u, pid) BY <1>1, <1>4, <2>8, <2>14, <3>1, <3>2, Zenon
    <3>4. /\ x \in Table /\ x.indexes = l /\ x.pid = u.pid /\ x.freeList = u.freeList
          /\ x.currentProcess = u.currentProcess /\ SameSleepers(u, x) /\ x.status = f
          /\ SameLinks(w, x)
      BY <2>8, <3>2 DEF Table, SameSleepers, SameLinks
    <3>5. \A s \in Slot : f[s] = IF s = slot THEN "DEAD" ELSE u.status[s]
      BY <2>2, <3>1 DEF Table
    <3>6. ArrayKept(x)
      <4>1. SortedTo(x, l, n - 1) BY <2>8, <2>12, <3>4 DEF SortedTo
      <4>. QED BY <2>6, <2>13, <3>4, <3>5, <4>1 DEF ArrayKept
    <3>7. StackKept(x)
      <4>1. \A s \in Slot : f[s] = "FREE" <=> u.status[s] = "FREE" BY <2>2, <3>5
      <4>. QED BY <3>4, <4>1, Zenon DEF Kept, StackKept
    <3>8. DeadKept(x)
      <4>1. \A s \in Slot : f[s] = "DEAD" => s = slot \/ u.status[s] = "DEAD" BY <3>5
      <4>. QED BY <2>14, <3>4, <4>1, Zenon DEF Kept, DeadKept
    <3>9. Holders(u, x) BY <2>2, <3>4, <3>5 DEF Holders, InUse
    <3>10. Parted(u, x, slot)
      <4>1. PartedAs(u, x, x, slot)
        BY <2>3, <2>14, <3>4, <3>5 DEF PartedAs, SameSleepers
      <4>. QED BY <3>4, <4>1 DEF Parted
    <3>. QED BY <2>2, <3>3, <3>4, <3>5, <3>6, <3>7, <3>8, <3>9, <3>10 DEF Kept, slot
  <2>15. CASE slot # u.currentProcess
    <3>1. PICK f \in [Slot -> Status] : f = [u.status EXCEPT ![slot] = "FREE"]
      BY DEF Table, Status
    <3>2. PICK x : x = [v EXCEPT !.status = f] OBVIOUS
    <3>3. addToFreeSlots(x, slot) = schedRemove(u, pid)
      BY <1>1, <1>4, <2>8, <2>15, <3>1, <3>2, Zenon
    <3>4. /\ x \in Table /\ x.indexes = l /\ x.pid = u.pid /\ x.freeList = u.freeList
          /\ x.currentProcess = u.currentProcess /\ SameSleepers(u, x) /\ x.status = f
          /\ SameLinks(w, x)
      BY <2>8, <3>2 DEF Table, SameSleepers, SameLinks
    <3>5. \A s \in Slot : f[s] = IF s = slot THEN "FREE" ELSE u.status[s]
      BY <2>2, <3>1 DEF Table
    <3>6. ArrayKept(x)
      <4>1. SortedTo(x, l, n - 1) BY <2>8, <2>12, <3>4 DEF SortedTo
      <4>. QED BY <2>6, <2>13, <3>4, <3>5, <4>1 DEF ArrayKept
    <3>7. /\ NoTwice(x.freeList)
          /\ \A s \in Slot : In(x.freeList, s) <=> x.status[s] = "FREE" /\ s # slot
      <4>1. \A s \in Slot : f[s] = "FREE" /\ s # slot <=> u.status[s] = "FREE" BY <2>2, <3>5
      <4>. QED BY <3>4, <4>1, Zenon DEF Kept, StackKept
    <3>8. DeadKept(x)
      <4>1. \A s \in Slot : f[s] = "DEAD" => u.status[s] = "DEAD" BY <3>5
      <4>. QED BY <3>4, <4>1, Zenon DEF Kept, DeadKept
    <3>9. x.status[slot] = "FREE" BY <2>2, <3>4, <3>5
    <3>10. PICK y : y = addToFreeSlots(x, slot) OBVIOUS
    <3>11. /\ y \in Table /\ Kept(y) /\ SameSleepers(x, y)
           /\ y.status = x.status /\ y.currentProcess = x.currentProcess /\ Holders(x, y)
      BY <2>2, <3>4, <3>6, <3>7, <3>8, <3>9, <3>10, FreedKeeps
    <3>12. SameSleepers(u, y) BY <3>4, <3>11 DEF SameSleepers
    <3>13. Holders(u, x) BY <2>2, <3>4, <3>5 DEF Holders, InUse
    <3>14. Holders(u, y) BY <3>11, <3>13, HoldersTwice
    <3>15. Parted(u, y, slot)
      <4>1. PartedAs(u, x, y, slot)
        BY <2>3, <2>15, <3>4, <3>5, <3>10 DEF PartedAs, SameSleepers
      <4>. QED BY <3>4, <4>1 DEF Parted
    <3>. QED BY <3>3, <3>4, <3>9, <3>10, <3>11, <3>12, <3>14, <3>15 DEF slot
  <2>. QED BY <2>14, <2>15
<1>. QED BY <1>3, <1>4

-----------------------------------------------------------------------------
(* The slots taken.                                                        *)

\* The stack without its top.
LEMMA Popped ==
    ASSUME NEW q \in Seq(Slot), q # <<>>, NoTwice(q)
    PROVE  /\ Head(q) \in Slot /\ In(q, Head(q))
           /\ Tail(q) \in Seq(Slot) /\ NoTwice(Tail(q))
           /\ \A s \in Slot : In(Tail(q), s) <=> In(q, s) /\ s # Head(q)
<1>1. PICK n \in Nat : n = Len(q) - 1 /\ Len(q) = n + 1 BY EmptySeq
<1>2. PICK slot \in Slot : slot = Head(q) BY HeadTailProperties
<1>3. PICK l \in Seq(Slot) : l = Tail(q) BY HeadTailProperties
<1>4. Len(l) = n /\ \A a \in 1 .. n : l[a] = q[a + 1] BY <1>1, <1>3, HeadTailProperties
<1>5. q[1] = slot BY <1>1, <1>2
<1>6. \A a, b \in 1 .. n + 1 : q[a] = q[b] => a = b BY <1>1 DEF NoTwice
<1>7. In(q, slot)
  <2>1. 1 \in 1 .. n + 1 OBVIOUS
  <2>. QED BY <1>1, <1>5, <2>1 DEF In
<1>8. NoTwice(l)
  <2>1. \A a, b \in 1 .. n : a + 1 \in 1 .. n + 1 /\ b + 1 \in 1 .. n + 1 /\ (a + 1 = b + 1 => a = b)
    OBVIOUS
  <2>2. \A a, b \in 1 .. n : l[a] = l[b] => a = b BY <1>4, <1>6, <2>1
  <2>. QED BY <1>4, <2>2 DEF NoTwice
<1>9. ASSUME NEW s \in Slot PROVE In(l, s) <=> In(q, s) /\ s # slot
  <2>1. ASSUME In(l, s) PROVE In(q, s) /\ s # slot
    <3>1. PICK a \in 1 .. n : l[a] = s BY <1>4, <2>1 DEF In
    <3>2. a + 1 \in 1 .. n + 1 /\ a + 1 # 1 /\ q[a + 1] = s BY <1>4, <3>1
    <3>3. 1 \in 1 .. n + 1 OBVIOUS
    <3>4. q[a + 1] # q[1] BY <1>6, <3>2, <3>3
    <3>. QED BY <1>1, <1>5, <3>2, <3>4 DEF In
  <2>2. ASSUME In(q, s), s # slot PROVE In(l, s)
    <3>1. PICK b \in 1 .. n + 1 : q[b] = s BY <1>1, <2>2 DEF In
    <3>2. b # 1 BY <1>5, <2>2, <3>1
    <3>3. b - 1 \in 1 .. n /\ (b - 1) + 1 = b BY <3>2
    <3>4. l[b - 1] = s BY <1>4, <3>1, <3>3
    <3>. QED BY <1>4, <3>3, <3>4 DEF In
  <2>. QED BY <2>1, <2>2
<1>. QED BY <1>2, <1>3, <1>7, <1>8, <1>9

\* A slot more at the end of the array.
LEMMA Appended ==
    ASSUME NEW q \in Seq(Slot), NEW n \in Nat, n = Len(q), NEW slot \in Slot
    PROVE  /\ Append(q, slot) \in Array(n + 1)
           /\ Append(q, slot)[n + 1] = slot
           /\ \A a \in 1 .. n : Append(q, slot)[a] = q[a] /\ q[a] \in Slot
<1>1. /\ Append(q, slot) \in Seq(Slot) /\ Len(Append(q, slot)) = n + 1
      /\ Append(q, slot)[n + 1] = slot /\ \A a \in 1 .. n : Append(q, slot)[a] = q[a]
  BY AppendProperties, n = Len(q)
<1>2. PICK l \in Seq(Slot) : l = Append(q, slot) BY <1>1
<1>3. l \in [1 .. n + 1 -> Slot] BY <1>1, <1>2, LenProperties
<1>. QED BY <1>1, <1>2, <1>3 DEF Array

\* schedAdd: the slot on top of the stack is in use by the new process.
LEMMA AddKeeps ==
    ASSUME NEW u \in Table, Kept(u), u.freeList # <<>>,
           NEW pid \in Nat, NEW priority \in Priority,
           \A s \in Slot : InUse(u, s) => u.pid[s] # pid
    PROVE  LET v == schedAdd(u, pid, priority)
               slot == Head(u.freeList)
           IN  /\ v \in Table /\ Kept(v)
               /\ v.waitingList = u.waitingList /\ v.currentProcess = u.currentProcess
               /\ v.priorities = u.priorities /\ v.stuck = u.stuck
               /\ slot \in Slot /\ u.status[slot] = "FREE"
               /\ v.pid[slot] = pid /\ v.status[slot] = "BLOCKED"
               /\ \A s \in Slot \ {slot} : /\ v.status[s] = u.status[s] /\ v.pid[s] = u.pid[s]
                                           /\ v.waitingTicks[s] = u.waitingTicks[s]
                                           /\ v.priority[s] = u.priority[s]
                                           /\ v.nextInPriority[s] = u.nextInPriority[s]
<1>1. PICK free \in Seq(Slot) : free = u.freeList /\ free # <<>> /\ NoTwice(free)
  BY DEF Table, Kept, StackKept
<1>2. PICK slot \in Slot : slot = Head(u.freeList) /\ In(free, slot) BY <1>1, Popped
<1>3. PICK tail \in Seq(Slot) : /\ tail = Tail(u.freeList) /\ NoTwice(tail)
                                /\ \A s \in Slot : In(tail, s) <=> In(free, s) /\ s # slot
  BY <1>1, <1>2, Popped
<1>4. u.status[slot] = "FREE" /\ \A s \in Slot : In(free, s) <=> u.status[s] = "FREE"
  BY <1>1, <1>2 DEF Kept, StackKept
<1>5. PICK q \in Seq(Slot) : q = u.indexes BY DEF Table
<1>6. PICK n \in Nat : n = Len(q) BY <1>5
<1>7. PICK f \in [Slot -> Nat], p \in [Slot -> Priority], r \in [Slot -> SlotOrNull],
           st \in [Slot -> Status], w \in [Slot -> Nat] :
         /\ f = [u.pid EXCEPT ![slot] = pid] /\ p = [u.priority EXCEPT ![slot] = priority]
         /\ r = [u.nextInPriority EXCEPT ![slot] = NULL]
         /\ st = [u.status EXCEPT ![slot] = "BLOCKED"]
         /\ w = [u.waitingTicks EXCEPT ![slot] = 0]
  BY DEF Table, SlotOrNull, Status
<1>8. PICK l \in Array(n + 1) : /\ l = Append(q, slot) /\ l[n + 1] = slot
                                /\ \A a \in 1 .. n : l[a] = q[a] /\ q[a] \in Slot
  BY <1>6, Appended
<1>9. PICK x : x = [u EXCEPT !.freeList = tail, !.pid = f, !.priority = p, !.nextInPriority = r,
                             !.status = st, !.waitingTicks = w]
  OBVIOUS
<1>10. PICK y : y = [x EXCEPT !.indexes = l] OBVIOUS
<1>11. schedAdd(u, pid, priority) = orderIndexes(y)
  <2>1. x = [u EXCEPT !.freeList = Tail(u.freeList), !.pid[slot] = pid,
                      !.priority[slot] = priority, !.nextInPriority[slot] = NULL,
                      !.status[slot] = "BLOCKED", !.waitingTicks[slot] = 0]
    <3>1. tail = Tail(u.freeList) BY <1>3
    <3>2. /\ f = [u.pid EXCEPT ![slot] = pid] /\ p = [u.priority EXCEPT ![slot] = priority]
          /\ r = [u.nextInPriority EXCEPT ![slot] = NULL]
          /\ st = [u.status EXCEPT ![slot] = "BLOCKED"]
          /\ w = [u.waitingTicks EXCEPT ![slot] = 0]
      BY <1>7
    <3>3. x = [u EXCEPT !.freeList = Tail(u.freeList), !.pid = [u.pid EXCEPT ![slot] = pid],
                        !.priority = [u.priority EXCEPT ![slot] = priority],
                        !.nextInPriority = [u.nextInPriority EXCEPT ![slot] = NULL],
                        !.status = [u.status EXCEPT ![slot] = "BLOCKED"],
                        !.waitingTicks = [u.waitingTicks EXCEPT ![slot] = 0]]
      BY <1>9, <3>1, <3>2
    <3>. QED BY <3>3, Zenon
  <2>2. schedAdd(u, pid, priority) = addToIndexes(x, slot)
    BY <1>2, <2>1, Zenon DEF schedAdd
  <2>3. x.indexes = q BY <1>5, <1>9 DEF Table
  <2>4. addToIndexes(x, slot) = orderIndexes(y)
    BY <1>8, <1>10, <2>3, Zenon DEF addToIndexes
  <2>. QED BY <2>2, <2>4
<1>12. /\ x \in Table /\ x.freeList = tail /\ x.pid = f /\ x.status = st /\ x.waitingTicks = w
       /\ x.waitingList = u.waitingList /\ x.currentProcess = u.currentProcess
       /\ x.priorities = u.priorities /\ x.stuck = u.stuck
       /\ x.priority = p /\ x.nextInPriority = r
  BY <1>9 DEF Table
<1>13. y.pid = f /\ y.indexes = l BY <1>10, <1>12 DEF Table
<1>14. \A a \in 1 .. n : q[a] # slot /\ InUse(u, q[a]) /\ f[q[a]] = u.pid[q[a]] /\ f[q[a]] # pid
  <2>1. TAKE a \in 1 .. n
  <2>2. q[a] \in Slot /\ In(u.indexes, q[a]) BY <1>5, <1>6, <1>8 DEF In
  <2>3. InUse(u, q[a]) BY <2>2 DEF Kept, ArrayKept, InUse
  <2>4. q[a] # slot BY <1>4, <2>3 DEF InUse
  <2>5. f[q[a]] = u.pid[q[a]] BY <1>7, <2>2, <2>4 DEF Table
  <2>. QED BY <2>2, <2>3, <2>4, <2>5
<1>15. f[slot] = pid BY <1>7 DEF Table
<1>16. OneEach(y, l, n + 1)
  <2>1. SUFFICES ASSUME NEW a \in 1 .. n + 1, NEW b \in 1 .. n + 1, f[l[a]] = f[l[b]] PROVE a = b
    BY <1>13 DEF OneEach
  <2>2. \A c \in 1 .. n + 1 : c # n + 1 => c \in 1 .. n OBVIOUS
  <2>3. \A c \in 1 .. n + 1 : c = n + 1 <=> f[l[c]] = pid
    <3>1. TAKE c \in 1 .. n + 1
    <3>2. c = n + 1 => l[c] = slot BY <1>8
    <3>3. c # n + 1 => l[c] = q[c] /\ f[q[c]] # pid BY <1>8, <1>14, <2>2
    <3>. QED BY <1>15, <3>2, <3>3
  <2>4. CASE a # n + 1
    <3>1. a \in 1 .. n /\ b \in 1 .. n BY <2>1, <2>2, <2>3, <2>4
    <3>2. u.pid[q[a]] = u.pid[q[b]] BY <1>8, <1>14, <2>1, <3>1
    <3>3. OneEach(u, u.indexes, Len(u.indexes)) BY SortedNoTwice DEF Kept, ArrayKept
    <3>. QED BY <1>5, <1>6, <3>1, <3>2, <3>3 DEF OneEach
  <2>. QED BY <2>1, <2>3, <2>4
<1>17. PICK m \in Array(n + 1) : /\ orderIndexes(y) = [y EXCEPT !.indexes = m]
                                 /\ Rearranged(l, m, n + 1) /\ SortedTo(y, m, n + 1)
  <2>1. n + 1 \in Nat OBVIOUS
  <2>. QED BY <1>13, <1>16, <2>1, OrderSorts
<1>18. PICK v : v = [x EXCEPT !.indexes = m] OBVIOUS
<1>19. m \in Seq(Slot) /\ Len(m) = n + 1 BY ArrayLength DEF Array
<1>20. v = schedAdd(u, pid, priority) BY <1>10, <1>11, <1>12, <1>17, <1>18 DEF Table
<1>21. /\ v \in Table /\ v.freeList = tail /\ v.pid = f /\ v.status = st /\ v.waitingTicks = w
       /\ v.waitingList = u.waitingList /\ v.currentProcess = u.currentProcess
       /\ v.priorities = u.priorities /\ v.indexes = m /\ v.stuck = u.stuck
       /\ v.priority = p /\ v.nextInPriority = r
  BY <1>12, <1>18, <1>19 DEF Table
<1>22. /\ st[slot] = "BLOCKED" /\ w[slot] = 0
       /\ \A s \in Slot \ {slot} : /\ st[s] = u.status[s] /\ w[s] = u.waitingTicks[s]
                                   /\ f[s] = u.pid[s] /\ p[s] = u.priority[s]
                                   /\ r[s] = u.nextInPriority[s]
  BY <1>7 DEF Table
<1>23. ArrayKept(v)
  <2>1. SortedTo(v, m, n + 1) BY <1>13, <1>17, <1>21 DEF SortedTo
  <2>2. ASSUME NEW s \in Slot PROVE In(m, s) <=> s = slot \/ In(q, s)
    <3>1. In(m, s) <=> \E a \in 1 .. n + 1 : l[a] = s
      <4>1. In(m, s) <=> \E a \in 1 .. n + 1 : m[a] = s BY <1>19, Zenon DEF In
      <4>2. /\ \A a \in 1 .. n + 1 : \E b \in 1 .. n + 1 : m[a] = l[b]
            /\ \A a \in 1 .. n + 1 : \E b \in 1 .. n + 1 : l[a] = m[b]
        BY <1>17, Zenon DEF Rearranged
      <4>3. ASSUME NEW a \in 1 .. n + 1, m[a] = s PROVE \E b \in 1 .. n + 1 : l[b] = s
        <5>1. PICK b \in 1 .. n + 1 : m[a] = l[b] BY <4>2, Zenon
        <5>2. l[b] = s BY <4>3, <5>1
        <5>. QED BY <5>2, Zenon
      <4>4. ASSUME NEW a \in 1 .. n + 1, l[a] = s PROVE \E b \in 1 .. n + 1 : m[b] = s
        <5>1. PICK b \in 1 .. n + 1 : l[a] = m[b] BY <4>2, Zenon
        <5>2. m[b] = s BY <4>4, <5>1
        <5>. QED BY <5>2, Zenon
      <4>. QED BY <4>1, <4>3, <4>4, Zenon
    <3>2. (\E a \in 1 .. n + 1 : l[a] = s) <=> s = slot \/ \E a \in 1 .. n : q[a] = s
      <4>1. \A c \in 1 .. n + 1 : c # n + 1 => c \in 1 .. n OBVIOUS
      <4>2. n + 1 \in 1 .. n + 1 /\ \A c \in 1 .. n : c \in 1 .. n + 1 OBVIOUS
      <4>. QED BY <1>8, <4>1, <4>2
    <3>. QED BY <1>6, <3>1, <3>2 DEF In
  <2>3. \A s \in Slot : In(q, s) <=> u.status[s] \notin {"FREE", "DEAD"}
    BY <1>5 DEF Kept, ArrayKept
  <2>4. \A s \in Slot : In(m, s) <=> st[s] \notin {"FREE", "DEAD"}
    BY <1>22, <2>2, <2>3
  <2>. QED BY <1>19, <1>21, <2>1, <2>4 DEF ArrayKept
<1>24. StackKept(v)
  <2>1. \A s \in Slot : In(tail, s) <=> st[s] = "FREE" BY <1>3, <1>4, <1>22
  <2>. QED BY <1>3, <1>21, <2>1, Zenon DEF StackKept
<1>25. DeadKept(v)
  <2>1. \A s \in Slot : st[s] = "DEAD" => u.status[s] = "DEAD" BY <1>22
  <2>. QED BY <1>21, <2>1, Zenon DEF Kept, DeadKept
<1>. QED BY <1>2, <1>4, <1>15, <1>20, <1>21, <1>22, <1>23, <1>24, <1>25 DEF Kept

\* What addToFreeSlots does, whatever the stack holds.
LEMMA FreedTyped ==
    ASSUME NEW u \in Table, NEW slot \in Slot
    PROVE  LET v == addToFreeSlots(u, slot) IN
              /\ v \in Table /\ v.freeList = <<slot>> \o u.freeList
              /\ v.status = u.status /\ v.indexes = u.indexes /\ v.waitingList = u.waitingList
              /\ v.priorities = u.priorities /\ v.stuck = u.stuck
              /\ \A s \in Slot \ {slot} : /\ v.pid[s] = u.pid[s] /\ v.priority[s] = u.priority[s]
                                          /\ v.nextInPriority[s] = u.nextInPriority[s]
<1>1. PICK f \in [Slot -> Nat], p \in [Slot -> Priority], r \in [Slot -> SlotOrNull] :
         /\ f = [u.pid EXCEPT ![slot] = 0] /\ p = [u.priority EXCEPT ![slot] = 0]
         /\ r = [u.nextInPriority EXCEPT ![slot] = NULL]
  BY Sizes DEF Table, SlotOrNull
<1>2. PICK q \in Seq(Slot) : q = u.freeList BY DEF Table
<1>3. PICK l \in Seq(Slot) : l = <<slot>> \o q
  <2>1. PICK l : l = <<slot>> \o q OBVIOUS
  <2>2. l \in Seq(Slot) BY <2>1, Pushed
  <2>. QED BY <2>1, <2>2
<1>4. PICK v : v = [u EXCEPT !.freeList = l, !.pid = f, !.priority = p, !.nextInPriority = r]
  OBVIOUS
<1>5. v = addToFreeSlots(u, slot)
  BY <1>1, <1>2, <1>3, <1>4, Zenon DEF addToFreeSlots
<1>6. /\ v \in Table /\ v.freeList = l /\ v.status = u.status
      /\ v.indexes = u.indexes /\ v.waitingList = u.waitingList
      /\ v.priorities = u.priorities /\ v.stuck = u.stuck
      /\ v.pid = f /\ v.priority = p /\ v.nextInPriority = r
  BY <1>4 DEF Table
<1>7. \A s \in Slot \ {slot} : /\ f[s] = u.pid[s] /\ p[s] = u.priority[s]
                                /\ r[s] = u.nextInPriority[s]
  BY <1>1 DEF Table
<1>. QED BY <1>2, <1>3, <1>5, <1>6, <1>7

\* The table when the first j slots are on the stack.
FreedTo(u, j) ==
    /\ u \in Table /\ u.indexes = <<>> /\ u.waitingList = <<>>
    /\ \A s \in Slot : u.status[s] = "FREE"
    /\ NoTwice(u.freeList)
    /\ \A s \in Slot : In(u.freeList, s) <=> s <= j

SetUpIs(freed) ==
    /\ schedSetUp = freed[MaxProcess]
    /\ freed[0] = Blank
    /\ \A j \in 1 .. MaxProcess : freed[j] = addToFreeSlots(freed[j - 1], j)

LEMMA SetUpLoop == \E freed \in [0 .. MaxProcess -> Table] : SetUpIs(freed)
<1>. DEFINE freed[s \in 0 .. MaxProcess] == IF s = 0 THEN Blank ELSE addToFreeSlots(freed[s - 1], s)
            f == [j \in 1 .. MaxProcess |-> [u \in Table |-> addToFreeSlots(u, j)]]
<1>1. schedSetUp = freed[MaxProcess] BY Zenon DEF schedSetUp
<1>2. MaxProcess \in Nat /\ \A j \in 1 .. MaxProcess : j \in Slot BY Sizes DEF Slot
<1>3. Blank \in Table
  <2>1. <<>> \in Seq(Slot) /\ 0 \in Nat OBVIOUS
  <2>2. NULL \in SlotOrNull /\ "FREE" \in Status BY DEF SlotOrNull, Status
  <2>. QED BY <2>1, <2>2, Sizes DEF Blank, Table
<1>4. f \in [1 .. MaxProcess -> [Table -> Table]]
  <2>1. \A j \in 1 .. MaxProcess : \A u \in Table : addToFreeSlots(u, j) \in Table
    BY <1>2, FreedTyped
  <2>. QED BY <2>1, Zenon
<1>5. \A j \in 1 .. MaxProcess : \A u \in Table : f[j][u] = addToFreeSlots(u, j) BY Zenon
<1>6. PICK g \in [0 .. MaxProcess -> Table] :
         g[0] = Blank /\ \A j \in 1 .. MaxProcess : g[j] = f[j][g[j - 1]]
  <2>1. PICK v \in Table : v = Blank BY <1>3
  <2>. HIDE DEF f, freed
  <2>2. \E g \in [0 .. MaxProcess -> Table] :
           g[0] = v /\ \A j \in 1 .. MaxProcess : g[j] = f[j][g[j - 1]]
    BY <1>2, <1>4, LoopRuns
  <2>. QED BY <2>1, <2>2
<1>7. \A j \in 1 .. MaxProcess : j - 1 \in 0 .. MaxProcess /\ j \in 0 .. MaxProcess /\ j # 0
  BY Sizes
<1>8. \A j \in 1 .. MaxProcess : g[j] = addToFreeSlots(g[j - 1], j)
  <2>. HIDE DEF f
  <2>1. \A j \in 1 .. MaxProcess : g[j - 1] \in Table BY <1>7
  <2>. QED BY <1>5, <1>6, <2>1
<1>9. g = [s \in 0 .. MaxProcess |-> IF s = 0 THEN Blank ELSE addToFreeSlots(g[s - 1], s)]
  <2>. HIDE DEF f, freed
  <2>1. \A j \in 0 .. MaxProcess : j # 0 => j \in 1 .. MaxProcess BY Sizes
  <2>2. \A j \in 0 .. MaxProcess : g[j] = IF j = 0 THEN Blank ELSE addToFreeSlots(g[j - 1], j)
    BY <1>6, <1>8, <2>1, Zenon
  <2>. QED BY <2>2, Zenon
<1>10. freed = [s \in 0 .. MaxProcess |-> IF s = 0 THEN Blank ELSE addToFreeSlots(freed[s - 1], s)]
  <2>. HIDE DEF f
  <2>1. freed = CHOOSE h : h = [s \in 0 .. MaxProcess |->
                                   IF s = 0 THEN Blank ELSE addToFreeSlots(h[s - 1], s)]
    BY DEF freed
  <2>. HIDE DEF freed
  <2>. QED BY <1>9, <2>1
<1>. HIDE DEF freed, f
<1>11. freed[0] = Blank /\ \A j \in 1 .. MaxProcess : freed[j] = addToFreeSlots(freed[j - 1], j)
  <2>1. 0 \in 0 .. MaxProcess BY Sizes
  <2>. QED BY <1>7, <1>10, <2>1, Zenon
<1>12. freed \in [0 .. MaxProcess -> Table]
  <2>. DEFINE Good == {j \in 0 .. MaxProcess : freed[j] \in Table}
  <2>1. 0 \in Good BY <1>3, <1>11, Sizes
  <2>2. ASSUME NEW j \in 1 .. MaxProcess, j - 1 \in Good PROVE j \in Good
    <3>1. freed[j - 1] \in Table /\ j \in Slot BY <1>2, <2>2
    <3>2. addToFreeSlots(freed[j - 1], j) \in Table BY <3>1, FreedTyped
    <3>3. freed[j] = addToFreeSlots(freed[j - 1], j) BY <1>11, Zenon
    <3>. QED BY <1>7, <3>2, <3>3
  <2>3. Good \in SUBSET (0 .. MaxProcess) OBVIOUS
  <2>. HIDE DEF Good
  <2>4. Good = 0 .. MaxProcess BY <1>2, <2>1, <2>2, <2>3, RoundByRound
  <2>. QED BY <1>10, <2>4 DEF Good
<1>13. SetUpIs(freed) BY <1>1, <1>11, Zenon DEF SetUpIs
<1>. QED BY <1>12, <1>13

LEMMA SetUpFrees == FreedTo(schedSetUp, MaxProcess)
<1>1. PICK freed \in [0 .. MaxProcess -> Table] : SetUpIs(freed) BY SetUpLoop
<1>2. MaxProcess \in Nat /\ \A j \in 1 .. MaxProcess : j \in Slot BY Sizes DEF Slot
<1>. DEFINE Good == {j \in 0 .. MaxProcess : FreedTo(freed[j], j)}
<1>3. 0 \in Good
  <2>1. freed[0] = Blank /\ freed[0] \in Table BY <1>1, Sizes DEF SetUpIs
  <2>2. /\ Blank.indexes = <<>> /\ Blank.waitingList = <<>> /\ Blank.freeList = <<>>
        /\ \A s \in Slot : Blank.status[s] = "FREE"
    BY DEF Blank
  <2>3. NoTwice(<<>>) /\ \A s \in Slot : ~In(<<>>, s) BY DEF NoTwice, In
  <2>4. \A s \in Slot : ~(s <= 0) BY DEF Slot
  <2>. QED BY <2>1, <2>2, <2>3, <2>4, Sizes DEF FreedTo
<1>4. ASSUME NEW j \in 1 .. MaxProcess, j - 1 \in Good PROVE j \in Good
  <2>1. FreedTo(freed[j - 1], j - 1) BY <1>4
  <2>2. PICK u \in Table : u = freed[j - 1] BY <2>1 DEF FreedTo
  <2>3. PICK v : v = addToFreeSlots(u, j) OBVIOUS
  <2>4. freed[j] = v BY <1>1, <2>2, <2>3, Zenon DEF SetUpIs
  <2>5. /\ v \in Table /\ v.freeList = <<j>> \o u.freeList
        /\ v.status = u.status /\ v.indexes = u.indexes /\ v.waitingList = u.waitingList
    BY <1>2, <2>3, FreedTyped
  <2>6. PICK q \in Seq(Slot) : q = u.freeList BY DEF Table
  <2>7. NoTwice(q) /\ \A s \in Slot : In(q, s) <=> s <= j - 1
    BY <2>1, <2>2, <2>6, Zenon DEF FreedTo
  <2>8. ~In(q, j) BY <1>2, <2>7
  <2>9. /\ \A s \in Slot : In(v.freeList, s) <=> s = j \/ In(q, s)
        /\ NoTwice(v.freeList)
    BY <1>2, <2>5, <2>6, <2>7, <2>8, Pushed
  <2>10. \A s \in Slot : s = j \/ s <= j - 1 <=> s <= j BY DEF Slot
  <2>11. /\ v.indexes = <<>> /\ v.waitingList = <<>> /\ \A s \in Slot : v.status[s] = "FREE"
    BY <2>1, <2>2, <2>5 DEF FreedTo
  <2>12. \A s \in Slot : In(v.freeList, s) <=> s <= j BY <2>7, <2>9, <2>10
  <2>13. FreedTo(v, j) BY <2>5, <2>9, <2>11, <2>12, Zenon DEF FreedTo
  <2>14. j \in 0 .. MaxProcess OBVIOUS
  <2>. QED BY <2>4, <2>13, <2>14
<1>5. Good = 0 .. MaxProcess
  <2>1. Good \in SUBSET (0 .. MaxProcess) OBVIOUS
  <2>. HIDE DEF Good
  <2>. QED BY <1>2, <1>3, <1>4, <2>1, RoundByRound
<1>6. MaxProcess \in Good
  <2>1. MaxProcess \in 0 .. MaxProcess BY Sizes
  <2>. HIDE DEF Good
  <2>. QED BY <1>5, <2>1
<1>7. schedSetUp = freed[MaxProcess] BY <1>1, Zenon DEF SetUpIs
<1>. QED BY <1>6, <1>7

\* schedContinue of a process there is: not all rings are empty any more.
LEMMA ContinueFillsRing ==
    ASSUME NEW u \in Table, NEW pid, getByPid(u, pid) # NULL
    PROVE  Levels(schedContinue(u, pid)) # {}
<1>1. PICK slot \in Slot : slot = getByPid(u, pid) BY GetByPidTyped DEF SlotOrNull
<1>2. PICK f \in [Slot -> Status] : f = [u.status EXCEPT ![slot] = "READY"]
  BY DEF Table, Status
<1>3. PICK w : w = [u EXCEPT !.status = f] OBVIOUS
<1>4. w \in Table BY <1>3 DEF Table
<1>5. PICK v : v = addToReadyList(w, slot) OBVIOUS
<1>6. schedContinue(u, pid) = v BY <1>1, <1>2, <1>3, <1>5, Zenon DEF schedContinue
<1>7. PICK p \in Priority : p = w.priority[slot] BY <1>4 DEF Table
<1>8. v.priorities[p] # NULL
  <2>1. slot # NULL BY SlotsAreFinite
  <2>2. CASE w.priorities[p] = NULL
    <3>1. v = [w EXCEPT !.priorities = [w.priorities EXCEPT ![p] = slot],
                        !.nextInPriority = [w.nextInPriority EXCEPT ![slot] = slot]]
      BY <1>5, <1>7, <2>2, Zenon DEF addToReadyList
    <3>. QED BY <1>4, <2>1, <3>1 DEF Table
  <2>3. CASE w.priorities[p] # NULL
    <3>1. PICK x : x = [[w.nextInPriority EXCEPT ![slot] = w.nextInPriority[w.priorities[p]]]
                           EXCEPT ![w.priorities[p]] = slot]
      OBVIOUS
    <3>2. v = [w EXCEPT !.nextInPriority = x]
      BY <1>5, <1>7, <2>3, <3>1, Zenon DEF addToReadyList
    <3>. QED BY <1>4, <2>3, <3>2 DEF Table
  <2>. QED BY <2>2, <2>3
<1>. QED BY <1>6, <1>8 DEF Levels

\* procSetup: INIT runs, IDLE is ready, every other slot is free.
LEMMA InitKeeps ==
    ASSUME Init
    PROVE  /\ t \in Table /\ Kept(t) /\ t.currentProcess \in Slot /\ t.waitingList = <<>>
           /\ \A s \in Slot : InUse(t, s) => t.pid[s] \in {InitPid, IdlePid}
           /\ \A s \in Slot : t.status[s] # "RUNNING"
           /\ \E s \in Slot : t.pid[s] = IdlePid /\ t.status[s] = "READY"
<1>1. PICK u0 : u0 = schedSetUp OBVIOUS
<1>2. PICK u1 : u1 = schedAdd(u0, InitPid, 0) OBVIOUS
<1>3. PICK u2 : u2 = schedContinue(u1, InitPid) OBVIOUS
<1>4. PICK u3 : u3 = schedStart(u2) OBVIOUS
<1>5. PICK u4 : u4 = schedAdd(u3, IdlePid, CantPriorities - 1) OBVIOUS
<1>6. t = schedContinue(u4, IdlePid)
  BY <1>1, <1>2, <1>3, <1>4, <1>5, Zenon DEF Init, schedSetUpInit
<1>7. u0 \in Table /\ Kept(u0) /\ u0.waitingList = <<>> /\ u0.freeList # <<>>
      /\ \A s \in Slot : u0.status[s] = "FREE"
  <2>1. FreedTo(u0, MaxProcess) BY <1>1, SetUpFrees
  <2>2. /\ u0 \in Table /\ u0.indexes = <<>> /\ u0.waitingList = <<>>
        /\ (\A s \in Slot : u0.status[s] = "FREE")
        /\ NoTwice(u0.freeList) /\ \A s \in Slot : In(u0.freeList, s) <=> s <= MaxProcess
    BY <2>1, Zenon DEF FreedTo
  <2>3. \A s \in Slot : s <= MaxProcess BY DEF Slot
  <2>4. ArrayKept(u0)
    <3>1. SortedTo(u0, <<>>, 0) /\ Len(<<>>) = 0 BY DEF SortedTo
    <3>2. \A s \in Slot : ~In(<<>>, s) BY DEF In
    <3>. QED BY <2>2, <3>1, <3>2 DEF ArrayKept
  <2>5. StackKept(u0) BY <2>2, <2>3 DEF StackKept
  <2>6. DeadKept(u0) BY <2>2 DEF DeadKept
  <2>7. u0.freeList # <<>>
    <3>1. 1 \in Slot BY Sizes DEF Slot
    <3>2. In(u0.freeList, 1) BY <2>2, <2>3, <3>1
    <3>3. ~In(<<>>, 1) BY DEF In
    <3>. QED BY <3>2, <3>3
  <2>. QED BY <2>2, <2>4, <2>5, <2>6, <2>7 DEF Kept
<1>8. PICK slot \in Slot :
         /\ u1 \in Table /\ Kept(u1) /\ u1.waitingList = <<>>
         /\ u1.pid[slot] = 0 /\ u1.status[slot] = "BLOCKED"
         /\ \A s \in Slot \ {slot} : u1.status[s] = "FREE"
  <2>1. \A s \in Slot : InUse(u0, s) => u0.pid[s] # InitPid BY <1>7 DEF InUse
  <2>2. InitPid \in Nat /\ 0 \in Priority BY Sizes DEF InitPid
  <2>3. PICK u \in Table : u = u0 /\ Kept(u) /\ u.freeList # <<>> BY <1>7
  <2>4. PICK pid \in Nat, p \in Priority : pid = InitPid /\ p = 0 BY <2>2
  <2>5. \A s \in Slot : InUse(u, s) => u.pid[s] # pid BY <2>1, <2>3, <2>4, Zenon
  <2>6. PICK v, h : v = schedAdd(u, pid, p) /\ h = Head(u.freeList) OBVIOUS
  <2>7. /\ v \in Table /\ Kept(v) /\ v.waitingList = u.waitingList
        /\ h \in Slot /\ v.pid[h] = pid /\ v.status[h] = "BLOCKED"
        /\ \A s \in Slot \ {h} : v.status[s] = u.status[s]
    BY <2>3, <2>5, <2>6, AddKeeps
  <2>8. v = u1 BY <1>2, <2>3, <2>4, <2>6, Zenon
  <2>. QED BY <1>7, <2>3, <2>4, <2>7, <2>8 DEF InitPid
<1>9. getByPid(u1, 0) = slot
  <2>1. ArrayKept(u1) /\ u1.status[slot] \notin {"FREE", "DEAD"} BY <1>8 DEF Kept
  <2>. QED BY <1>8, <2>1, GetByPidFinds
<1>10. /\ u2 \in Table /\ Kept(u2) /\ Calm(u1, u2)
       /\ \A s \in Slot : u2.status[s] = IF s = slot THEN "READY" ELSE "FREE"
  <2>1. 0 \in Nat OBVIOUS
  <2>2. /\ u2 \in Table /\ Kept(u2) /\ Calm(u1, u2)
        /\ \A s \in Slot : u2.status[s] = IF s = getByPid(u1, 0) THEN "READY" ELSE u1.status[s]
    BY <1>3, <1>8, <2>1, ContinueKeeps DEF InitPid
  <2>. QED BY <1>8, <1>9, <2>2
<1>11. u2.pid[slot] = 0 /\ u2.waitingList = <<>> BY <1>8, <1>10 DEF Calm
<1>12. PICK current \in Slot : u3 = [u2 EXCEPT !.currentProcess = current]
  <2>1. Levels(u2) # {}
    <3>1. getByPid(u1, InitPid) # NULL BY <1>9, SlotsAreFinite DEF InitPid
    <3>. QED BY <1>3, <1>8, <3>1, ContinueFillsRing
  <2>2. Levels(u2) \in SUBSET Nat BY Sizes DEF Levels, Priority
  <2>3. PICK level : level = CHOOSE p \in Levels(u2) : \A q \in Levels(u2) : p <= q OBVIOUS
  <2>4. \E p \in Levels(u2) : \A q \in Levels(u2) : p <= q BY <2>1, <2>2, SmallestExists
  <2>5. level \in Levels(u2) BY <2>3, <2>4
  <2>6. u2.priorities[level] \in Slot BY <1>10, <2>5 DEF Levels, Table, SlotOrNull
  <2>7. u3 = [u2 EXCEPT !.currentProcess = u2.priorities[level]]
    BY <1>4, <2>3, Zenon DEF schedStart
  <2>. QED BY <2>6, <2>7, Zenon
<1>13. /\ u3 \in Table /\ u3.currentProcess \in Slot /\ u3.pid = u2.pid /\ u3.status = u2.status
       /\ u3.indexes = u2.indexes /\ u3.freeList = u2.freeList /\ u3.waitingList = <<>>
  BY <1>10, <1>11, <1>12 DEF Table, SlotOrNull
<1>14. Kept(u3)
  <2>1. ArrayKept(u3) BY <1>10, <1>13, Zenon DEF Kept, ArrayKept, SortedTo
  <2>2. StackKept(u3) BY <1>10, <1>13, Zenon DEF Kept, StackKept
  <2>3. DeadKept(u3) BY <1>10, <1>13 DEF DeadKept
  <2>. QED BY <2>1, <2>2, <2>3 DEF Kept
<1>15. u3.freeList # <<>>
  <2>1. PICK s \in Slot : s # slot
    <3>1. 1 \in Slot /\ 2 \in Slot BY Sizes DEF Slot
    <3>. QED BY <3>1
  <2>2. In(u3.freeList, s) BY <1>10, <1>13, <1>14, <2>1 DEF Kept, StackKept
  <2>3. ~In(<<>>, s) BY DEF In
  <2>. QED BY <2>2, <2>3
<1>16. /\ u4 \in Table /\ Kept(u4) /\ u4.waitingList = <<>> /\ u4.currentProcess \in Slot
       /\ \A s \in Slot : InUse(u4, s) => u4.pid[s] \in {InitPid, IdlePid}
       /\ \A s \in Slot : u4.status[s] # "RUNNING"
       /\ \E s \in Slot : u4.pid[s] = IdlePid /\ u4.status[s] = "BLOCKED"
  <2>1. \A s \in Slot : InUse(u3, s) => u3.pid[s] # 1 BY <1>10, <1>11, <1>13 DEF InUse
  <2>2. 1 \in Nat /\ CantPriorities - 1 \in Priority BY Sizes
  <2>3. PICK h : /\ u4 \in Table /\ Kept(u4) /\ u4.waitingList = u3.waitingList
                 /\ u4.currentProcess = u3.currentProcess /\ u4.pid[h] = 1
                 /\ h \in Slot /\ u4.status[h] = "BLOCKED"
                 /\ \A s \in Slot \ {h} : u4.status[s] = u3.status[s] /\ u4.pid[s] = u3.pid[s]
    BY <1>5, <1>13, <1>14, <1>15, <2>1, <2>2, AddKeeps DEF IdlePid
  <2>4. ASSUME NEW s \in Slot, InUse(u4, s) PROVE u4.pid[s] \in {InitPid, IdlePid}
    <3>1. CASE s = h BY <2>3, <3>1 DEF IdlePid
    <3>2. CASE s # h
      <4>1. u4.status[s] = u3.status[s] /\ u4.pid[s] = u3.pid[s] BY <2>3, <3>2
      <4>2. s = slot BY <1>10, <1>13, <2>4, <4>1 DEF InUse
      <4>. QED BY <1>11, <1>13, <4>1, <4>2 DEF InitPid
    <3>. QED BY <3>1, <3>2
  <2>5. \A s \in Slot : u4.status[s] # "RUNNING" BY <1>10, <1>13, <2>3
  <2>6. u4.pid[h] = IdlePid BY <2>3 DEF IdlePid
  <2>. QED BY <1>13, <2>3, <2>4, <2>5, <2>6
<1>17. /\ t \in Table /\ Kept(t) /\ Calm(u4, t)
       /\ \A s \in Slot : t.status[s] = IF s = getByPid(u4, IdlePid) THEN "READY" ELSE u4.status[s]
  <2>1. IdlePid \in Nat BY DEF IdlePid
  <2>. QED BY <1>6, <1>16, <2>1, ContinueKeeps
<1>18. Holders(u4, t) BY <1>16, <1>17, CalmHolders
<1>19. \E s \in Slot : t.pid[s] = IdlePid /\ t.status[s] = "READY"
  <2>1. PICK s \in Slot : u4.pid[s] = IdlePid /\ u4.status[s] = "BLOCKED" BY <1>16
  <2>2. ArrayKept(u4) /\ u4.status[s] \notin {"FREE", "DEAD"} BY <1>16, <2>1 DEF Kept
  <2>3. getByPid(u4, IdlePid) = s BY <1>16, <2>1, <2>2, GetByPidFinds
  <2>. QED BY <1>17, <2>1, <2>3 DEF Calm
<1>. QED BY <1>16, <1>17, <1>18, <1>19 DEF Calm, Holders

-----------------------------------------------------------------------------
(* The sleepers.                                                           *)

\* time is the sum of the times of the first sleepers.
AddsUp(u, n, time) ==
    time[0] = 0 /\ \A m \in 1 .. n : time[m] = time[m - 1] + u.waitingTicks[u.waitingList[m]]

NaturalTo(ticks, n) == \A j \in 1 .. n : ticks[j] \in Nat

LEMMA SumRuns ==
    ASSUME NEW n \in Nat, NEW ticks, NaturalTo(ticks, n)
    PROVE  \E g \in [0 .. n -> Steps] : g[0] = 0 /\ \A j \in 1 .. n : g[j] = g[j - 1] + ticks[j]
<1>. DEFINE f == [j \in 1 .. n |-> [x \in Steps |-> x + ticks[j]]]
<1>1. f \in [1 .. n -> [Steps -> Steps]] BY DEF Steps, NaturalTo
<1>2. \A j \in 1 .. n : \A x \in Steps : f[j][x] = x + ticks[j] OBVIOUS
<1>3. PICK v \in Steps : v = 0 BY DEF Steps
<1>4. PICK g \in [0 .. n -> Steps] : g[0] = v /\ \A j \in 1 .. n : g[j] = f[j][g[j - 1]]
  <2>. HIDE DEF f
  <2>. QED BY <1>1, LoopRuns
<1>5. \A j \in 1 .. n : j - 1 \in 0 .. n OBVIOUS
<1>6. \A j \in 1 .. n : g[j] = g[j - 1] + ticks[j] BY <1>2, <1>4, <1>5
<1>. QED BY <1>3, <1>4, <1>6

LEMMA PlusPositive ==
    ASSUME NEW a \in Nat, NEW b \in Nat, a > 0
    PROVE  a + b \in Nat /\ a + b > 0
OBVIOUS

LEMMA SplitDelay ==
    ASSUME NEW a \in Nat, NEW b \in Nat, NEW rest \in Nat
    PROVE  a + b = (a + rest) + (b - rest)
OBVIOUS

LEMMA TimeLoop ==
    ASSUME NEW u \in Table, NEW n \in Nat, n = Len(u.waitingList)
    PROVE  \E time \in [0 .. n -> Steps] : /\ AddsUp(u, n, time)
                                           /\ \A m \in 0 .. n : TimeOf(u, m) = time[m]
<1>1. PICK list \in Seq(Slot) : list = u.waitingList BY DEF Table
<1>2. PICK ticks \in [1 .. n -> Nat] : \A m \in 1 .. n : ticks[m] = u.waitingTicks[list[m]]
  <2>1. \A m \in 1 .. n : list[m] \in Slot BY <1>1
  <2>2. \A m \in 1 .. n : u.waitingTicks[list[m]] \in Nat BY <2>1 DEF Table
  <2>3. PICK x : x = [m \in 1 .. n |-> u.waitingTicks[list[m]]] OBVIOUS
  <2>4. x \in [1 .. n -> Nat] BY <2>2, <2>3
  <2>. QED BY <2>3, <2>4, Zenon
<1>. DEFINE size == Len(u.waitingList)
            time[m \in 0 .. size] ==
                IF m = 0 THEN 0 ELSE time[m - 1] + u.waitingTicks[u.waitingList[m]]
<1>3. \A m : TimeOf(u, m) = time[m] BY Zenon DEF TimeOf
<1>4. time = CHOOSE h : h = [m \in 0 .. size |-> IF m = 0 THEN 0
                                ELSE h[m - 1] + u.waitingTicks[u.waitingList[m]]]
  BY Zenon DEF time
<1>. HIDE DEF time
<1>5. PICK g \in [0 .. n -> Steps] :
         g[0] = 0 /\ \A j \in 1 .. n : g[j] = g[j - 1] + ticks[j]
  BY SumRuns DEF NaturalTo
<1>6. \A m \in 1 .. n : g[m] = g[m - 1] + u.waitingTicks[u.waitingList[m]]
  BY <1>1, <1>2, <1>5
<1>7. g = [m \in 0 .. n |-> IF m = 0 THEN 0 ELSE g[m - 1] + u.waitingTicks[u.waitingList[m]]]
  <2>1. \A m \in 0 .. n : m # 0 => m \in 1 .. n OBVIOUS
  <2>2. \A m \in 0 .. n : g[m] = IF m = 0 THEN 0 ELSE g[m - 1] + u.waitingTicks[u.waitingList[m]]
    BY <1>5, <1>6, <2>1, Zenon
  <2>. QED BY <2>2, Zenon
<1>8. time = [m \in 0 .. n |-> IF m = 0 THEN 0 ELSE time[m - 1] + u.waitingTicks[u.waitingList[m]]]
  BY <1>4, <1>7
<1>9. time[0] = 0 /\ \A m \in 1 .. n : time[m] = time[m - 1] + u.waitingTicks[u.waitingList[m]]
  <2>1. 0 \in 0 .. n /\ \A m \in 1 .. n : m \in 0 .. n /\ m # 0 OBVIOUS
  <2>. QED BY <1>8, <2>1, Zenon
<1>10. \A m \in 0 .. n : time[m] \in Steps
  <2>. DEFINE Good == {m \in 0 .. n : time[m] \in Steps}
  <2>1. 0 \in Good BY <1>9 DEF Steps
  <2>2. ASSUME NEW m \in 1 .. n, m - 1 \in Good PROVE m \in Good
    <3>1. time[m] = time[m - 1] + ticks[m] BY <1>1, <1>2, <1>9
    <3>2. ticks[m] \in Nat /\ m \in 0 .. n BY <1>2
    <3>. QED BY <2>2, <3>1, <3>2 DEF Steps
  <2>3. Good \in SUBSET (0 .. n) OBVIOUS
  <2>. HIDE DEF Good
  <2>4. Good = 0 .. n BY <2>1, <2>2, <2>3, RoundByRound
  <2>. QED BY <2>4 DEF Good
<1>11. time \in [0 .. n -> Steps] BY <1>8, <1>10
<1>12. AddsUp(u, n, time) BY <1>9, Zenon DEF AddsUp
<1>. QED BY <1>3, <1>11, <1>12, Zenon

\* There is no other sum.
LEMMA TimesAre ==
    ASSUME NEW u \in Table, NEW n \in Nat, n = Len(u.waitingList),
           NEW g, AddsUp(u, n, g)
    PROVE  \A m \in 0 .. n : TimeOf(u, m) = g[m]
<1>1. PICK time \in [0 .. n -> Steps] : /\ AddsUp(u, n, time)
                                        /\ \A m \in 0 .. n : TimeOf(u, m) = time[m]
  BY TimeLoop
<1>. DEFINE Good == {m \in 0 .. n : time[m] = g[m]}
<1>2. 0 \in Good BY <1>1 DEF AddsUp
<1>3. ASSUME NEW m \in 1 .. n, m - 1 \in Good PROVE m \in Good
  <2>1. m \in 0 .. n /\ time[m - 1] = g[m - 1] BY <1>3
  <2>2. /\ time[m] = time[m - 1] + u.waitingTicks[u.waitingList[m]]
        /\ g[m] = g[m - 1] + u.waitingTicks[u.waitingList[m]]
    BY <1>1, Zenon DEF AddsUp
  <2>. QED BY <2>1, <2>2
<1>4. Good \in SUBSET (0 .. n) OBVIOUS
<1>. HIDE DEF Good
<1>5. Good = 0 .. n BY <1>2, <1>3, <1>4, RoundByRound
<1>. QED BY <1>1, <1>5 DEF Good

\* enqueTicks: one sleeper more, with the time it asked for; the others'
\* times are what they were.
LEMMA EnqueKeeps ==
    ASSUME NEW u \in Table, NoTwice(u.waitingList), NEW slot \in Slot, ~In(u.waitingList, slot),
           NEW ticks \in Nat \ {0}
    PROVE  LET v == enqueTicks(u, slot, ticks) IN
              /\ v \in Table /\ NoTwice(v.waitingList)
              /\ v.pid = u.pid /\ v.status = u.status /\ v.indexes = u.indexes
              /\ v.freeList = u.freeList /\ v.currentProcess = u.currentProcess
              /\ v.priority = u.priority /\ v.nextInPriority = u.nextInPriority
              /\ v.priorities = u.priorities /\ v.stuck = u.stuck
              /\ \A s \in Slot : In(v.waitingList, s) <=> s = slot \/ In(u.waitingList, s)
              /\ \A k \in 1 .. Len(v.waitingList) :
                    \/ v.waitingList[k] = slot /\ TimeOf(v, k) = ticks
                    \/ \E m \in 1 .. Len(u.waitingList) :
                          v.waitingList[k] = u.waitingList[m] /\ TimeOf(v, k) = TimeOf(u, m)
<1>1. PICK list \in Seq(Slot) : list = u.waitingList BY DEF Table
<1>2. PICK n \in Nat : n = Len(list) BY <1>1
<1>3. PICK time \in [0 .. n -> Steps] : /\ AddsUp(u, n, time)
                                        /\ \A m \in 0 .. n : TimeOf(u, m) = time[m]
  BY <1>1, <1>2, TimeLoop
<1>4. /\ \A m \in 1 .. n : list[m] \in Slot /\ list[m] # slot
      /\ \A a, b \in 1 .. n : list[a] = list[b] => a = b
  <2>1. \A m \in 1 .. n : list[m] \in Slot BY <1>2
  <2>. QED BY <1>1, <1>2, <2>1 DEF NoTwice, In
<1>5. PICK wait \in [Slot -> Nat] : wait = u.waitingTicks BY DEF Table
<1>6. /\ time[0] = 0
      /\ \A m \in 1 .. n : time[m] = time[m - 1] + wait[list[m]] /\ wait[list[m]] \in Nat
  BY <1>1, <1>3, <1>4, <1>5 DEF AddsUp
<1>7. PICK e \in 0 .. n : /\ e = Earlier(u, ticks)
                          /\ e < n => ticks <= time[e + 1]
                          /\ time[e] < ticks
  <2>. DEFINE S == {k \in 0 .. n : k < n => ticks <= TimeOf(u, k + 1)}
  <2>1. \A k \in 0 .. n : k \in S <=> (k < n => ticks <= time[k + 1])
    <3>1. \A k \in 0 .. n : k < n => k + 1 \in 0 .. n OBVIOUS
    <3>. QED BY <1>3, <3>1
  <2>2. S \in SUBSET Nat /\ S # {} /\ S \subseteq 0 .. n
    <3>1. S \subseteq 0 .. n OBVIOUS
    <3>2. n \in S
      <4>1. n \in 0 .. n /\ ~(n < n) OBVIOUS
      <4>. HIDE DEF S
      <4>. QED BY <2>1, <4>1
    <3>3. 0 .. n \subseteq Nat OBVIOUS
    <3>. HIDE DEF S
    <3>. QED BY <3>1, <3>2, <3>3
  <2>3. Earlier(u, ticks) = Min(S) BY <1>1, <1>2, Zenon DEF Earlier
  <2>. HIDE DEF S
  <2>4. PICK e \in S : e = Min(S) /\ \A k \in S : e <= k BY <2>2, MinIsLeast
  <2>5. e \in 0 .. n /\ (e < n => ticks <= time[e + 1]) BY <2>1, <2>2, <2>4
  <2>6. time[e] < ticks
    <3>1. CASE e = 0 BY <1>6, <3>1
    <3>2. CASE e # 0
      <4>1. e - 1 \in 0 .. n /\ e - 1 < n /\ (e - 1) + 1 = e /\ ~(e <= e - 1) BY <2>5, <3>2
      <4>2. e - 1 \notin S BY <2>4, <4>1
      <4>3. ~(ticks <= time[e]) BY <2>1, <4>1, <4>2
      <4>4. time[e] \in Nat BY <2>5 DEF Steps
      <4>. QED BY <4>3, <4>4
    <3>. QED BY <3>1, <3>2
  <2>. QED BY <2>3, <2>4, <2>5, <2>6
<1>8. PICK rest \in Nat : rest = ticks - time[e] /\ ticks = time[e] + rest
  <2>1. time[e] \in Nat BY DEF Steps
  <2>2. ticks - time[e] \in Nat /\ ticks = time[e] + (ticks - time[e]) BY <1>7, <2>1
  <2>. QED BY <2>2
<1>9. rest = ticks - TimeOf(u, Earlier(u, ticks)) BY <1>3, <1>7, <1>8
<1>10. PICK late \in [Slot -> Nat] :
          late = [s \in Slot |->
                     IF s = slot THEN rest
                     ELSE IF e < n /\ s = list[e + 1] THEN wait[s] - rest ELSE wait[s]]
  <2>1. ASSUME NEW s \in Slot, e < n, s = list[e + 1] PROVE wait[s] - rest \in Nat
    <3>1. e + 1 \in 1 .. n /\ (e + 1) - 1 = e BY <2>1
    <3>2. time[e + 1] = time[e] + wait[s] /\ wait[s] \in Nat BY <1>6, <2>1, <3>1
    <3>3. time[e] \in Nat BY DEF Steps
    <3>4. ticks <= time[e] + wait[s] BY <1>7, <2>1, <3>2
    <3>5. PICK x \in Nat, y \in Nat : x = time[e] /\ y = wait[s] BY <3>2, <3>3
    <3>6. x + rest <= x + y BY <1>8, <3>4, <3>5
    <3>7. y - rest \in Nat BY <3>6
    <3>. QED BY <3>5, <3>7
  <2>. QED BY <2>1
<1>11. PICK list2 : list2 = InsertAt(list, e + 1, slot) OBVIOUS
<1>12. InsertedIs(list2, list, n, e + 1, slot)
  <2>1. e + 1 \in 1 .. n + 1 OBVIOUS
  <2>. QED BY <1>2, <1>11, <2>1, InsertAtIs, Zenon
<1>13. /\ list2 \in Seq(Slot) /\ Len(list2) = n + 1
       /\ \A a \in 1 .. n + 1 : list2[a] = IF a < e + 1 THEN list[a] ELSE IF a = e + 1 THEN slot
                                           ELSE list[a - 1]
  BY <1>12, Zenon DEF InsertedIs
<1>14. PICK v : v = [u EXCEPT !.waitingList = list2, !.waitingTicks = late] OBVIOUS
<1>15. v = enqueTicks(u, slot, ticks)
  <2>1. late = [s \in Slot |->
                   IF s = slot THEN ticks - TimeOf(u, Earlier(u, ticks))
                   ELSE IF Earlier(u, ticks) < Len(u.waitingList)
                           /\ s = u.waitingList[Earlier(u, ticks) + 1]
                        THEN u.waitingTicks[s] - (ticks - TimeOf(u, Earlier(u, ticks)))
                   ELSE u.waitingTicks[s]]
    BY <1>1, <1>2, <1>5, <1>7, <1>9, <1>10, Zenon
  <2>2. list2 = InsertAt(u.waitingList, Earlier(u, ticks) + 1, slot)
    BY <1>1, <1>7, <1>11, Zenon
  <2>. QED BY <1>14, <2>1, <2>2, Zenon DEF enqueTicks
<1>16. /\ v \in Table /\ v.waitingList = list2 /\ v.waitingTicks = late
       /\ v.pid = u.pid /\ v.status = u.status /\ v.indexes = u.indexes
       /\ v.freeList = u.freeList /\ v.currentProcess = u.currentProcess
       /\ v.priority = u.priority /\ v.nextInPriority = u.nextInPriority
       /\ v.priorities = u.priorities /\ v.stuck = u.stuck
  BY <1>13, <1>14 DEF Table
<1>17. /\ late[slot] = rest
       /\ \A m \in 1 .. n : late[list[m]] = IF m = e + 1 THEN wait[list[m]] - rest ELSE wait[list[m]]
  <2>1. ASSUME NEW m \in 1 .. n, e < n PROVE list[m] = list[e + 1] <=> m = e + 1
    <3>1. e + 1 \in 1 .. n BY <2>1
    <3>. QED BY <1>4, <3>1
  <2>2. \A m \in 1 .. n : m = e + 1 => e < n OBVIOUS
  <2>. QED BY <1>4, <1>10, <2>1, <2>2
<1>18. PICK g : g = [m \in 0 .. n + 1 |-> IF m <= e THEN time[m] ELSE IF m = e + 1 THEN ticks
                                          ELSE time[m - 1]]
  OBVIOUS
<1>19. ASSUME NEW m \in 1 .. n + 1 PROVE g[m] = g[m - 1] + late[list2[m]]
  <2>1. m \in 0 .. n + 1 /\ m - 1 \in 0 .. n + 1 OBVIOUS
  <2>2. CASE m <= e
    <3>1. m \in 1 .. n /\ m < e + 1 /\ m - 1 <= e /\ m # e + 1 BY <2>2
    <3>2. g[m] = time[m] /\ g[m - 1] = time[m - 1] BY <1>18, <2>1, <2>2, <3>1
    <3>3. list2[m] = list[m] /\ late[list[m]] = wait[list[m]] BY <1>13, <1>17, <3>1
    <3>. QED BY <1>6, <3>1, <3>2, <3>3
  <2>3. CASE m = e + 1
    <3>1. ~(m <= e) /\ m - 1 = e /\ ~(m < e + 1) BY <2>3
    <3>2. g[m] = ticks /\ g[m - 1] = time[e] BY <1>18, <2>1, <2>3, <3>1
    <3>3. list2[m] = slot BY <1>13, <2>3, <3>1
    <3>. QED BY <1>8, <1>17, <3>2, <3>3
  <2>4. CASE m = e + 2
    <3>1. /\ ~(m <= e) /\ m # e + 1 /\ m - 1 = e + 1 /\ ~(m < e + 1) /\ e + 1 \in 1 .. n
          /\ ~(m - 1 <= e) /\ (e + 1) - 1 = e
      BY <2>4
    <3>2. g[m] = time[e + 1] /\ g[m - 1] = ticks BY <1>18, <2>1, <3>1
    <3>3. list2[m] = list[e + 1] /\ late[list[e + 1]] = wait[list[e + 1]] - rest
      <4>1. list2[m] = list[m - 1] BY <1>13, <3>1
      <4>2. late[list[e + 1]] = wait[list[e + 1]] - rest BY <1>17, <3>1
      <4>. QED BY <3>1, <4>1, <4>2
    <3>4. time[e + 1] = time[e] + wait[list[e + 1]] /\ wait[list[e + 1]] \in Nat BY <1>6, <3>1
    <3>5. time[e] \in Nat BY DEF Steps
    <3>6. PICK a \in Nat, b \in Nat : a = time[e] /\ b = wait[list[e + 1]] BY <3>4, <3>5
    <3>7. a + b = ticks + (b - rest)
      <4>1. ticks = a + rest BY <1>8, <3>6, Zenon
      <4>2. a + b = (a + rest) + (b - rest) BY SplitDelay
      <4>. QED BY <4>1, <4>2, Zenon
    <3>8. g[m] = a + b BY <3>2, <3>4, <3>6, Zenon
    <3>9. late[list2[m]] = b - rest BY <3>3, <3>6, Zenon
    <3>. QED BY <3>2, <3>7, <3>8, <3>9, Zenon
  <2>5. CASE m > e + 2
    <3>1. /\ ~(m <= e) /\ m # e + 1 /\ ~(m < e + 1) /\ m - 1 \in 1 .. n /\ m - 1 # e + 1
          /\ ~(m - 1 <= e) /\ m - 2 = (m - 1) - 1
      BY <2>5
    <3>2. g[m] = time[m - 1] /\ g[m - 1] = time[(m - 1) - 1] BY <1>18, <2>1, <3>1
    <3>3. list2[m] = list[m - 1] /\ late[list[m - 1]] = wait[list[m - 1]]
      BY <1>13, <1>17, <3>1
    <3>. QED BY <1>6, <3>1, <3>2, <3>3
  <2>. QED BY <2>2, <2>3, <2>4, <2>5
<1>20. g[0] = 0 BY <1>6, <1>18
<1>21. \A m \in 0 .. n + 1 : TimeOf(v, m) = g[m]
  <2>1. AddsUp(v, n + 1, g) BY <1>16, <1>19, <1>20, Zenon DEF AddsUp
  <2>2. n + 1 \in Nat OBVIOUS
  <2>. QED BY <1>13, <1>16, <2>1, <2>2, TimesAre
<1>22. ASSUME NEW k \in 1 .. n + 1
       PROVE  \/ list2[k] = slot /\ TimeOf(v, k) = ticks
              \/ \E m \in 1 .. n : list2[k] = list[m] /\ TimeOf(v, k) = TimeOf(u, m)
  <2>1. k \in 0 .. n + 1 /\ TimeOf(v, k) = g[k] BY <1>21
  <2>2. CASE k <= e
    <3>1. k \in 1 .. n /\ k \in 0 .. n /\ k < e + 1 BY <2>2
    <3>2. list2[k] = list[k] /\ g[k] = time[k] BY <1>13, <1>18, <2>1, <2>2, <3>1
    <3>3. TimeOf(u, k) = time[k] BY <1>3, <3>1
    <3>. QED BY <2>1, <3>1, <3>2, <3>3
  <2>3. CASE k = e + 1
    <3>1. ~(k <= e) /\ ~(k < e + 1) BY <2>3
    <3>2. list2[k] = slot /\ g[k] = ticks BY <1>13, <1>18, <2>1, <2>3, <3>1
    <3>. QED BY <2>1, <3>2
  <2>4. CASE k > e + 1
    <3>1. k - 1 \in 1 .. n /\ k - 1 \in 0 .. n /\ ~(k <= e) /\ ~(k < e + 1) /\ k # e + 1 BY <2>4
    <3>2. list2[k] = list[k - 1] /\ g[k] = time[k - 1] BY <1>13, <1>18, <2>1, <3>1
    <3>3. TimeOf(u, k - 1) = time[k - 1] BY <1>3, <3>1
    <3>. QED BY <2>1, <3>1, <3>2, <3>3
  <2>. QED BY <2>2, <2>3, <2>4
<1>23. NoTwice(list2)
  <2>1. SUFFICES ASSUME NEW a \in 1 .. n + 1, NEW b \in 1 .. n + 1, list2[a] = list2[b]
                 PROVE  a = b
    BY <1>13 DEF NoTwice
  <2>. DEFINE from(x) == IF x < e + 1 THEN x ELSE x - 1
  <2>2. \A x \in 1 .. n + 1 : IF x = e + 1 THEN list2[x] = slot
                              ELSE from(x) \in 1 .. n /\ list2[x] = list[from(x)]
    <3>1. TAKE x \in 1 .. n + 1
    <3>2. CASE x < e + 1
      <4>1. x # e + 1 /\ x \in 1 .. n BY <3>2
      <4>. QED BY <1>13, <3>2, <4>1
    <3>3. CASE x = e + 1
      <4>1. ~(x < e + 1) BY <3>3
      <4>. QED BY <1>13, <3>3, <4>1
    <3>4. CASE x > e + 1
      <4>1. x # e + 1 /\ ~(x < e + 1) /\ x - 1 \in 1 .. n BY <3>4
      <4>. QED BY <1>13, <4>1
    <3>. QED BY <3>2, <3>3, <3>4
  <2>3. a = e + 1 <=> b = e + 1
    <3>1. \A x \in 1 .. n + 1 : x = e + 1 <=> list2[x] = slot
      <4>. HIDE DEF from
      <4>. QED BY <1>4, <2>2
    <3>. QED BY <2>1, <3>1
  <2>4. CASE a # e + 1
    <3>1. from(a) = from(b)
      <4>. HIDE DEF from
      <4>. QED BY <1>4, <2>1, <2>2, <2>3, <2>4
    <3>. QED BY <2>1, <2>3, <2>4, <3>1
  <2>. QED BY <2>3, <2>4
<1>24. ASSUME NEW s \in Slot PROVE In(list2, s) <=> s = slot \/ In(list, s)
  <2>1. ASSUME s = slot PROVE In(list2, s)
    <3>1. e + 1 \in 1 .. n + 1 /\ ~(e + 1 < e + 1) OBVIOUS
    <3>2. list2[e + 1] = slot BY <1>13, <3>1
    <3>. QED BY <1>13, <2>1, <3>1, <3>2 DEF In
  <2>2. ASSUME In(list, s) PROVE In(list2, s)
    <3>1. PICK a \in 1 .. n : list[a] = s BY <1>2, <2>2 DEF In
    <3>2. CASE a < e + 1
      <4>1. a \in 1 .. n + 1 /\ list2[a] = s BY <1>13, <3>1, <3>2, SMTT(30)
      <4>. QED BY <1>13, <4>1 DEF In
    <3>3. CASE ~(a < e + 1)
      <4>1. PICK b \in 1 .. n + 1 : b = a + 1 OBVIOUS
      <4>2. ~(b < e + 1) /\ b # e + 1 /\ b - 1 = a BY <3>3, <4>1
      <4>3. list2[b] = list[b - 1] BY <1>13, <4>2
      <4>. QED BY <1>13, <3>1, <4>2, <4>3 DEF In
    <3>. QED BY <3>2, <3>3
  <2>3. ASSUME In(list2, s), s # slot PROVE In(list, s)
    <3>1. PICK a \in 1 .. n + 1 : list2[a] = s BY <1>13, <2>3 DEF In
    <3>2. a # e + 1
      <4>1. ~(e + 1 < e + 1) OBVIOUS
      <4>. QED BY <1>13, <2>3, <3>1, <4>1
    <3>3. CASE a < e + 1
      <4>1. a \in 1 .. n /\ list[a] = s BY <1>13, <3>1, <3>3
      <4>. QED BY <1>2, <4>1 DEF In
    <3>4. CASE ~(a < e + 1)
      <4>1. a - 1 \in 1 .. n /\ ~(a < e + 1) BY <3>2, <3>4
      <4>2. list2[a] = list[a - 1] BY <1>13, <3>2, <4>1
      <4>. QED BY <1>2, <3>1, <4>1, <4>2 DEF In
    <3>. QED BY <3>3, <3>4
  <2>. QED BY <2>1, <2>2, <2>3
<1>. QED BY <1>1, <1>2, <1>13, <1>15, <1>16, <1>22, <1>23, <1>24

\* One process after the other is made ready.
WokenIs(w, v, over, pids) ==
    /\ w[0] = v /\ \A j \in 1 .. over : w[j] = schedContinue(w[j - 1], pids[j])
    /\ Kept(w[over]) /\ Calm(v, w[over])
Wakes(v, over, pids) == \E w \in [0 .. over -> Table] : WokenIs(w, v, over, pids)

LEMMA WakeUps ==
    ASSUME NEW v \in Table, Kept(v), NEW over \in Nat, NEW pids, NaturalTo(pids, over)
    PROVE  Wakes(v, over, pids)
<1>. DEFINE f == [j \in 1 .. over |-> [u \in Table |-> schedContinue(u, pids[j])]]
<1>1. f \in [1 .. over -> [Table -> Table]]
  <2>1. \A j \in 1 .. over : \A u \in Table : schedContinue(u, pids[j]) \in Table
    BY ContinueTyped
  <2>. QED BY <2>1, Zenon
<1>2. \A j \in 1 .. over : \A u \in Table : f[j][u] = schedContinue(u, pids[j]) BY Zenon
<1>3. PICK w \in [0 .. over -> Table] : w[0] = v /\ \A j \in 1 .. over : w[j] = f[j][w[j - 1]]
  <2>. HIDE DEF f
  <2>. QED BY <1>1, LoopRuns
<1>. HIDE DEF f
<1>4. \A j \in 1 .. over : w[j] = schedContinue(w[j - 1], pids[j])
  <2>1. \A j \in 1 .. over : w[j - 1] \in Table
    <3>1. \A j \in 1 .. over : j - 1 \in 0 .. over OBVIOUS
    <3>. QED BY <3>1
  <2>. QED BY <1>2, <1>3, <2>1
<1>. DEFINE Good == {j \in 0 .. over : Kept(w[j]) /\ Calm(v, w[j])}
<1>5. 0 \in Good
  <2>1. 0 \in 0 .. over OBVIOUS
  <2>. QED BY <1>3, <2>1 DEF Calm
<1>6. ASSUME NEW j \in 1 .. over, j - 1 \in Good PROVE j \in Good
  <2>1. PICK u \in Table : u = w[j - 1] /\ Kept(u) /\ Calm(v, u)
    <3>1. j - 1 \in 0 .. over OBVIOUS
    <3>. QED BY <1>6, <3>1
  <2>2. PICK x : x = schedContinue(u, pids[j]) OBVIOUS
  <2>3. pids[j] \in Nat BY DEF NaturalTo
  <2>4. Kept(x) /\ Calm(u, x) BY <2>1, <2>2, <2>3, ContinueKeeps
  <2>5. w[j] = x BY <1>4, <2>1, <2>2, Zenon
  <2>6. Calm(v, x) BY <2>1, <2>4 DEF Calm
  <2>7. j \in 0 .. over OBVIOUS
  <2>. QED BY <2>4, <2>5, <2>6, <2>7
<1>7. over \in Good
  <2>1. Good \in SUBSET (0 .. over) /\ over \in 0 .. over OBVIOUS
  <2>. HIDE DEF Good
  <2>2. Good = 0 .. over BY <1>5, <1>6, <2>1, RoundByRound
  <2>. QED BY <2>1, <2>2
<1>8. WokenIs(w, v, over, pids) BY <1>3, <1>4, <1>7 DEF WokenIs
<1>. QED BY <1>8 DEF Wakes

\* x is u after a tick, with the first n sleepers, who have pids, off the list
\* and still to be made ready.
TickedTo(u, x, n, pids) ==
    /\ Kept(x) /\ SameLinks(u, x) /\ x.status = u.status
    /\ x.pid = u.pid /\ x.currentProcess = u.currentProcess
    /\ n <= Len(u.waitingList) /\ Len(x.waitingList) = Len(u.waitingList) - n
    /\ \A k \in 1 .. Len(x.waitingList) : x.waitingList[k] = u.waitingList[k + n]
    /\ \A j \in 1 .. n : pids[j] = u.pid[u.waitingList[j]]

\* v is u after a tick.
Ticked(u, v) ==
    \/ u.waitingList = <<>> /\ v = u
    \/ \E pids : \E x \in Table, n \in Nat :
          /\ TickedTo(u, x, n, pids)
          /\ \E w \in [0 .. n -> Table] : WokenIs(w, x, n, pids) /\ v = w[n]

\* schedTicks: the sleepers whose time is over are off the list; the others
\* have a tick less to sleep, and some still.
LEMMA TicksKeeps ==
    ASSUME NEW u \in Table, Kept(u), NoTwice(u.waitingList),
           \A m \in 1 .. Len(u.waitingList) : TimeOf(u, m) > 0
    PROVE  LET v == schedTicks(u) IN
              /\ v \in Table /\ Kept(v) /\ v.currentProcess = u.currentProcess
              /\ NoTwice(v.waitingList) /\ Holders(u, v) /\ Ticked(u, v)
              /\ \A k \in 1 .. Len(v.waitingList) : \E m \in 1 .. Len(u.waitingList) :
                    /\ v.waitingList[k] = u.waitingList[m]
                    /\ TimeOf(v, k) = TimeOf(u, m) - 1 /\ TimeOf(v, k) > 0
<1>1. CASE u.waitingList = <<>>
  <2>1. schedTicks(u) = u BY <1>1, Zenon DEF schedTicks
  <2>2. \A k \in 1 .. Len(<<>>) : FALSE OBVIOUS
  <2>. QED BY <1>1, <2>1, <2>2 DEF Holders, Ticked
<1>2. CASE u.waitingList # <<>>
  <2>1. PICK list \in Seq(Slot) : list = u.waitingList BY DEF Table
  <2>2. PICK n \in Nat : n = Len(list) /\ n > 0 BY <1>2, <2>1, EmptySeq
  <2>3. PICK time \in [0 .. n -> Steps] : /\ AddsUp(u, n, time)
                                          /\ \A m \in 0 .. n : TimeOf(u, m) = time[m]
    BY <2>1, <2>2, TimeLoop
  <2>4. \A m \in 1 .. n : list[m] \in Slot BY <2>2
  <2>5. \A a, b \in 1 .. n : list[a] = list[b] => a = b BY <2>1, <2>2 DEF NoTwice
  <2>6. PICK wait \in [Slot -> Nat] : wait = u.waitingTicks BY DEF Table
  <2>7. /\ time[0] = 0
        /\ \A m \in 1 .. n : /\ time[m] = time[m - 1] + wait[list[m]] /\ wait[list[m]] \in Nat
                             /\ time[m] \in Nat /\ time[m] > 0
    <3>1. \A m \in 1 .. n : wait[list[m]] \in Nat BY <2>4
    <3>2. \A m \in 1 .. n : m \in 0 .. n OBVIOUS
    <3>3. \A m \in 1 .. n : time[m] \in Nat BY <3>2 DEF Steps
    <3>4. \A m \in 1 .. n : time[m] > 0 BY <2>1, <2>2, <2>3, <3>2
    <3>. QED BY <2>1, <2>3, <2>6, <3>1, <3>3, <3>4 DEF AddsUp
  <2>8. PICK first \in Slot : first = list[1] /\ first = u.waitingList[1]
    <3>1. 1 \in 1 .. n BY <2>2
    <3>. QED BY <2>1, <2>4, <3>1
  <2>9. time[1] = wait[first] /\ wait[first] - 1 \in Nat
    <3>1. PICK m \in 1 .. n : m = 1 /\ m - 1 = 0 BY <2>2
    <3>2. time[m] = time[m - 1] + wait[list[m]] /\ wait[list[m]] \in Nat /\ time[m] > 0
      BY <2>7
    <3>3. time[m - 1] = 0 BY <2>7, <3>1
    <3>4. list[m] = first BY <2>8, <3>1
    <3>5. PICK x \in Nat : x = wait[first] BY <3>2, <3>4
    <3>6. time[m] = 0 + x BY <3>2, <3>3, <3>4, <3>5
    <3>7. 0 + x = x OBVIOUS
    <3>8. time[m] = x BY <3>6, <3>7, Zenon
    <3>9. x > 0 BY <3>2, <3>8
    <3>10. x - 1 \in Nat BY <3>9
    <3>11. time[1] = x BY <3>1, <3>8, Zenon
    <3>. QED BY <3>5, <3>10, <3>11, Zenon
  <2>10. PICK less \in [Slot -> Nat] : less = [wait EXCEPT ![first] = wait[first] - 1]
    BY <2>9
  <2>11. /\ less[first] = time[1] - 1
         /\ \A m \in 1 .. n : m # 1 => less[list[m]] = wait[list[m]]
    <3>1. 1 \in 1 .. n BY <2>2
    <3>. QED BY <2>4, <2>5, <2>8, <2>9, <2>10, <3>1
  <2>12. PICK over \in 0 .. n :
            /\ over = Min({k \in 0 .. n : k < n => less[list[k + 1]] # 0})
            /\ over < n => less[list[over + 1]] # 0
            /\ \A k \in 1 .. over : less[list[k]] = 0
    <3>. DEFINE S == {k \in 0 .. n : k < n => less[list[k + 1]] # 0}
    <3>1. S \in SUBSET Nat /\ S # {} /\ S \subseteq 0 .. n
      <4>1. S \subseteq 0 .. n OBVIOUS
      <4>2. n \in S
        <5>1. n \in 0 .. n /\ ~(n < n) OBVIOUS
        <5>. QED BY <5>1
      <4>3. 0 .. n \subseteq Nat OBVIOUS
      <4>. HIDE DEF S
      <4>. QED BY <4>1, <4>2, <4>3
    <3>2. \A k \in 0 .. n : k \in S <=> (k < n => less[list[k + 1]] # 0) OBVIOUS
    <3>. HIDE DEF S
    <3>3. PICK over \in S : over = Min(S) /\ \A k \in S : over <= k BY <3>1, MinIsLeast
    <3>4. over \in 0 .. n BY <3>1
    <3>5. ASSUME NEW k \in 1 .. over PROVE less[list[k]] = 0
      <4>1. k - 1 \in 0 .. n /\ ~(over <= k - 1) /\ (k - 1) + 1 = k BY <3>4
      <4>2. k - 1 \notin S BY <3>3, <4>1
      <4>. QED BY <3>2, <4>1, <4>2
    <3>. QED BY <3>2, <3>3, <3>4, <3>5 DEF S
  <2>13. PICK rest : rest = SubSeq(list, over + 1, n) OBVIOUS
  <2>14. PICK size \in Nat : size = n - over
    <3>1. n - over \in Nat OBVIOUS
    <3>. QED BY <3>1
  <2>15. PieceOf(rest, list, over, size)
    <3>1. PICK a \in Nat : a = over + 1 OBVIOUS
    <3>2. /\ a \in 1 .. Len(list) + 1 /\ n \in a - 1 .. Len(list) /\ over \in Nat /\ over = a - 1
      BY <2>2, <3>1
    <3>3. PieceOf(SubSeq(list, a, n), list, over, size) BY <2>14, <3>2, Piece, Zenon
    <3>. QED BY <2>13, <3>1, <3>3, Zenon
  <2>16. /\ rest \in Seq(Slot) /\ Len(rest) = size
         /\ \A k \in 1 .. size : rest[k] = list[k + over] /\ k + over \in 1 .. n
    <3>1. \A k \in 1 .. size : k + over \in 1 .. n BY <2>14
    <3>. QED BY <2>15, <3>1, Zenon DEF PieceOf
  <2>17. PICK v : v = [u EXCEPT !.waitingTicks = less, !.waitingList = rest] OBVIOUS
  <2>18. /\ v \in Table /\ v.waitingTicks = less /\ v.waitingList = rest /\ v.pid = u.pid
         /\ v.status = u.status /\ v.indexes = u.indexes /\ v.freeList = u.freeList
         /\ v.currentProcess = u.currentProcess /\ SameLinks(u, v)
    BY <2>16, <2>17 DEF Table, SameLinks
  <2>19. Kept(v)
    <3>1. ArrayKept(v) BY <2>18, Zenon DEF Kept, ArrayKept, SortedTo
    <3>2. StackKept(v) BY <2>18, Zenon DEF Kept, StackKept
    <3>3. DeadKept(v) BY <2>18, Zenon DEF Kept, DeadKept
    <3>. QED BY <3>1, <3>2, <3>3 DEF Kept
  <2>20. PICK pids : pids = [j \in 1 .. over |-> u.pid[list[j]]] OBVIOUS
  <2>21. NaturalTo(pids, over) /\ \A j \in 1 .. over : pids[j] = u.pid[list[j]]
    <3>1. \A j \in 1 .. over : j \in 1 .. n OBVIOUS
    <3>2. \A j \in 1 .. over : u.pid[list[j]] \in Nat BY <2>4, <3>1 DEF Table
    <3>. QED BY <2>20, <3>2 DEF NaturalTo
  <2>22. PICK w \in [0 .. over -> Table] :
            /\ w[0] = v /\ \A j \in 1 .. over : w[j] = schedContinue(w[j - 1], pids[j])
            /\ Kept(w[over]) /\ Calm(v, w[over]) /\ WokenIs(w, v, over, pids)
    <3>1. over \in Nat /\ v \in Table /\ NaturalTo(pids, over) BY <2>18, <2>21
    <3>2. Wakes(v, over, pids) BY <2>19, <3>1, WakeUps, Zenon
    <3>3. PICK w \in [0 .. over -> Table] : WokenIs(w, v, over, pids) BY <3>2, Zenon DEF Wakes
    <3>. QED BY <3>3, Zenon DEF WokenIs
  <2>23. PICK x \in Table : x = w[over]
    <3>1. over \in 0 .. over OBVIOUS
    <3>. QED BY <3>1
  <2>24. schedTicks(u) = x
    <3>. DEFINE list0 == u.waitingList
                v0 == [u EXCEPT !.waitingTicks[list0[1]] = u.waitingTicks[list0[1]] - 1]
                over0 == Min({k \in 0 .. Len(list0) :
                                k < Len(list0) => v0.waitingTicks[list0[k + 1]] # 0})
                woken[k \in 0 .. over0] ==
                    IF k = 0 THEN [v0 EXCEPT !.waitingList = SubSeq(list0, over0 + 1, Len(list0))]
                    ELSE schedContinue(woken[k - 1], u.pid[list0[k]])
    <3>1. schedTicks(u) = woken[over0] BY <1>2, Zenon DEF schedTicks
    <3>2. woken = CHOOSE h : h = [k \in 0 .. over0 |->
             IF k = 0 THEN [v0 EXCEPT !.waitingList = SubSeq(list0, over0 + 1, Len(list0))]
             ELSE schedContinue(h[k - 1], u.pid[list0[k]])]
      BY Zenon DEF woken
    <3>. HIDE DEF woken
    <3>3. v0 = [u EXCEPT !.waitingTicks = less] /\ v0.waitingTicks = less
      <4>1. v0 = [u EXCEPT !.waitingTicks = less] BY <2>1, <2>6, <2>8, <2>10, Zenon
      <4>2. [u EXCEPT !.waitingTicks = less].waitingTicks = less BY DEF Table
      <4>. QED BY <4>1, <4>2, Zenon
    <3>. HIDE DEF v0
    <3>4. over0 = over BY <2>1, <2>2, <2>12, <3>3, Zenon
    <3>. HIDE DEF over0
    <3>5. v = [v0 EXCEPT !.waitingList = SubSeq(list0, over0 + 1, Len(list0))]
      <4>1. v = [v0 EXCEPT !.waitingList = rest] BY <2>17, <3>3 DEF Table
      <4>. QED BY <2>1, <2>2, <2>13, <3>4, <4>1, Zenon
    <3>6. w = [k \in 0 .. over |-> IF k = 0 THEN v ELSE schedContinue(w[k - 1], u.pid[list0[k]])]
      <4>1. \A k \in 0 .. over : k # 0 => k \in 1 .. over OBVIOUS
      <4>2. \A k \in 0 .. over :
               w[k] = IF k = 0 THEN v ELSE schedContinue(w[k - 1], u.pid[list0[k]])
        BY <2>1, <2>21, <2>22, <4>1, Zenon
      <4>. QED BY <4>2, Zenon
    <3>7. woken = [k \in 0 .. over |->
                     IF k = 0 THEN v ELSE schedContinue(woken[k - 1], u.pid[list0[k]])]
      <4>. HIDE DEF list0
      <4>1. woken = CHOOSE h : h = [k \in 0 .. over |->
                       IF k = 0 THEN v ELSE schedContinue(h[k - 1], u.pid[list0[k]])]
        BY <3>2, <3>4, <3>5, Zenon
      <4>. QED BY <3>6, <4>1, Zenon
    <3>8. woken[over] = w[over]
      <4>. HIDE DEF list0
      <4>. DEFINE Good == {k \in 0 .. over : woken[k] = w[k]}
      <4>1. /\ woken[0] = v
            /\ \A k \in 1 .. over : woken[k] = schedContinue(woken[k - 1], u.pid[list0[k]])
        <5>1. 0 \in 0 .. over /\ \A k \in 1 .. over : k \in 0 .. over /\ k # 0 OBVIOUS
        <5>. QED BY <3>7, <5>1, Zenon
      <4>2. \A k \in 1 .. over : w[k] = schedContinue(w[k - 1], u.pid[list0[k]])
        BY <2>1, <2>21, <2>22, Zenon DEF list0
      <4>3. 0 \in Good
        <5>1. 0 \in 0 .. over OBVIOUS
        <5>. QED BY <2>22, <4>1, <5>1, Zenon
      <4>4. ASSUME NEW k \in 1 .. over, k - 1 \in Good PROVE k \in Good
        <5>1. k \in 0 .. over OBVIOUS
        <5>2. woken[k - 1] = w[k - 1] BY <4>4
        <5>. QED BY <4>1, <4>2, <5>1, <5>2, Zenon
      <4>5. Good \in SUBSET (0 .. over) /\ over \in Nat /\ over \in 0 .. over OBVIOUS
      <4>. HIDE DEF Good
      <4>6. Good = 0 .. over BY <4>3, <4>4, <4>5, RoundByRound
      <4>. QED BY <4>5, <4>6 DEF Good
    <3>. QED BY <2>23, <3>1, <3>4, <3>8, Zenon
  <2>25. /\ x.waitingList = rest /\ x.waitingTicks = less /\ Kept(x)
         /\ x.currentProcess = u.currentProcess
    BY <2>18, <2>22, <2>23 DEF Calm
  <2>26. over # 0 => time[over] = 1
    <3>. DEFINE Good == {j \in 0 .. over : j = 0 \/ time[j] = 1}
    <3>1. 0 \in Good OBVIOUS
    <3>2. ASSUME NEW j \in 1 .. over, j - 1 \in Good PROVE j \in Good
      <4>1. j \in 1 .. n /\ j \in 0 .. over /\ j - 1 \in 0 .. over OBVIOUS
      <4>2. less[list[j]] = 0 BY <2>12
      <4>3. CASE j = 1
        <5>1. list[j] = first BY <2>8, <4>3
        <5>2. time[j] \in Nat /\ time[j] - 1 = 0 BY <2>7, <2>11, <4>1, <4>2, <4>3, <5>1
        <5>. QED BY <4>1, <5>2
      <4>4. CASE j # 1
        <5>1. time[j - 1] = 1 BY <3>2, <4>4
        <5>2. wait[list[j]] = 0 BY <2>11, <4>1, <4>2, <4>4
        <5>. QED BY <2>7, <4>1, <5>1, <5>2
      <4>. QED BY <4>3, <4>4
    <3>3. Good \in SUBSET (0 .. over) /\ over \in Nat /\ over \in 0 .. over OBVIOUS
    <3>. HIDE DEF Good
    <3>4. Good = 0 .. over BY <3>1, <3>2, <3>3, RoundByRound
    <3>. QED BY <3>3, <3>4 DEF Good
  <2>27. PICK g : g = [m \in 0 .. size |-> IF m = 0 THEN 0 ELSE time[m + over] - 1] OBVIOUS
  <2>28. g[0] = 0 /\ \A m \in 1 .. size : g[m] = time[m + over] - 1 BY <2>27
  <2>29. ASSUME NEW m \in 1 .. size PROVE g[m] = g[m - 1] + less[rest[m]]
    <3>1. m + over \in 1 .. n /\ rest[m] = list[m + over] BY <2>16
    <3>2. time[m + over] = time[(m + over) - 1] + wait[list[m + over]]
          /\ wait[list[m + over]] \in Nat
      BY <2>7, <3>1
    <3>3. CASE m = 1 /\ over = 0
      <4>1. m + over = 1 /\ m - 1 = 0 BY <3>3
      <4>2. rest[m] = first BY <2>8, <3>1, <4>1
      <4>3. g[m] = time[1] - 1 /\ g[m - 1] = 0 BY <2>28, <4>1
      <4>4. time[1] \in Nat BY <2>7, <3>1, <4>1
      <4>. QED BY <2>11, <4>2, <4>3, <4>4
    <3>4. CASE m = 1 /\ over # 0
      <4>1. m + over # 1 /\ m - 1 = 0 /\ (m + over) - 1 = over BY <3>4
      <4>2. less[list[m + over]] = wait[list[m + over]] BY <2>11, <3>1, <4>1
      <4>. QED BY <2>26, <2>28, <3>1, <3>2, <3>4, <4>1, <4>2
    <3>5. CASE m # 1
      <4>1. m + over # 1 /\ m - 1 \in 1 .. size /\ (m + over) - 1 = (m - 1) + over BY <3>5
      <4>2. less[list[m + over]] = wait[list[m + over]] BY <2>11, <3>1, <4>1
      <4>3. g[m] = time[m + over] - 1 /\ g[m - 1] = time[(m - 1) + over] - 1 BY <2>28, <4>1
      <4>4. (m - 1) + over \in 1 .. n BY <2>16, <4>1
      <4>5. time[(m - 1) + over] \in Nat BY <2>7, <4>4
      <4>6. PICK a \in Nat, b \in Nat : a = time[(m - 1) + over] /\ b = wait[list[m + over]]
        BY <3>2, <4>5
      <4>7. time[m + over] = a + b BY <3>2, <4>1, <4>6
      <4>8. less[rest[m]] = b BY <3>1, <4>2, <4>6
      <4>9. (a + b) - 1 = (a - 1) + b OBVIOUS
      <4>. QED BY <4>3, <4>6, <4>7, <4>8, <4>9
    <3>. QED BY <3>3, <3>4, <3>5
  <2>30. \A m \in 0 .. size : TimeOf(x, m) = g[m]
    <3>1. AddsUp(x, size, g) BY <2>25, <2>28, <2>29, Zenon DEF AddsUp
    <3>. QED BY <2>16, <2>25, <3>1, TimesAre
  <2>31. \A m \in 1 .. size : g[m] > 0
    <3>. DEFINE Good == {m \in 0 .. size : m = 0 \/ (g[m] \in Nat /\ g[m] > 0)}
    <3>1. 0 \in Good OBVIOUS
    <3>2. ASSUME NEW m \in 1 .. size, m - 1 \in Good PROVE m \in Good
      <4>1. m \in 0 .. size /\ m + over \in 1 .. n /\ rest[m] = list[m + over] BY <2>16
      <4>2. list[m + over] \in Slot BY <2>4, <4>1
      <4>3. less[rest[m]] \in Nat BY <4>1, <4>2
      <4>4. CASE m = 1
        <5>1. m - 1 = 0 /\ m + over = over + 1 /\ over < n BY <2>14, <4>4
        <5>2. less[rest[m]] # 0 BY <2>12, <4>1, <5>1
        <5>3. g[m] = less[rest[m]] BY <2>28, <2>29, <4>3, <5>1
        <5>. QED BY <4>1, <4>3, <5>2, <5>3
      <4>5. CASE m # 1
        <5>1. g[m - 1] \in Nat /\ g[m - 1] > 0 BY <3>2, <4>5
        <5>2. g[m] = g[m - 1] + less[rest[m]] BY <2>29
        <5>3. PICK a \in Nat, b \in Nat : a = g[m - 1] /\ b = less[rest[m]] BY <4>3, <5>1
        <5>4. a > 0 BY <5>1, <5>3
        <5>5. a + b \in Nat /\ a + b > 0 BY <5>4, PlusPositive, Zenon
        <5>. QED BY <4>1, <5>2, <5>3, <5>5
      <4>. QED BY <4>4, <4>5
    <3>3. Good \in SUBSET (0 .. size) OBVIOUS
    <3>. HIDE DEF Good
    <3>4. Good = 0 .. size BY <3>1, <3>2, <3>3, RoundByRound
    <3>5. \A m \in 1 .. size : m \in 0 .. size /\ m # 0 OBVIOUS
    <3>. QED BY <3>4, <3>5 DEF Good
  <2>32. ASSUME NEW k \in 1 .. size
         PROVE  \E m \in 1 .. n : /\ rest[k] = list[m]
                                  /\ TimeOf(x, k) = TimeOf(u, m) - 1 /\ TimeOf(x, k) > 0
    <3>1. k + over \in 1 .. n /\ rest[k] = list[k + over] BY <2>16
    <3>2. k \in 0 .. size /\ k + over \in 0 .. n BY <3>1
    <3>3. TimeOf(x, k) = g[k] /\ TimeOf(u, k + over) = time[k + over] BY <2>3, <2>30, <3>2
    <3>. QED BY <2>28, <2>31, <3>1, <3>3
  <2>33. NoTwice(rest)
    <3>1. SUFFICES ASSUME NEW a \in 1 .. size, NEW b \in 1 .. size, rest[a] = rest[b] PROVE a = b
      BY <2>16 DEF NoTwice
    <3>2. a + over = b + over BY <2>5, <2>16, <3>1
    <3>. QED BY <3>2
  <2>34. Holders(u, x)
    <3>1. Calm(v, x) BY <2>22, <2>23
    <3>2. Holders(v, x) BY <2>19, <2>25, <3>1, CalmHolders
    <3>3. Holders(u, v) BY <2>18 DEF Holders, InUse
    <3>. QED BY <3>2, <3>3, HoldersTwice
  <2>35. Ticked(u, x)
    <3>1. TickedTo(u, v, over, pids)
      <4>1. over <= Len(u.waitingList) /\ Len(v.waitingList) = Len(u.waitingList) - over
        BY <2>1, <2>2, <2>14, <2>16, <2>18
      <4>2. \A k \in 1 .. Len(v.waitingList) : v.waitingList[k] = u.waitingList[k + over]
        BY <2>1, <2>16, <2>18
      <4>3. \A j \in 1 .. over : pids[j] = u.pid[u.waitingList[j]] BY <2>1, <2>21
      <4>4. SameLinks(u, v) /\ v.status = u.status /\ v.pid = u.pid
            /\ v.currentProcess = u.currentProcess
        BY <2>18
      <4>. QED BY <2>19, <4>1, <4>2, <4>3, <4>4, Zenon DEF TickedTo
    <3>2. over \in Nat /\ v \in Table BY <2>18
    <3>. QED BY <2>22, <2>23, <3>1, <3>2 DEF Ticked
  <2>. QED BY <2>1, <2>2, <2>16, <2>24, <2>25, <2>32, <2>33, <2>34, <2>35
<1>. QED BY <1>1, <1>2

\* The list has no slot twice, and each sleeper's time is what d says.
OnTime(u, d) ==
    /\ NoTwice(u.waitingList)
    /\ \A n \in 1 .. Len(u.waitingList) :
          TimeOf(u, n) = d[u.waitingList[n]] /\ d[u.waitingList[n]] > 0

LEMMA SameTimes ==
    ASSUME NEW u \in Table, NEW v \in Table, v.waitingList = u.waitingList,
           \A s \in Slot : In(u.waitingList, s) => v.waitingTicks[s] = u.waitingTicks[s]
    PROVE  \A m \in 1 .. Len(u.waitingList) : TimeOf(v, m) = TimeOf(u, m)
<1>1. PICK list \in Seq(Slot) : list = u.waitingList BY DEF Table
<1>2. PICK n \in Nat : n = Len(list) BY <1>1
<1>3. PICK time \in [0 .. n -> Steps] : /\ AddsUp(u, n, time)
                                        /\ \A m \in 0 .. n : TimeOf(u, m) = time[m]
  BY <1>1, <1>2, TimeLoop
<1>4. \A m \in 1 .. n : v.waitingTicks[list[m]] = u.waitingTicks[list[m]]
  <2>1. \A m \in 1 .. n : list[m] \in Slot /\ In(list, list[m]) BY <1>2 DEF In
  <2>. QED BY <1>1, <2>1
<1>5. AddsUp(v, n, time)
  <2>1. time[0] = 0 BY <1>3, Zenon DEF AddsUp
  <2>2. \A m \in 1 .. n : time[m] = time[m - 1] + u.waitingTicks[list[m]]
    BY <1>1, <1>3, Zenon DEF AddsUp
  <2>3. v.waitingList = list BY <1>1, Zenon
  <2>4. \A m \in 1 .. n : time[m] = time[m - 1] + v.waitingTicks[v.waitingList[m]]
    BY <1>4, <2>2, <2>3, Zenon
  <2>. QED BY <2>1, <2>4, Zenon DEF AddsUp
<1>6. n = Len(v.waitingList) BY <1>1, <1>2, Zenon
<1>7. \A m \in 0 .. n : TimeOf(v, m) = time[m] BY <1>5, <1>6, TimesAre, Zenon
<1>8. \A m \in 1 .. n : m \in 0 .. n OBVIOUS
<1>. QED BY <1>1, <1>2, <1>3, <1>7, <1>8, Zenon

LEMMA OnTimeStays ==
    ASSUME NEW u \in Table, NEW v \in Table, v.waitingList = u.waitingList,
           NEW d, NEW e, OnTime(u, d),
           \A s \in Slot : In(u.waitingList, s) => /\ v.waitingTicks[s] = u.waitingTicks[s]
                                                   /\ e[s] = d[s]
    PROVE  OnTime(v, e)
<1>1. \A m \in 1 .. Len(u.waitingList) : TimeOf(v, m) = TimeOf(u, m) BY SameTimes
<1>2. \A m \in 1 .. Len(u.waitingList) : /\ u.waitingList[m] \in Slot
                                         /\ In(u.waitingList, u.waitingList[m])
  BY DEF Table, In
<1>3. \A m \in 1 .. Len(u.waitingList) : e[u.waitingList[m]] = d[u.waitingList[m]] BY <1>2
<1>. QED BY <1>1, <1>3, Zenon DEF OnTime

\* The list and the statuses agree.
Sleepers(u) == \A s \in Slot : In(u.waitingList, s) <=> u.status[s] = "WAITING"

LEMMA ListedSleepers ==
    ASSUME NEW u \in Table, ToSet(u.waitingList) = {s \in Slot : u.status[s] = "WAITING"}
    PROVE  Sleepers(u)
<1>1. PICK list \in Seq(Slot) : list = u.waitingList BY DEF Table
<1>2. ToSet(list) = {s \in Slot : u.status[s] = "WAITING"} BY <1>1
<1>3. \A s \in Slot : s \in ToSet(list) <=> In(list, s)
  <2>1. DOMAIN list = 1 .. Len(list) OBVIOUS
  <2>. QED BY <2>1, Zenon DEF ToSet, In
<1>. QED BY <1>1, <1>2, <1>3 DEF Sleepers

LEMMA WholeSleepers ==
    ASSUME t \in Table, Whole
    PROVE  Sleepers(t) /\ (pc = "user" => t.status[t.currentProcess] = "READY")
BY ListedSleepers DEF Whole, Current

\* schedSleep: the current process joins the sleepers, unless it sleeps for
\* no tick.
LEMMA SleepKeeps ==
    ASSUME NEW u \in Table, Kept(u), Sleepers(u), NEW d \in [Slot -> Nat], OnTime(u, d),
           u.currentProcess \in Slot, u.status[u.currentProcess] = "READY", NEW ticks \in Nat
    PROVE  LET v == schedSleep(u, ticks) IN
              /\ v \in Table /\ Kept(v) /\ v.currentProcess = u.currentProcess
              /\ Holders(u, v)
              /\ OnTime(v, [d EXCEPT ![u.currentProcess] = ticks])
<1>1. PICK slot \in Slot : slot = u.currentProcess OBVIOUS
<1>2. PICK e \in [Slot -> Nat] : e = [d EXCEPT ![slot] = ticks] OBVIOUS
<1>3. ~In(u.waitingList, slot) BY <1>1 DEF Sleepers
<1>4. CASE ticks < 1
  <2>1. schedSleep(u, ticks) = u BY <1>4, Zenon DEF schedSleep
  <2>2. \A s \in Slot : In(u.waitingList, s) => e[s] = d[s] BY <1>2, <1>3
  <2>3. OnTime(u, e) BY <2>2, OnTimeStays
  <2>. QED BY <1>1, <1>2, <2>1, <2>3 DEF Holders
<1>5. CASE ~(ticks < 1)
  <2>1. PICK r : r = removeFromReadyList(u, slot) OBVIOUS
  <2>2. r \in Table /\ Calm(u, r) /\ r.status = u.status
    BY <1>1, <2>1, RemoveRingOnly, RingOnlyCalm
  <2>3. Kept(r) BY <2>2, CalmKept
  <2>4. InUse(r, slot) BY <1>1, <2>2 DEF InUse
  <2>5. PICK x : x = [r EXCEPT !.status[slot] = "WAITING"] OBVIOUS
  <2>6. x \in Table /\ Kept(x) /\ Calm(r, x) BY <2>2, <2>3, <2>4, <2>5, Marked
  <2>7. x.waitingList = u.waitingList /\ x.waitingTicks = u.waitingTicks
        /\ x.currentProcess = u.currentProcess
    BY <2>2, <2>6 DEF Calm
  <2>8. PICK y : y = enqueTicks(x, slot, ticks) OBVIOUS
  <2>9. schedSleep(u, ticks) = y BY <1>1, <1>5, <2>1, <2>5, <2>8, Zenon DEF schedSleep
  <2>10. /\ y \in Table /\ NoTwice(y.waitingList)
         /\ y.pid = x.pid /\ y.status = x.status /\ y.indexes = x.indexes
         /\ y.freeList = x.freeList /\ y.currentProcess = x.currentProcess
         /\ \A k \in 1 .. Len(y.waitingList) :
               \/ y.waitingList[k] = slot /\ TimeOf(y, k) = ticks
               \/ \E m \in 1 .. Len(x.waitingList) :
                     y.waitingList[k] = x.waitingList[m] /\ TimeOf(y, k) = TimeOf(x, m)
    <3>1. ticks \in Nat \ {0} BY <1>5
    <3>2. NoTwice(x.waitingList) BY <2>7 DEF OnTime
    <3>3. ~In(x.waitingList, slot) BY <1>3, <2>7
    <3>. QED BY <2>6, <2>8, <3>1, <3>2, <3>3, EnqueKeeps
  <2>11. Kept(y)
    <3>1. ArrayKept(y) BY <2>6, <2>10, Zenon DEF Kept, ArrayKept, SortedTo
    <3>2. StackKept(y) BY <2>6, <2>10, Zenon DEF Kept, StackKept
    <3>3. DeadKept(y) BY <2>6, <2>10, Zenon DEF Kept, DeadKept
    <3>. QED BY <3>1, <3>2, <3>3 DEF Kept
  <2>12. \A m \in 1 .. Len(u.waitingList) : TimeOf(x, m) = TimeOf(u, m)
    BY <2>6, <2>7, SameTimes
  <2>13. ASSUME NEW k \in 1 .. Len(y.waitingList)
         PROVE  TimeOf(y, k) = e[y.waitingList[k]] /\ e[y.waitingList[k]] > 0
    <3>1. CASE y.waitingList[k] = slot /\ TimeOf(y, k) = ticks
      <4>1. e[slot] = ticks /\ ticks > 0 BY <1>2, <1>5
      <4>. QED BY <3>1, <4>1
    <3>2. ASSUME NEW m \in 1 .. Len(u.waitingList),
                 y.waitingList[k] = u.waitingList[m], TimeOf(y, k) = TimeOf(x, m)
          PROVE  TimeOf(y, k) = e[y.waitingList[k]] /\ e[y.waitingList[k]] > 0
      <4>1. PICK s \in Slot : s = u.waitingList[m]
        <5>1. PICK list \in Seq(Slot) : list = u.waitingList BY DEF Table
        <5>2. list[m] \in Slot BY <5>1
        <5>. QED BY <5>1, <5>2
      <4>2. s # slot BY <1>3, <4>1 DEF In
      <4>3. e[s] = d[s] BY <1>2, <4>2
      <4>4. TimeOf(u, m) = d[s] /\ d[s] > 0 BY <4>1 DEF OnTime
      <4>. QED BY <2>12, <3>2, <4>1, <4>3, <4>4
    <3>. QED BY <2>7, <2>10, <3>1, <3>2
  <2>14. OnTime(y, e) BY <2>10, <2>13 DEF OnTime
  <2>15. Holders(u, y)
    <3>1. Holders(u, r) BY <2>2, <2>3, CalmHolders
    <3>2. Holders(r, x) BY <2>3, <2>6, CalmHolders
    <3>3. Holders(x, y) BY <2>10 DEF Holders, InUse
    <3>. QED BY <3>1, <3>2, <3>3, HoldersTwice
  <2>. QED BY <1>1, <1>2, <2>7, <2>9, <2>10, <2>11, <2>14, <2>15
<1>. QED BY <1>4, <1>5

-----------------------------------------------------------------------------
(* The inductive invariant.                                                *)

Typed ==
    /\ t \in Table /\ t.currentProcess \in Slot
    /\ pc \in {"user", "sleep", "block", "dead"} /\ asleep \subseteq Pids
    /\ due \in [Slot -> Nat]

\* Processes have the pids procCreate gives, and procSetup.
PidsKept(u) == \A s \in Slot : InUse(u, s) => u.pid[s] \in Pids \cup {InitPid, IdlePid}

\* What holds in every state, whole or not; the times only while the rings
\* and the list are.
IInv == Typed /\ Kept(t) /\ PidsKept(t) /\ (Whole => OnTime(t, due))

\* Steps that leave the sleepers.
LEMMA CalmStep ==
    ASSUME IInv, Whole, t' \in Table, Kept(t'), t'.currentProcess \in Slot,
           SameSleepers(t, t'), Holders(t, t'), due' = due, asleep' \subseteq Pids,
           pc' \in {"user", "sleep", "block", "dead"}
    PROVE  IInv'
<1>1. OnTime(t, due) /\ t \in Table BY DEF IInv, Typed
<1>2. OnTime(t', due') BY <1>1, OnTimeStays DEF SameSleepers
<1>3. Typed' BY DEF IInv, Typed
<1>4. PidsKept(t') BY DEF IInv, PidsKept, Holders
<1>. QED BY <1>2, <1>3, <1>4 DEF IInv

LEMMA CreateStep ==
    ASSUME IInv, Whole, NEW pid \in Pids, NEW p \in Priority, Create(pid, p)
    PROVE  IInv'
<1>1. t \in Table /\ Kept(t) /\ OnTime(t, due) /\ pid \in Nat
  BY PidsAssumption DEF IInv, Typed
<1>2. \A s \in Slot : InUse(t, s) => t.pid[s] # pid
  <2>1. SUFFICES ASSUME NEW s \in Slot, InUse(t, s) PROVE t.pid[s] # pid OBVIOUS
  <2>2. In(t.indexes, s) BY <1>1, <2>1 DEF InUse, Kept, ArrayKept
  <2>3. PICK list \in Seq(Slot) : list = t.indexes BY <1>1 DEF Table
  <2>4. PICK n \in DOMAIN list : list[n] = s BY <2>2, <2>3 DEF In
  <2>5. t.pid[s] \in Listed BY <2>3, <2>4 DEF Listed
  <2>6. pid \notin Listed BY DEF Create
  <2>. QED BY <2>5, <2>6
<1>3. t.freeList # <<>> BY DEF Create
<1>4. PICK v, slot :
         /\ v = schedAdd(t, pid, p) /\ v \in Table /\ Kept(v)
         /\ v.waitingList = t.waitingList /\ v.currentProcess = t.currentProcess
         /\ slot \in Slot /\ t.status[slot] = "FREE" /\ v.pid[slot] = pid
         /\ \A s \in Slot \ {slot} : /\ v.waitingTicks[s] = t.waitingTicks[s]
                                     /\ v.status[s] = t.status[s] /\ v.pid[s] = t.pid[s]
  BY <1>1, <1>2, <1>3, AddKeeps
<1>5. t' = schedContinue(v, pid) /\ pc' = pc /\ asleep' = asleep /\ due' = due
  BY <1>4, Zenon DEF Create
<1>6. t' \in Table /\ Kept(t') /\ Calm(v, t') BY <1>1, <1>4, <1>5, ContinueKeeps
<1>7. /\ t'.waitingList = t.waitingList /\ t'.currentProcess = t.currentProcess
      /\ \A s \in Slot \ {slot} : t'.waitingTicks[s] = t.waitingTicks[s]
  BY <1>4, <1>6 DEF Calm
<1>8. ~In(t.waitingList, slot)
  BY <1>1, <1>4, WholeSleepers DEF Sleepers
<1>9. OnTime(t', due')
  <2>1. \A s \in Slot : In(t.waitingList, s) => /\ t'.waitingTicks[s] = t.waitingTicks[s]
                                                /\ due'[s] = due[s]
    BY <1>5, <1>7, <1>8
  <2>. QED BY <1>1, <1>6, <1>7, <2>1, OnTimeStays
<1>10. Typed' BY <1>5, <1>6, <1>7 DEF IInv, Typed
<1>11. PidsKept(t')
  <2>1. PidsKept(v) BY <1>4 DEF IInv, PidsKept, InUse
  <2>2. Holders(v, t') BY <1>4, <1>6, CalmHolders
  <2>. QED BY <2>1, <2>2 DEF PidsKept, Holders
<1>. QED BY <1>6, <1>9, <1>10, <1>11 DEF IInv

LEMMA BlockStep ==
    ASSUME IInv, Whole, Block
    PROVE  IInv'
<1>1. t \in Table /\ Kept(t) /\ t.currentProcess \in Slot BY DEF IInv, Typed
<1>2. CurrentPid \in Nat BY <1>1 DEF CurrentPid, Current, Table
<1>3. CurrentPid \in Pids
  <2>1. t.status[t.currentProcess] = "READY" BY <1>1, WholeSleepers DEF Block
  <2>2. InUse(t, t.currentProcess) BY <2>1 DEF InUse
  <2>. QED BY <1>1, <2>2 DEF IInv, PidsKept, CurrentPid, Current, Block
<1>4. /\ t' = schedChangeStatus(t, CurrentPid, "BLOCKED") /\ asleep' = asleep \cup {CurrentPid}
      /\ pc' = "block" /\ due' = due
  BY Zenon DEF Block
<1>5. t' \in Table /\ Kept(t') /\ Calm(t, t') BY <1>1, <1>2, <1>4, ChangeStatusKeeps
<1>6. Holders(t, t') BY <1>1, <1>5, CalmHolders
<1>7. SameSleepers(t, t') /\ t'.currentProcess \in Slot BY <1>1, <1>5 DEF Calm, SameSleepers
<1>8. asleep' \subseteq Pids BY <1>3, <1>4 DEF IInv, Typed
<1>. QED BY <1>4, <1>5, <1>6, <1>7, <1>8, CalmStep

LEMMA WakeStep ==
    ASSUME IInv, Whole, NEW pid \in Pids, Wake(pid)
    PROVE  IInv'
<1>1. t \in Table /\ Kept(t) /\ t.currentProcess \in Slot BY DEF IInv, Typed
<1>2. pid \in Nat BY PidsAssumption
<1>3. /\ t' = schedChangeStatus(t, pid, "READY") /\ asleep' = asleep \ {pid}
      /\ pc' = pc /\ due' = due
  BY Zenon DEF Wake
<1>4. t' \in Table /\ Kept(t') /\ Calm(t, t') BY <1>1, <1>2, <1>3, ChangeStatusKeeps
<1>5. Holders(t, t') BY <1>1, <1>4, CalmHolders
<1>6. SameSleepers(t, t') /\ t'.currentProcess \in Slot BY <1>1, <1>4 DEF Calm, SameSleepers
<1>7. asleep' \subseteq Pids /\ pc' \in {"user", "sleep", "block", "dead"}
  BY <1>3 DEF IInv, Typed
<1>. QED BY <1>3, <1>4, <1>5, <1>6, <1>7, CalmStep

LEMMA SetPriorityStep ==
    ASSUME IInv, Whole, NEW pid \in Pids \cup {InitPid}, NEW p \in Priority, SetPriority(pid, p)
    PROVE  IInv'
<1>1. t \in Table /\ Kept(t) /\ t.currentProcess \in Slot BY DEF IInv, Typed
<1>2. t' = schedSetPriority(t, pid, p) /\ asleep' = asleep /\ pc' = pc /\ due' = due
  BY Zenon DEF SetPriority
<1>3. t' \in Table /\ Kept(t') /\ Calm(t, t') BY <1>1, <1>2, SetPriorityKeeps
<1>4. Holders(t, t') BY <1>1, <1>3, CalmHolders
<1>5. SameSleepers(t, t') /\ t'.currentProcess \in Slot BY <1>1, <1>3 DEF Calm, SameSleepers
<1>6. asleep' \subseteq Pids /\ pc' \in {"user", "sleep", "block", "dead"}
  BY <1>2 DEF IInv, Typed
<1>. QED BY <1>2, <1>3, <1>4, <1>5, <1>6, CalmStep

LEMMA YieldStep ==
    ASSUME IInv, Whole, Yield
    PROVE  IInv'
<1>1. t \in Table /\ Kept(t) /\ t.currentProcess \in Slot BY DEF IInv, Typed
<1>2. t' = schedSchedule(t) /\ asleep' = asleep /\ pc' = "user" /\ due' = due
  BY Zenon DEF Yield
<1>3. /\ t' \in Table /\ Kept(t') /\ SameSleepers(t, t') /\ Holders(t, t')
      /\ t'.currentProcess \in Slot
  BY <1>1, <1>2, ScheduleKeeps
<1>4. asleep' \subseteq Pids BY <1>2 DEF IInv, Typed
<1>. QED BY <1>2, <1>3, <1>4, CalmStep

LEMMA SleepStep ==
    ASSUME IInv, Whole, NEW ms \in SleepMs, Sleep(ms)
    PROVE  IInv'
<1>1. /\ t \in Table /\ Kept(t) /\ t.currentProcess \in Slot
      /\ due \in [Slot -> Nat] /\ OnTime(t, due) /\ pc = "user"
  BY DEF IInv, Typed, Sleep
<1>2. Sleepers(t) /\ t.status[t.currentProcess] = "READY" BY <1>1, WholeSleepers
<1>3. PICK ticks \in Nat : ticks = SleepTicks(ms)
  <2>1. ms \in Nat BY SleepAssumption
  <2>2. (ms + 1) \div 55 \in Nat BY <2>1
  <2>. QED BY <2>2 DEF SleepTicks
<1>4. /\ t' = schedSleep(t, ticks) /\ due' = [due EXCEPT ![t.currentProcess] = ticks]
      /\ pc' = "sleep" /\ asleep' = asleep
  BY <1>3, Zenon DEF Sleep, Current
<1>5. /\ t' \in Table /\ Kept(t') /\ t'.currentProcess = t.currentProcess /\ OnTime(t', due')
      /\ Holders(t, t')
  BY <1>1, <1>2, <1>4, SleepKeeps
<1>6. Typed'
  <2>1. due' \in [Slot -> Nat] BY <1>1, <1>4
  <2>. QED BY <1>1, <1>4, <1>5, <2>1 DEF IInv, Typed
<1>7. PidsKept(t') BY <1>5 DEF IInv, PidsKept, Holders
<1>. QED BY <1>5, <1>6, <1>7 DEF IInv

\* A process that is killed while it sleeps stays on the list, and no state
\* after that is whole.
LEMMA KillStep ==
    ASSUME IInv, Whole, NEW pid \in Pids, Kill(pid)
    PROVE  IInv'
<1>1. /\ t \in Table /\ Kept(t) /\ t.currentProcess \in Slot
      /\ due \in [Slot -> Nat] /\ OnTime(t, due) /\ pid \in Nat
  BY PidsAssumption DEF IInv, Typed
<1>2. PICK slot : slot = getByPid(t, pid) OBVIOUS
<1>3. /\ t' = schedRemove(t, pid) /\ asleep' = asleep \ {pid}
      /\ due' = [due EXCEPT ![slot] = 0] /\ pc' = IF pid = CurrentPid THEN "dead" ELSE pc
  BY <1>2, Zenon DEF Kill
<1>4. /\ t' \in Table /\ Kept(t') /\ SameSleepers(t, t') /\ Holders(t, t')
      /\ t'.currentProcess = t.currentProcess
      /\ slot # NULL => t'.status[slot] \in {"DEAD", "FREE"}
  BY <1>1, <1>2, <1>3, RemoveKeeps
<1>5. Typed'
  <2>1. due' \in [Slot -> Nat] BY <1>1, <1>3
  <2>2. pc' \in {"user", "sleep", "block", "dead"} /\ asleep' \subseteq Pids
    BY <1>3 DEF IInv, Typed
  <2>. QED BY <1>1, <1>4, <2>1, <2>2 DEF Typed
<1>6. ASSUME Whole' PROVE OnTime(t', due')
  <2>1. Sleepers(t') BY <1>4, <1>6, ListedSleepers DEF Whole
  <2>2. ASSUME NEW s \in Slot, In(t.waitingList, s) PROVE due'[s] = due[s]
    <3>1. t'.status[s] = "WAITING" BY <1>4, <2>1, <2>2 DEF Sleepers, SameSleepers
    <3>2. s # slot BY <1>4, <3>1, SlotsAreFinite
    <3>. QED BY <1>1, <1>3, <3>2
  <2>. QED BY <1>1, <1>4, <2>2, OnTimeStays DEF SameSleepers
<1>7. PidsKept(t') BY <1>4 DEF IInv, PidsKept, Holders
<1>. QED BY <1>4, <1>5, <1>6, <1>7 DEF IInv

LEMMA TimerStep ==
    ASSUME IInv, Whole, Timer
    PROVE  IInv'
<1>1. /\ t \in Table /\ Kept(t) /\ t.currentProcess \in Slot
      /\ due \in [Slot -> Nat] /\ OnTime(t, due)
  BY DEF IInv, Typed
<1>2. PICK x : x = schedTicks(t) OBVIOUS
<1>3. /\ t' = schedSchedule(x) /\ asleep' = asleep /\ pc' = "user"
      /\ due' = [s \in Slot |-> IF due[s] > 0 THEN due[s] - 1 ELSE 0]
  BY <1>2, Zenon DEF Timer
<1>4. /\ x \in Table /\ Kept(x) /\ x.currentProcess = t.currentProcess
      /\ NoTwice(x.waitingList) /\ Holders(t, x)
      /\ \A k \in 1 .. Len(x.waitingList) : \E m \in 1 .. Len(t.waitingList) :
            /\ x.waitingList[k] = t.waitingList[m]
            /\ TimeOf(x, k) = TimeOf(t, m) - 1 /\ TimeOf(x, k) > 0
  <2>1. NoTwice(t.waitingList) BY <1>1 DEF OnTime
  <2>2. \A m \in 1 .. Len(t.waitingList) : TimeOf(t, m) > 0 BY <1>1 DEF OnTime
  <2>. QED BY <1>1, <1>2, <2>1, <2>2, TicksKeeps
<1>5. /\ t' \in Table /\ Kept(t') /\ SameSleepers(x, t') /\ Holders(x, t')
      /\ t'.currentProcess \in Slot
  BY <1>1, <1>3, <1>4, ScheduleKeeps
<1>6. OnTime(x, due')
  <2>1. ASSUME NEW k \in 1 .. Len(x.waitingList)
        PROVE  TimeOf(x, k) = due'[x.waitingList[k]] /\ due'[x.waitingList[k]] > 0
    <3>1. PICK m \in 1 .. Len(t.waitingList) :
             /\ x.waitingList[k] = t.waitingList[m]
             /\ TimeOf(x, k) = TimeOf(t, m) - 1 /\ TimeOf(x, k) > 0
      BY <1>4, Zenon
    <3>2. PICK s \in Slot : s = t.waitingList[m]
      <4>1. PICK list \in Seq(Slot) : list = t.waitingList BY <1>1 DEF Table
      <4>2. list[m] \in Slot BY <4>1
      <4>. QED BY <4>1, <4>2
    <3>3. TimeOf(t, m) = due[s] /\ due[s] > 0 BY <1>1, <3>2 DEF OnTime
    <3>4. due'[s] = due[s] - 1 BY <1>3, <3>3
    <3>. QED BY <3>1, <3>2, <3>3, <3>4
  <2>. QED BY <1>4, <2>1, Zenon DEF OnTime
<1>7. OnTime(t', due') BY <1>4, <1>5, <1>6, OnTimeStays DEF SameSleepers
<1>8. Typed'
  <2>1. \A s \in Slot : (IF due[s] > 0 THEN due[s] - 1 ELSE 0) \in Nat BY <1>1
  <2>2. due' \in [Slot -> Nat] BY <1>3, <2>1
  <2>3. asleep' \subseteq Pids BY <1>3 DEF IInv, Typed
  <2>. QED BY <1>3, <1>5, <2>2, <2>3 DEF Typed
<1>9. PidsKept(t') BY <1>4, <1>5 DEF IInv, PidsKept, Holders
<1>. QED BY <1>5, <1>7, <1>8, <1>9 DEF IInv

-----------------------------------------------------------------------------
(* Circular lists.                                                         *)

\* M is linked by f into one circle.
Circle(M, f) ==
    /\ \A s \in M : f[s] \in M
    /\ \A s, r \in M : f[s] = f[r] => s = r
    /\ \A S \in SUBSET M : S # {} /\ (\A s \in S : f[s] \in S) => S = M

\* addToReadyList: n is linked in behind c.
LEMMA CircleGrows ==
    ASSUME NEW M, NEW f, Circle(M, f), NEW c \in M, NEW n, n \notin M,
           NEW g, g[n] = f[c], g[c] = n, \A s \in M \ {c} : g[s] = f[s]
    PROVE  Circle(M \cup {n}, g)
<1>. DEFINE Q == M \cup {n}
<1>1. (\A s \in M : f[s] \in M) /\ \A s, r \in M : f[s] = f[r] => s = r BY DEF Circle
<1>2. \A s \in Q : g[s] \in Q BY <1>1
<1>3. \A s, r \in Q : g[s] = g[r] => s = r BY <1>1
<1>4. ASSUME NEW S \in SUBSET Q, S # {}, \A s \in S : g[s] \in S PROVE S = Q
  <2>. DEFINE T == S \ {n}
  <2>1. T \in SUBSET M /\ T # {} BY <1>1, <1>4
  <2>2. \A s \in T : f[s] \in T BY <1>1, <1>4
  <2>3. T = M BY <2>1, <2>2 DEF Circle
  <2>. QED BY <1>4, <2>3
<1>. QED BY <1>2, <1>3, <1>4 DEF Circle

\* removeFromReadyList: d, which p is linked to, is left out.
LEMMA CircleShrinks ==
    ASSUME NEW M, NEW f, Circle(M, f), NEW p \in M, NEW d \in M, p # d, f[p] = d,
           NEW g, g[p] = f[d], \A s \in M \ {p} : g[s] = f[s], NEW Q, Q = M \ {d}
    PROVE  Circle(Q, g)
<1>1. (\A s \in M : f[s] \in M) /\ \A s, r \in M : f[s] = f[r] => s = r BY DEF Circle
<1>2. \A s \in Q : g[s] \in Q BY <1>1
<1>3. \A s, r \in Q : g[s] = g[r] => s = r BY <1>1
<1>4. ASSUME NEW S \in SUBSET Q, S # {}, \A s \in S : g[s] \in S PROVE S = Q
  <2>1. CASE p \in S
    <3>. DEFINE T == S \cup {d}
    <3>1. T \in SUBSET M /\ T # {} OBVIOUS
    <3>2. \A s \in T : f[s] \in T BY <1>1, <1>4, <2>1
    <3>3. T = M BY <3>1, <3>2 DEF Circle
    <3>. QED BY <3>3
  <2>2. CASE p \notin S
    <3>1. \A s \in S : f[s] \in S BY <1>4, <2>2
    <3>2. S = M BY <1>4, <3>1 DEF Circle
    <3>. QED BY <2>2, <3>2
  <2>. QED BY <2>1, <2>2
<1>. QED BY <1>2, <1>3, <1>4 DEF Circle

LEMMA CircleStays ==
    ASSUME NEW M, NEW f, Circle(M, f), NEW g, \A s \in M : g[s] = f[s]
    PROVE  Circle(M, g)
<1>1. /\ \A s \in M : f[s] \in M
      /\ \A s, r \in M : f[s] = f[r] => s = r
      /\ \A S \in SUBSET M : S # {} /\ (\A s \in S : f[s] \in S) => S = M
  BY Zenon DEF Circle
<1>2. ASSUME NEW S \in SUBSET M, S # {}, \A s \in S : g[s] \in S PROVE S = M
  <2>1. \A s \in S : f[s] \in S BY <1>2
  <2>. QED BY <1>1, <1>2, <2>1
<1>. QED BY <1>1, <1>2 DEF Circle

\* One that is linked to itself is the only one.
LEMMA CircleOfOne ==
    ASSUME NEW M, NEW f, Circle(M, f), NEW s \in M, f[s] = s
    PROVE  M = {s}
<1>1. {s} \in SUBSET M /\ {s} # {} /\ \A r \in {s} : f[r] \in {s} OBVIOUS
<1>. QED BY <1>1 DEF Circle

\* The ring of priority p is made of M.
RingOf(u, p, M) ==
    IF M = {} THEN u.priorities[p] = NULL
    ELSE u.priorities[p] \in M /\ Circle(M, u.nextInPriority)

\* at goes around M from the first of ring p.
GoesAround(u, p, M, at) ==
    /\ WalkIs(u, p, at) /\ \A k \in 0 .. MaxProcess : at[k] \in M
    /\ Cardinality(M) \in 1 .. MaxProcess
    /\ {at[k] : k \in 0 .. Cardinality(M) - 1} = M
    /\ at[Cardinality(M)] = at[0]

LEMMA SizeOfRing ==
    ASSUME NEW M \in SUBSET Slot, M # {}
    PROVE  IsFiniteSet(M) /\ Cardinality(M) \in 1 .. MaxProcess
<1>1. IsFiniteSet(M) /\ Cardinality(M) <= MaxProcess BY SlotsAreFinite, FS_Subset
<1>2. Cardinality(M) \in Nat BY <1>1, FS_CardinalityType
<1>3. Cardinality(M) # 0 BY <1>1, FS_EmptySet
<1>. QED BY <1>1, <1>2, <1>3, Sizes

\* A walk that stays in M comes back to where it began, and not sooner than it
\* has been everywhere.
LEMMA WalkAround ==
    ASSUME NEW u \in Table, NEW p \in Priority, NEW M \in SUBSET Slot, M # {}, RingOf(u, p, M)
    PROVE  \E at \in [0 .. MaxProcess -> SlotOrNull] : GoesAround(u, p, M, at)
<1>1. PICK at \in [0 .. MaxProcess -> SlotOrNull] : WalkIs(u, p, at) BY WalkLoop
<1>2. PICK f : f = u.nextInPriority OBVIOUS
<1>3. u.priorities[p] \in M /\ Circle(M, f) BY <1>2 DEF RingOf
<1>4. (\A s \in M : f[s] \in M) /\ \A s, r \in M : f[s] = f[r] => s = r BY <1>3 DEF Circle
<1>5. /\ at[0] \in M
      /\ \A k \in 1 .. MaxProcess : at[k - 1] \in M => at[k] = f[at[k - 1]] /\ at[k] \in M
  <2>1. NULL \notin M BY SlotsAreFinite
  <2>. QED BY <1>1, <1>2, <1>3, <1>4, <2>1 DEF WalkIs
<1>6. \A k \in 0 .. MaxProcess : at[k] \in M
  <2>. DEFINE Good == {j \in 0 .. MaxProcess : at[j] \in M}
  <2>1. 0 \in Good BY <1>5, Sizes
  <2>2. ASSUME NEW j \in 1 .. MaxProcess, j - 1 \in Good PROVE j \in Good BY <1>5, <2>2, Sizes
  <2>3. Good \in SUBSET (0 .. MaxProcess) /\ MaxProcess \in Nat BY Sizes
  <2>. HIDE DEF Good
  <2>4. Good = 0 .. MaxProcess BY <2>1, <2>2, <2>3, RoundByRound
  <2>. QED BY <2>4 DEF Good
<1>7. \A k \in 1 .. MaxProcess : at[k] = f[at[k - 1]]
  <2>1. \A k \in 1 .. MaxProcess : k - 1 \in 0 .. MaxProcess BY Sizes
  <2>. QED BY <1>5, <1>6, <2>1
<1>8. PICK n \in 1 .. MaxProcess : n = Cardinality(M) BY SizeOfRing
<1>9. IsFiniteSet(M) BY SizeOfRing
<1>10. \A k \in 0 .. n : k \in 0 .. MaxProcess /\ (k # 0 => k \in 1 .. MaxProcess) BY <1>8, Sizes
<1>. DEFINE Again == {k \in 1 .. n : \E j \in 0 .. k - 1 : at[j] = at[k]}
<1>11. Again # {}
  <2>1. PICK g : g = [k \in 0 .. n |-> at[k]] OBVIOUS
  <2>2. g \in [0 .. n -> M] BY <1>6, <1>10, <2>1
  <2>3. IsFiniteSet(0 .. n) /\ Cardinality(0 .. n) = n + 1
    <3>1. 0 \in Int /\ n \in Int BY <1>8
    <3>2. IsFiniteSet(0 .. n) /\ Cardinality(0 .. n) = IF 0 > n THEN 0 ELSE n - 0 + 1
      BY <3>1, FS_Interval
    <3>. QED BY <3>2
  <2>4. Cardinality(M) < Cardinality(0 .. n) BY <1>8, <2>3
  <2>5. PICK x \in 0 .. n, y \in 0 .. n : x # y /\ g[x] = g[y]
    BY <1>9, <2>2, <2>3, <2>4, FS_PigeonHole
  <2>6. at[x] = at[y] BY <2>1, <2>5
  <2>7. CASE x < y
    <3>1. y \in 1 .. n /\ x \in 0 .. y - 1 BY <2>7
    <3>. QED BY <2>6, <3>1
  <2>8. CASE y < x
    <3>1. x \in 1 .. n /\ y \in 0 .. x - 1 BY <2>8
    <3>. QED BY <2>6, <3>1
  <2>. QED BY <2>5, <2>7, <2>8
<1>12. PICK r \in Again : \A k \in Again : r <= k
  <2>1. Again \in SUBSET Nat OBVIOUS
  <2>. HIDE DEF Again
  <2>. QED BY <1>11, <2>1, SmallestExists
<1>13. PICK j \in 0 .. r - 1 : at[j] = at[r] BY <1>12
<1>14. r \in 1 .. n BY <1>12
<1>15. j = 0
  <2>. SUFFICES ASSUME j # 0 PROVE FALSE OBVIOUS
  <2>1. /\ j \in 1 .. MaxProcess /\ r \in 1 .. MaxProcess
        /\ j - 1 \in 0 .. MaxProcess /\ r - 1 \in 0 .. MaxProcess
        /\ r - 1 \in 1 .. n /\ j - 1 \in 0 .. (r - 1) - 1
    BY <1>13, <1>14, Sizes
  <2>2. f[at[j - 1]] = f[at[r - 1]] BY <1>7, <1>13, <2>1
  <2>3. at[j - 1] = at[r - 1] BY <1>4, <1>6, <2>1, <2>2
  <2>4. r - 1 \in Again BY <2>1, <2>3
  <2>5. ~(r <= r - 1) BY <1>14
  <2>. HIDE DEF Again
  <2>. QED BY <1>12, <2>4, <2>5
<1>. HIDE DEF Again
<1>16. {at[k] : k \in 0 .. r - 1} = M
  <2>. DEFINE S == {at[k] : k \in 0 .. r - 1}
  <2>1. \A k \in 0 .. r - 1 : k \in 0 .. MaxProcess /\ k + 1 \in 1 .. MaxProcess /\ (k + 1) - 1 = k
    BY <1>14, Sizes
  <2>2. S \in SUBSET M BY <1>6, <2>1
  <2>3. at[0] \in S
    <3>1. 0 \in 0 .. r - 1 BY <1>14
    <3>. QED BY <3>1
  <2>4. ASSUME NEW s \in S PROVE f[s] \in S
    <3>1. PICK k \in 0 .. r - 1 : s = at[k] OBVIOUS
    <3>2. f[s] = at[k + 1] BY <1>7, <2>1, <3>1
    <3>3. CASE k + 1 = r BY <1>13, <1>15, <2>3, <3>2, <3>3
    <3>4. CASE k + 1 # r
      <4>1. k + 1 \in 0 .. r - 1 BY <1>14, <3>4
      <4>. QED BY <3>2, <4>1
    <3>. QED BY <3>3, <3>4
  <2>. HIDE DEF S
  <2>5. S = M BY <1>3, <2>2, <2>3, <2>4 DEF Circle
  <2>. QED BY <2>5 DEF S
<1>17. r = n
  <2>1. PICK h : h = [k \in 1 .. r |-> at[k - 1]] OBVIOUS
  <2>2. \A k \in 1 .. r : k - 1 \in 0 .. r - 1 BY <1>14
  <2>3. \A k \in 0 .. r - 1 : k + 1 \in 1 .. r /\ (k + 1) - 1 = k BY <1>14
  <2>4. h \in [1 .. r -> M] BY <1>16, <2>1, <2>2
  <2>5. ASSUME NEW s \in M PROVE \E k \in 1 .. r : h[k] = s
    <3>1. PICK k \in 0 .. r - 1 : s = at[k] BY <1>16
    <3>2. h[k + 1] = s BY <2>1, <2>3, <3>1
    <3>. QED BY <2>3, <3>2
  <2>6. h \in Surjection(1 .. r, M) BY <2>4, <2>5 DEF Surjection
  <2>7. ExistsSurjection(1 .. r, M) BY <2>6 DEF ExistsSurjection
  <2>8. r \in Nat BY <1>14
  <2>9. Cardinality(M) <= r BY <2>7, <2>8, FS_SurjCardinalityBound
  <2>. QED BY <1>8, <1>14, <2>9
<1>18. at[n] = at[0] BY <1>13, <1>15, <1>17
<1>. QED BY <1>1, <1>6, <1>8, <1>16, <1>17, <1>18 DEF GoesAround

\* What RingWhole says of a walk, for any table.
WalkWhole(u, p, M) ==
    LET at == Walk(u, p)
    IN  IF M = {} THEN u.priorities[p] = NULL
        ELSE /\ {at[n] : n \in 0 .. Cardinality(M) - 1} = M
             /\ at[Cardinality(M)] = at[0]

\* The two ways of saying that a ring is whole.
LEMMA RingIsWhole ==
    ASSUME NEW u \in Table, NEW p \in Priority, NEW M \in SUBSET Slot
    PROVE  WalkWhole(u, p, M) <=> RingOf(u, p, M)
<1>1. CASE M = {} BY <1>1, Zenon DEF WalkWhole, RingOf
<1>2. CASE M # {}
  <2>1. ASSUME RingOf(u, p, M) PROVE WalkWhole(u, p, M)
    <3>1. PICK at \in [0 .. MaxProcess -> SlotOrNull] : GoesAround(u, p, M, at)
      BY <1>2, <2>1, WalkAround
    <3>. QED BY <1>2, <3>1, Zenon DEF WalkWhole, GoesAround, WalkIs
  <2>2. ASSUME WalkWhole(u, p, M) PROVE RingOf(u, p, M)
    <3>1. PICK at \in [0 .. MaxProcess -> SlotOrNull] : WalkIs(u, p, at) BY WalkLoop
    <3>2. PICK n \in 1 .. MaxProcess : n = Cardinality(M) BY <1>2, SizeOfRing
    <3>3. {at[k] : k \in 0 .. n - 1} = M /\ at[n] = at[0]
      BY <1>2, <2>2, <3>1, <3>2, Zenon DEF WalkWhole, WalkIs
    <3>4. PICK f : f = u.nextInPriority OBVIOUS
    <3>5. \A k \in 0 .. n - 1 : at[k] \in M BY <3>3
    <3>6. \A k \in 0 .. n - 1 : at[k + 1] = f[at[k]]
      <4>1. \A k \in 0 .. n - 1 : k + 1 \in 1 .. MaxProcess /\ (k + 1) - 1 = k BY <3>2, Sizes
      <4>2. \A k \in 0 .. n - 1 : at[k] # NULL BY <3>5, SlotsAreFinite
      <4>. QED BY <3>1, <3>4, <4>1, <4>2 DEF WalkIs
    <3>7. 0 \in 0 .. n - 1 /\ n - 1 \in 0 .. n - 1 /\ (n - 1) + 1 = n BY <3>2
    <3>8. \A k \in 0 .. n - 1 : at[k + 1] \in M
      <4>1. TAKE k \in 0 .. n - 1
      <4>2. CASE k = n - 1 BY <3>3, <3>5, <3>7, <4>2
      <4>3. CASE k # n - 1
        <5>1. k + 1 \in 0 .. n - 1 BY <4>3
        <5>. QED BY <3>5, <5>1
      <4>. QED BY <4>2, <4>3
    <3>9. ASSUME NEW s \in M PROVE f[s] \in M
      <4>1. PICK k \in 0 .. n - 1 : s = at[k] BY <3>3
      <4>. QED BY <3>6, <3>8, <4>1
    <3>10. \A s, r \in M : f[s] = f[r] => s = r
      <4>1. PICK g : g = [s \in M |-> f[s]] OBVIOUS
      <4>2. g \in [M -> M] BY <3>9, <4>1
      <4>3. ASSUME NEW s \in M PROVE \E r \in M : g[r] = s
        <5>1. PICK k \in 0 .. n - 1 : s = at[k] BY <3>3
        <5>2. CASE k = 0
          <6>1. at[n - 1] \in M /\ f[at[n - 1]] = s BY <3>3, <3>5, <3>6, <3>7, <5>1, <5>2
          <6>. QED BY <4>1, <6>1
        <5>3. CASE k # 0
          <6>1. k - 1 \in 0 .. n - 1 /\ (k - 1) + 1 = k BY <5>3
          <6>2. at[k - 1] \in M /\ f[at[k - 1]] = s BY <3>5, <3>6, <5>1, <6>1
          <6>. QED BY <4>1, <6>2
        <5>. QED BY <5>2, <5>3
      <4>4. g \in Surjection(M, M) BY <4>2, <4>3 DEF Surjection
      <4>5. IsFiniteSet(M) BY <1>2, SizeOfRing
      <4>6. g \in Injection(M, M) BY <4>4, <4>5, FS_SurjSameCardinalityImpliesInj
      <4>7. \A s, r \in M : g[s] = g[r] => s = r BY <4>6 DEF Injection, IsInjective
      <4>. QED BY <4>1, <4>7
    <3>11. ASSUME NEW S \in SUBSET M, S # {}, \A s \in S : f[s] \in S PROVE S = M
      <4>1. \A k \in 0 .. n - 1 : at[k] \in S => at[k + 1] \in S BY <3>6, <3>11
      <4>2. PICK j \in 0 .. n - 1 : at[j] \in S BY <3>3, <3>11
      <4>3. at[0] \in S
        <5>. DEFINE Good == {k \in 0 .. n - j : at[k + j] \in S}
        <5>1. 0 \in Good
          <6>1. 0 \in 0 .. n - j /\ 0 + j = j OBVIOUS
          <6>. QED BY <4>2, <6>1
        <5>2. ASSUME NEW k \in 1 .. n - j, k - 1 \in Good PROVE k \in Good
          <6>1. (k - 1) + j \in 0 .. n - 1 /\ ((k - 1) + j) + 1 = k + j /\ k \in 0 .. n - j
            BY <3>2
          <6>2. at[(k - 1) + j] \in S BY <5>2
          <6>3. at[k + j] \in S BY <4>1, <6>1, <6>2
          <6>. QED BY <6>1, <6>3
        <5>3. Good \in SUBSET (0 .. n - j) /\ n - j \in Nat /\ n - j \in 0 .. n - j /\ (n - j) + j = n
          BY <3>2
        <5>. HIDE DEF Good
        <5>4. Good = 0 .. n - j BY <5>1, <5>2, <5>3, RoundByRound
        <5>5. at[(n - j) + j] \in S BY <5>3, <5>4 DEF Good
        <5>. QED BY <3>3, <5>3, <5>5
      <4>4. \A k \in 0 .. n - 1 : at[k] \in S
        <5>. DEFINE Good == {k \in 0 .. n - 1 : at[k] \in S}
        <5>1. 0 \in Good BY <3>7, <4>3
        <5>2. ASSUME NEW k \in 1 .. n - 1, k - 1 \in Good PROVE k \in Good
          <6>1. k - 1 \in 0 .. n - 1 /\ (k - 1) + 1 = k /\ k \in 0 .. n - 1 BY <3>2
          <6>2. at[k - 1] \in S BY <5>2
          <6>. QED BY <4>1, <6>1, <6>2
        <5>3. Good \in SUBSET (0 .. n - 1) /\ n - 1 \in Nat BY <3>2
        <5>. HIDE DEF Good
        <5>4. Good = 0 .. n - 1 BY <5>1, <5>2, <5>3, RoundByRound
        <5>. QED BY <5>4 DEF Good
      <4>5. M \subseteq S BY <3>3, <4>4
      <4>. QED BY <3>11, <4>5
    <3>12. Circle(M, f) BY <3>9, <3>10, <3>11 DEF Circle
    <3>13. u.priorities[p] \in M BY <3>1, <3>5, <3>7 DEF WalkIs
    <3>. QED BY <1>2, <3>4, <3>12, <3>13, Zenon DEF RingOf
  <2>. QED BY <2>1, <2>2
<1>. QED BY <1>1, <1>2

-----------------------------------------------------------------------------
(* All the rings.                                                          *)

NoRing == CantPriorities
RingMap == [Slot -> Priority \cup {NoRing}]
Members(m, p) == {s \in Slot : m[s] = p}

\* m says on which ring each slot is.
Rings(u, m) == \A p \in Priority : RingOf(u, p, Members(m, p))

LEMMA NoRingIsNone == NoRing \notin Priority BY Sizes DEF NoRing, Priority

LEMMA OtherRing ==
    ASSUME NEW u, NEW v, NEW p, NEW M, RingOf(u, p, M), v.priorities[p] = u.priorities[p],
           \A s \in M : v.nextInPriority[s] = u.nextInPriority[s]
    PROVE  RingOf(v, p, M)
<1>1. Circle(M, u.nextInPriority) => Circle(M, v.nextInPriority) BY CircleStays
<1>. QED BY <1>1, Zenon DEF RingOf

\* A slot whose next no ring looks at.
LEMMA RingsStay ==
    ASSUME NEW u, NEW v, NEW m, Rings(u, m),
           \A p \in Priority : v.priorities[p] = u.priorities[p],
           \A s \in Slot : m[s] \in Priority => v.nextInPriority[s] = u.nextInPriority[s]
    PROVE  Rings(v, m)
<1>1. ASSUME NEW p \in Priority PROVE RingOf(v, p, Members(m, p))
  <2>1. \A s \in Members(m, p) : v.nextInPriority[s] = u.nextInPriority[s]
    BY DEF Members
  <2>2. RingOf(u, p, Members(m, p)) BY DEF Rings
  <2>. QED BY <2>1, <2>2, OtherRing, Zenon
<1>. QED BY <1>1 DEF Rings

\* Outside of ring p and slot the links are the same.
Elsewhere(u, v, m, p, slot) ==
    /\ v.stuck = u.stuck
    /\ \A q \in Priority \ {p} : v.priorities[q] = u.priorities[q]
    /\ \A s \in Slot : m[s] # p /\ s # slot => v.nextInPriority[s] = u.nextInPriority[s]

LEMMA RingChanged ==
    ASSUME NEW u, NEW v, NEW m \in RingMap, NEW n \in RingMap, Rings(u, m),
           NEW p \in Priority, NEW slot \in Slot, Elsewhere(u, v, m, p, slot),
           m[slot] \in {p, NoRing}, n[slot] \in {p, NoRing},
           \A s \in Slot \ {slot} : n[s] = m[s],
           RingOf(v, p, Members(n, p))
    PROVE  Rings(v, n)
<1>1. ASSUME NEW q \in Priority \ {p} PROVE RingOf(v, q, Members(n, q))
  <2>1. q # NoRing BY NoRingIsNone
  <2>2. Members(n, q) = Members(m, q) BY <2>1 DEF Members
  <2>3. \A s \in Members(m, q) : v.nextInPriority[s] = u.nextInPriority[s]
    BY <2>1 DEF Members, Elsewhere
  <2>4. RingOf(u, q, Members(m, q)) BY DEF Rings
  <2>5. v.priorities[q] = u.priorities[q] BY DEF Elsewhere
  <2>. QED BY <2>2, <2>3, <2>4, <2>5, OtherRing, Zenon
<1>. QED BY <1>1 DEF Rings

\* addToReadyList of a slot that is on no ring.
LEMMA AddRings ==
    ASSUME NEW u \in Table, NEW m \in RingMap, Rings(u, m), NEW slot \in Slot, m[slot] = NoRing
    PROVE  LET v == addToReadyList(u, slot) IN
              /\ Rings(v, [m EXCEPT ![slot] = u.priority[slot]])
              /\ Elsewhere(u, v, m, u.priority[slot], slot)
<1>1. PICK p \in Priority : p = u.priority[slot] BY DEF Table
<1>2. PICK first \in SlotOrNull : first = u.priorities[p] BY DEF Table
<1>3. PICK M : M = Members(m, p) OBVIOUS
<1>4. RingOf(u, p, M) BY <1>3 DEF Rings
<1>5. PICK n \in RingMap : n = [m EXCEPT ![slot] = p] BY DEF RingMap
<1>6. n[slot] = p /\ \A s \in Slot \ {slot} : n[s] = m[s] BY <1>5 DEF RingMap
<1>7. slot \notin M /\ M \subseteq Slot /\ Members(n, p) = M \cup {slot}
  BY <1>3, <1>6, NoRingIsNone DEF Members
<1>8. PICK v : v = addToReadyList(u, slot) OBVIOUS
<1>9. RingOf(v, p, M \cup {slot}) /\ Elsewhere(u, v, m, p, slot)
  <2>1. CASE first = NULL
    <3>1. M = {} BY <1>2, <1>4, <1>7, <2>1, SlotsAreFinite DEF RingOf
    <3>2. v = [u EXCEPT !.priorities[p] = slot, !.nextInPriority[slot] = slot]
      BY <1>1, <1>2, <1>8, <2>1, Zenon DEF addToReadyList
    <3>3. /\ v.priorities[p] = slot /\ v.nextInPriority[slot] = slot /\ v.stuck = u.stuck
          /\ \A q \in Priority \ {p} : v.priorities[q] = u.priorities[q]
          /\ \A s \in Slot \ {slot} : v.nextInPriority[s] = u.nextInPriority[s]
      BY <3>2 DEF Table
    <3>4. Circle({slot}, v.nextInPriority) BY <3>3 DEF Circle
    <3>5. M \cup {slot} = {slot} BY <3>1
    <3>. QED BY <3>3, <3>4, <3>5 DEF RingOf, Elsewhere
  <2>2. CASE first # NULL
    <3>1. M # {} BY <1>2, <1>4, <2>2 DEF RingOf
    <3>2. first \in M /\ Circle(M, u.nextInPriority) BY <1>2, <1>4, <3>1 DEF RingOf
    <3>3. v = [u EXCEPT !.nextInPriority[slot] = u.nextInPriority[first],
                        !.nextInPriority[first] = slot]
      BY <1>1, <1>2, <1>8, <2>2, Zenon DEF addToReadyList
    <3>4. first # slot /\ first \in Slot BY <1>7, <3>2
    <3>5. /\ v.priorities = u.priorities /\ v.stuck = u.stuck
          /\ v.nextInPriority[slot] = u.nextInPriority[first] /\ v.nextInPriority[first] = slot
          /\ \A s \in Slot \ {slot, first} : v.nextInPriority[s] = u.nextInPriority[s]
      BY <3>3, <3>4 DEF Table
    <3>6. PICK g : g = v.nextInPriority OBVIOUS
    <3>7. \A s \in M \ {first} : g[s] = u.nextInPriority[s] BY <1>7, <3>5, <3>6
    <3>8. Circle(M \cup {slot}, g) BY <1>7, <3>2, <3>5, <3>6, <3>7, CircleGrows
    <3>9. v.priorities[p] \in M \cup {slot} BY <1>2, <3>2, <3>5
    <3>10. \A s \in Slot : m[s] # p /\ s # slot => v.nextInPriority[s] = u.nextInPriority[s]
      <4>1. m[first] = p BY <1>3, <3>2 DEF Members
      <4>. QED BY <3>5, <4>1
    <3>. QED BY <3>5, <3>6, <3>8, <3>9, <3>10 DEF RingOf, Elsewhere
  <2>. QED BY <2>1, <2>2
<1>10. Rings(v, n) BY <1>6, <1>7, <1>9, RingChanged
<1>. QED BY <1>1, <1>5, <1>8, <1>9, <1>10

\* getPrevReadySlot finds the one before a slot that is on the ring with
\* another.
LEMMA PrevFound ==
    ASSUME NEW u \in Table, NEW slot \in Slot, NEW M \in SUBSET Slot, slot \in M,
           RingOf(u, u.priority[slot], M)
    PROVE  /\ getPrevReadySlot(u, slot) # {}
           /\ \A s \in getPrevReadySlot(u, slot) : s \in M /\ u.nextInPriority[s] = slot
<1>1. PICK p \in Priority : p = u.priority[slot] BY DEF Table
<1>2. PICK at \in [0 .. MaxProcess -> SlotOrNull] : GoesAround(u, p, M, at)
  BY <1>1, WalkAround
<1>3. /\ WalkIs(u, p, at) /\ \A k \in 0 .. MaxProcess : at[k] \in M
      /\ Cardinality(M) \in 1 .. MaxProcess
      /\ {at[k] : k \in 0 .. Cardinality(M) - 1} = M
      /\ at[Cardinality(M)] = at[0]
  BY <1>2, Zenon DEF GoesAround
<1>4. PICK n \in 1 .. MaxProcess : n = Cardinality(M) BY <1>3
<1>. DEFINE Before == {k \in 0 .. MaxProcess - 1 :
                          /\ at[k] # NULL /\ at[k + 1] = slot
                          /\ \A x \in 0 .. k - 1 : at[x + 1] # slot}
<1>5. getPrevReadySlot(u, slot) = {at[k] : k \in Before}
  <2>1. Walk(u, u.priority[slot]) = at BY <1>1, <1>3 DEF WalkIs
  <2>. QED BY <2>1, Zenon DEF getPrevReadySlot
<1>6. \A k \in 0 .. MaxProcess - 1 : k \in 0 .. MaxProcess /\ k + 1 \in 1 .. MaxProcess /\ (k + 1) - 1 = k
  BY Sizes
<1>7. \A k \in 0 .. MaxProcess - 1 : at[k] # NULL /\ at[k + 1] = u.nextInPriority[at[k]]
  BY <1>3, <1>6, SlotsAreFinite DEF WalkIs
<1>8. Before # {}
  <2>. DEFINE Arrives == {k \in 0 .. MaxProcess - 1 : at[k + 1] = slot}
  <2>1. Arrives # {}
    <3>1. PICK j \in 0 .. n - 1 : at[j] = slot BY <1>3, <1>4
    <3>2. CASE j = 0
      <4>1. n - 1 \in 0 .. MaxProcess - 1 /\ (n - 1) + 1 = n BY <1>4, Sizes
      <4>2. at[(n - 1) + 1] = slot BY <1>3, <1>4, <3>1, <3>2, <4>1
      <4>3. n - 1 \in Arrives BY <4>1, <4>2
      <4>. QED BY <4>3
    <3>3. CASE j # 0
      <4>1. j - 1 \in 0 .. MaxProcess - 1 /\ (j - 1) + 1 = j BY <1>4, <3>3, Sizes
      <4>2. j - 1 \in Arrives BY <3>1, <4>1
      <4>. QED BY <4>2
    <3>. QED BY <3>2, <3>3
  <2>2. Arrives \in SUBSET Nat OBVIOUS
  <2>3. \A k : k \in Arrives <=> k \in 0 .. MaxProcess - 1 /\ at[k + 1] = slot OBVIOUS
  <2>. HIDE DEF Arrives
  <2>4. PICK k \in Arrives : \A x \in Arrives : k <= x BY <2>1, <2>2, SmallestExists
  <2>5. k \in 0 .. MaxProcess - 1 /\ at[k + 1] = slot BY <2>3
  <2>6. \A x \in 0 .. k - 1 : at[x + 1] # slot
    <3>1. \A x \in 0 .. k - 1 : x \in 0 .. MaxProcess - 1 /\ ~(k <= x) BY <2>5, Sizes
    <3>. QED BY <2>3, <2>4, <3>1
  <2>7. k \in Before BY <1>7, <2>5, <2>6
  <2>. QED BY <2>7
<1>9. \A k \in Before : at[k] \in M /\ u.nextInPriority[at[k]] = slot
  <2>1. \A k \in Before : k \in 0 .. MaxProcess - 1 /\ at[k + 1] = slot OBVIOUS
  <2>. HIDE DEF Before
  <2>. QED BY <1>3, <1>6, <1>7, <2>1
<1>. HIDE DEF Before
<1>. QED BY <1>5, <1>8, <1>9

\* removeFromReadyList of a slot that is on its ring.
LEMMA RemoveRings ==
    ASSUME NEW u \in Table, NEW m \in RingMap, Rings(u, m), NEW slot \in Slot,
           m[slot] = u.priority[slot]
    PROVE  LET v == removeFromReadyList(u, slot) IN
              /\ Rings(v, [m EXCEPT ![slot] = NoRing])
              /\ Elsewhere(u, v, m, u.priority[slot], slot)
              /\ v.nextInPriority[slot] = u.nextInPriority[slot]
              /\ u.nextInPriority[slot] \in Slot /\ m[u.nextInPriority[slot]] = u.priority[slot]
<1>1. PICK p \in Priority : p = u.priority[slot] BY DEF Table
<1>2. PICK next : next = u.nextInPriority[slot] OBVIOUS
<1>3. PICK M : M = Members(m, p) OBVIOUS
<1>4. M \in SUBSET Slot /\ slot \in M BY <1>1, <1>3 DEF Members
<1>5. RingOf(u, p, M) BY <1>3 DEF Rings
<1>6. u.priorities[p] \in M /\ Circle(M, u.nextInPriority) BY <1>4, <1>5 DEF RingOf
<1>7. next \in M BY <1>2, <1>4, <1>6 DEF Circle
<1>8. next \in Slot /\ m[next] = p BY <1>3, <1>7 DEF Members
<1>9. PICK n \in RingMap : n = [m EXCEPT ![slot] = NoRing] BY DEF RingMap
<1>10. n[slot] = NoRing /\ \A s \in Slot \ {slot} : n[s] = m[s] BY <1>9 DEF RingMap
<1>11. Members(n, p) = M \ {slot} BY <1>3, <1>10, NoRingIsNone DEF Members
<1>12. PICK v : v = removeFromReadyList(u, slot) OBVIOUS
<1>13. /\ RingOf(v, p, M \ {slot}) /\ Elsewhere(u, v, m, p, slot)
       /\ v.nextInPriority[slot] = u.nextInPriority[slot]
  <2>1. CASE next = slot
    <3>1. M = {slot}
      <4>1. PICK f : f = u.nextInPriority OBVIOUS
      <4>2. Circle(M, f) /\ slot \in M /\ f[slot] = slot BY <1>2, <1>4, <1>6, <2>1, <4>1
      <4>. QED BY <4>2, CircleOfOne, Zenon
    <3>2. v = [u EXCEPT !.priorities[p] = NULL]
      BY <1>1, <1>2, <1>12, <2>1, Zenon DEF removeFromReadyList
    <3>3. /\ v.priorities[p] = NULL /\ v.nextInPriority = u.nextInPriority /\ v.stuck = u.stuck
          /\ \A q \in Priority \ {p} : v.priorities[q] = u.priorities[q]
      BY <3>2 DEF Table
    <3>4. M \ {slot} = {} BY <3>1
    <3>. QED BY <3>3, <3>4 DEF RingOf, Elsewhere
  <2>2. CASE next # slot
    <3>1. PICK prev : /\ prev = CHOOSE s \in getPrevReadySlot(u, slot) : TRUE
                      /\ getPrevReadySlot(u, slot) # {}
                      /\ prev \in M /\ u.nextInPriority[prev] = slot
      BY <1>1, <1>4, <1>5, PrevFound
    <3>2. v = [u EXCEPT !.nextInPriority[prev] = next,
                        !.priorities[p] = IF u.priorities[p] = slot THEN next
                                          ELSE u.priorities[p]]
      BY <1>1, <1>2, <1>12, <2>2, <3>1, Zenon DEF removeFromReadyList
    <3>3. prev # slot /\ prev \in Slot BY <1>2, <1>4, <2>2, <3>1
    <3>4. /\ v.stuck = u.stuck /\ v.nextInPriority[prev] = next
          /\ \A s \in Slot \ {prev} : v.nextInPriority[s] = u.nextInPriority[s]
          /\ v.priorities[p] = IF u.priorities[p] = slot THEN next ELSE u.priorities[p]
          /\ \A q \in Priority \ {p} : v.priorities[q] = u.priorities[q]
      BY <3>2, <3>3 DEF Table
    <3>5. PICK g : g = v.nextInPriority OBVIOUS
    <3>6. \A s \in M \ {prev} : g[s] = u.nextInPriority[s] BY <1>4, <3>4, <3>5
    <3>7. Circle(M \ {slot}, g)
      <4>1. PICK f : f = u.nextInPriority OBVIOUS
      <4>2. Circle(M, f) /\ f[prev] = slot /\ g[prev] = f[slot]
        BY <1>2, <1>6, <3>1, <3>4, <3>5, <4>1
      <4>3. \A s \in M \ {prev} : g[s] = f[s] BY <3>6, <4>1
      <4>4. prev \in M /\ slot \in M /\ prev # slot BY <1>4, <3>1, <3>3
      <4>5. PICK Q : Q = M \ {slot} OBVIOUS
      <4>6. Circle(Q, g) BY <4>2, <4>3, <4>4, <4>5, CircleShrinks
      <4>. QED BY <4>5, <4>6
    <3>8. v.priorities[p] \in M \ {slot} BY <1>6, <1>7, <2>2, <3>4
    <3>9. m[prev] = p BY <1>3, <3>1 DEF Members
    <3>10. \A s \in Slot : m[s] # p /\ s # slot => v.nextInPriority[s] = u.nextInPriority[s]
      BY <3>4, <3>9
    <3>11. v.nextInPriority[slot] = u.nextInPriority[slot] BY <3>3, <3>4
    <3>. QED BY <3>4, <3>5, <3>7, <3>8, <3>10, <3>11 DEF RingOf, Elsewhere
  <2>. QED BY <2>1, <2>2
<1>14. Rings(v, n)
  <2>1. m[slot] \in {p, NoRing} /\ n[slot] \in {p, NoRing} BY <1>1, <1>10
  <2>. QED BY <1>10, <1>11, <1>13, <2>1, RingChanged
<1>. QED BY <1>1, <1>2, <1>8, <1>9, <1>12, <1>13, <1>14

-----------------------------------------------------------------------------
(* The rings hold the ready processes.                                     *)

Ready(u, s) == u.status[s] \in {"READY", "RUNNING"}
OnRing(u) == [s \in Slot |-> IF Ready(u, s) THEN u.priority[s] ELSE NoRing]
NoneRuns(u) == \A s \in Slot : u.status[s] # "RUNNING"
Sound(u) == ~u.stuck /\ Rings(u, OnRing(u)) /\ NoneRuns(u)

\* What Whole says, of any table and pc.
WholeAs(u, q) ==
    /\ ~u.stuck
    /\ \A p \in Priority :
          WalkWhole(u, p, {s \in Slot : u.status[s] \in {"READY", "RUNNING"} /\ u.priority[s] = p})
    /\ ToSet(u.waitingList) = {s \in Slot : u.status[s] = "WAITING"}
    /\ q \in {"user", "block"}
          => u.status[u.currentProcess] = (IF q = "user" THEN "READY" ELSE "BLOCKED")

LEMMA WholeIs == (Whole <=> WholeAs(t, pc)) /\ (Whole' <=> WholeAs(t', pc'))
BY Zenon DEF Whole, WholeAs, RingWhole, WalkWhole, Current

LEMMA OnRingTyped ==
    ASSUME NEW u \in Table
    PROVE  /\ OnRing(u) \in RingMap
           /\ \A p \in Priority : Members(OnRing(u), p) = {s \in Slot : Ready(u, s) /\ u.priority[s] = p}
<1>1. \A s \in Slot : u.priority[s] \in Priority BY DEF Table
<1>2. OnRing(u) \in RingMap BY <1>1 DEF OnRing, RingMap
<1>. QED BY <1>1, <1>2, NoRingIsNone DEF OnRing, Members

LEMMA WholeIsSound ==
    ASSUME NEW u \in Table, NEW q, NoneRuns(u)
    PROVE  WholeAs(u, q) <=> /\ Sound(u) /\ Sleepers(u)
                             /\ q \in {"user", "block"}
                                   => u.status[u.currentProcess]
                                         = (IF q = "user" THEN "READY" ELSE "BLOCKED")
<1>1. (\A p \in Priority : WalkWhole(u, p, {s \in Slot : u.status[s] \in {"READY", "RUNNING"}
                                                         /\ u.priority[s] = p}))
         <=> Rings(u, OnRing(u))
  <2>1. ASSUME NEW p \in Priority
        PROVE  WalkWhole(u, p, {s \in Slot : u.status[s] \in {"READY", "RUNNING"}
                                             /\ u.priority[s] = p})
                  <=> RingOf(u, p, Members(OnRing(u), p))
    <3>1. PICK M \in SUBSET Slot : M = {s \in Slot : u.status[s] \in {"READY", "RUNNING"}
                                                     /\ u.priority[s] = p}
      OBVIOUS
    <3>2. Members(OnRing(u), p) = M BY <3>1, OnRingTyped, Zenon DEF Ready
    <3>3. WalkWhole(u, p, M) <=> RingOf(u, p, M) BY RingIsWhole
    <3>. QED BY <3>1, <3>2, <3>3, Zenon
  <2>. QED BY <2>1, Zenon DEF Rings
<1>2. ToSet(u.waitingList) = {s \in Slot : u.status[s] = "WAITING"} <=> Sleepers(u)
  <2>1. PICK list \in Seq(Slot) : list = u.waitingList BY DEF Table
  <2>2. \A s \in Slot : s \in ToSet(list) <=> In(list, s)
    <3>1. DOMAIN list = 1 .. Len(list) OBVIOUS
    <3>. QED BY <3>1, Zenon DEF ToSet, In
  <2>3. ToSet(list) \subseteq Slot BY DEF ToSet
  <2>. QED BY <2>1, <2>2, <2>3 DEF Sleepers
<1>. QED BY <1>1, <1>2, Zenon DEF WholeAs, Sound

\* The links, the statuses and the priorities are the same.
SameRings(u, v) == v.status = u.status /\ SameLinks(u, v)

LEMMA SameSound ==
    ASSUME NEW u, NEW v, Sound(u), SameRings(u, v)
    PROVE  Sound(v)
<1>1. OnRing(v) = OnRing(u) BY DEF OnRing, Ready, SameRings, SameLinks
<1>2. Rings(v, OnRing(u)) BY RingsStay DEF Sound, SameRings, SameLinks
<1>. QED BY <1>1, <1>2 DEF Sound, SameRings, SameLinks, NoneRuns

\* The one behind a slot that is on no ring: itself, or one that is ready.
Rests(u, s) ==
    LET next == u.nextInPriority[s]
    IN  \/ next = s
        \/ next \in Slot /\ u.status[next] = "READY" /\ u.priority[next] = u.priority[s]

\* The links of those that are on no ring, but for slot, are the same.
OthersRest(u, v, slot) ==
    \A s \in Slot \ {slot} : ~Ready(u, s) => v.nextInPriority[s] = u.nextInPriority[s]

\* schedContinue, of a process that is not ready.
LEMMA ContinueSound ==
    ASSUME NEW u \in Table, Sound(u), NEW pid, NEW slot \in Slot, slot = getByPid(u, pid),
           u.status[slot] \in {"WAITING", "BLOCKED"}
    PROVE  LET v == schedContinue(u, pid) IN
              Sound(v) /\ v.priority = u.priority /\ OthersRest(u, v, slot)
<1>1. PICK f \in [Slot -> Status] : f = [u.status EXCEPT ![slot] = "READY"]
  BY DEF Table, Status
<1>2. PICK w : w = [u EXCEPT !.status = f] OBVIOUS
<1>3. /\ w \in Table /\ w.status = f /\ w.priority = u.priority /\ w.stuck = u.stuck
      /\ w.nextInPriority = u.nextInPriority /\ w.priorities = u.priorities
  BY <1>2 DEF Table
<1>4. f[slot] = "READY" /\ \A s \in Slot \ {slot} : f[s] = u.status[s]
  BY <1>1 DEF Table
<1>5. PICK m \in RingMap : m = OnRing(u) BY OnRingTyped
<1>6. Rings(w, m) BY <1>3, <1>5, RingsStay DEF Sound
<1>7. m[slot] = NoRing BY <1>5 DEF OnRing, Ready
<1>8. PICK v : v = addToReadyList(w, slot) OBVIOUS
<1>9. RingOnly(w, v) BY <1>3, <1>8, AddRingOnly
<1>10. v.status = f /\ v.priority = u.priority /\ v \in Table BY <1>3, <1>9 DEF RingOnly
<1>11. PICK p \in Priority : p = u.priority[slot] BY DEF Table
<1>12. Rings(v, [m EXCEPT ![slot] = p]) /\ Elsewhere(w, v, m, p, slot)
  BY <1>3, <1>6, <1>7, <1>8, <1>11, AddRings
<1>13. OnRing(v) = [m EXCEPT ![slot] = p]
  <2>1. \A s \in Slot : OnRing(v)[s] = IF s = slot THEN p ELSE m[s]
    BY <1>4, <1>5, <1>10, <1>11 DEF OnRing, Ready
  <2>2. OnRing(v) \in RingMap BY <1>10, OnRingTyped
  <2>. QED BY <2>1, <2>2 DEF RingMap
<1>14. \A s \in Slot : ~Ready(u, s) => m[s] # p BY <1>5, NoRingIsNone DEF OnRing
<1>15. NoneRuns(v) BY <1>4, <1>10 DEF Sound, NoneRuns
<1>16. Sound(v) BY <1>3, <1>12, <1>13, <1>15 DEF Sound, Elsewhere
<1>17. OthersRest(u, v, slot) BY <1>3, <1>12, <1>14 DEF OthersRest, Elsewhere
<1>18. schedContinue(u, pid) = v
  <2>1. slot # NULL BY SlotsAreFinite
  <2>. QED BY <1>1, <1>2, <1>8, <2>1, Zenon DEF schedContinue
<1>. QED BY <1>10, <1>16, <1>17, <1>18

\* A ready process leaves its ring with its status.
LEMMA LeaveSound ==
    ASSUME NEW u \in Table, Sound(u), NEW slot \in Slot, u.status[slot] = "READY",
           NEW status \in {"WAITING", "BLOCKED", "DEAD", "FREE"},
           NEW v \in Table, SameLinks(removeFromReadyList(u, slot), v),
           \A s \in Slot : v.status[s] = IF s # slot THEN u.status[s] ELSE status
    PROVE  /\ Sound(v) /\ Rests(v, slot) /\ OthersRest(u, v, slot)
           /\ v.priority = u.priority
<1>1. PICK m \in RingMap : m = OnRing(u) BY OnRingTyped
<1>2. PICK p \in Priority : p = u.priority[slot] BY DEF Table
<1>3. m[slot] = p BY <1>1, <1>2 DEF OnRing, Ready
<1>0. PICK w : w = removeFromReadyList(u, slot) OBVIOUS
<1>4. /\ Rings(w, [m EXCEPT ![slot] = NoRing]) /\ Elsewhere(u, w, m, p, slot)
      /\ w.nextInPriority[slot] = u.nextInPriority[slot]
      /\ u.nextInPriority[slot] \in Slot /\ m[u.nextInPriority[slot]] = p
  BY <1>0, <1>1, <1>2, <1>3, RemoveRings DEF Sound
<1>5. RingOnly(u, w) /\ SameLinks(w, v) BY <1>0, RemoveRingOnly
<1>6. v.priority = u.priority BY <1>5 DEF RingOnly, SameLinks
<1>7. \A s \in Slot : v.status[s] = IF s = slot THEN status ELSE u.status[s] OBVIOUS
<1>8. OnRing(v) = [m EXCEPT ![slot] = NoRing]
  <2>1. \A s \in Slot : OnRing(v)[s] = IF s = slot THEN NoRing ELSE m[s]
    BY <1>1, <1>6, <1>7 DEF OnRing, Ready
  <2>2. OnRing(v) \in RingMap BY OnRingTyped
  <2>. QED BY <2>1, <2>2 DEF RingMap
<1>9. Rings(v, OnRing(v)) BY <1>4, <1>5, <1>8, RingsStay DEF SameLinks
<1>10. \A s \in Slot : ~Ready(u, s) => m[s] # p BY <1>1, NoRingIsNone DEF OnRing
<1>11. NoneRuns(v) BY <1>7 DEF Sound, NoneRuns
<1>12. Sound(v) BY <1>4, <1>5, <1>9, <1>11 DEF Sound, Elsewhere, SameLinks
<1>13. OthersRest(u, v, slot) BY <1>4, <1>5, <1>10 DEF OthersRest, Elsewhere, SameLinks
<1>14. Rests(v, slot)
  <2>1. PICK next \in Slot : next = u.nextInPriority[slot] /\ m[next] = p BY <1>4
  <2>2. u.status[next] = "READY" /\ u.priority[next] = p
    BY <1>1, <2>1, NoRingIsNone DEF OnRing, Ready, Sound, NoneRuns
  <2>. QED BY <1>2, <1>4, <1>5, <1>6, <1>7, <2>1, <2>2 DEF Rests, SameLinks
<1>. QED BY <1>6, <1>12, <1>13, <1>14

\* What is asked of the steps between: those that are ready or blocked, but
\* for slot, stay so, and who they are.
Steady(u, v, slot) ==
    \A s \in Slot \ {slot} : u.status[s] \in {"READY", "BLOCKED"}
        => v.status[s] = u.status[s] /\ v.pid[s] = u.pid[s] /\ v.priority[s] = u.priority[s]

\* A free slot goes onto the stack.
LEMMA FreedSound ==
    ASSUME NEW u \in Table, Sound(u), NEW slot \in Slot, u.status[slot] = "FREE"
    PROVE  LET v == addToFreeSlots(u, slot) IN
              v \in Table /\ Sound(v) /\ Steady(u, v, NULL) /\ v.status = u.status
<1>1. PICK v : v = addToFreeSlots(u, slot) OBVIOUS
<1>2. /\ v \in Table /\ v.status = u.status /\ v.priorities = u.priorities /\ v.stuck = u.stuck
      /\ \A s \in Slot \ {slot} : /\ v.pid[s] = u.pid[s] /\ v.priority[s] = u.priority[s]
                                  /\ v.nextInPriority[s] = u.nextInPriority[s]
  BY <1>1, FreedTyped
<1>3. PICK m \in RingMap : m = OnRing(u) BY OnRingTyped
<1>4. OnRing(v) = m
  <2>1. \A s \in Slot : OnRing(v)[s] = m[s] BY <1>2, <1>3 DEF OnRing, Ready
  <2>2. OnRing(v) \in RingMap BY <1>2, OnRingTyped
  <2>. QED BY <2>1, <2>2 DEF RingMap
<1>5. \A s \in Slot : m[s] \in Priority => s # slot
  BY <1>3, NoRingIsNone DEF OnRing, Ready
<1>6. Rings(v, m) BY <1>2, <1>3, <1>5, RingsStay DEF Sound
<1>7. Sound(v) BY <1>2, <1>4, <1>6 DEF Sound, NoneRuns
<1>8. Steady(u, v, NULL) BY <1>2 DEF Steady
<1>. QED BY <1>1, <1>2, <1>7, <1>8

\* schedAdd: the slot taken is on no ring yet.
LEMMA AddSound ==
    ASSUME NEW u \in Table, Kept(u), Sound(u), NEW pid \in Nat, NEW p \in Priority,
           \A s \in Slot : InUse(u, s) => u.pid[s] # pid, u.freeList # <<>>
    PROVE  LET v == schedAdd(u, pid, p) IN
              /\ v \in Table /\ Kept(v) /\ Sound(v) /\ Steady(u, v, NULL)
              /\ v.waitingList = u.waitingList /\ v.currentProcess = u.currentProcess
              /\ \E slot \in Slot : /\ u.status[slot] = "FREE" /\ v.status[slot] = "BLOCKED"
                                   /\ v.pid[slot] = pid
                                   /\ \A s \in Slot \ {slot} : v.status[s] = u.status[s]
<1>0. PICK v, slot : v = schedAdd(u, pid, p) /\ slot = Head(u.freeList) OBVIOUS
<1>1. /\ v \in Table /\ Kept(v)
      /\ v.waitingList = u.waitingList /\ v.currentProcess = u.currentProcess
      /\ v.priorities = u.priorities /\ v.stuck = u.stuck
      /\ slot \in Slot /\ u.status[slot] = "FREE" /\ v.pid[slot] = pid
      /\ v.status[slot] = "BLOCKED"
      /\ \A s \in Slot \ {slot} : /\ v.status[s] = u.status[s] /\ v.pid[s] = u.pid[s]
                                  /\ v.priority[s] = u.priority[s]
                                  /\ v.nextInPriority[s] = u.nextInPriority[s]
  BY <1>0, AddKeeps
<1>2. PICK m \in RingMap : m = OnRing(u) BY OnRingTyped
<1>3. OnRing(v) = m
  <2>1. \A s \in Slot : OnRing(v)[s] = m[s] BY <1>1, <1>2 DEF OnRing, Ready
  <2>2. OnRing(v) \in RingMap BY <1>1, OnRingTyped
  <2>. QED BY <2>1, <2>2 DEF RingMap
<1>4. \A s \in Slot : m[s] \in Priority => s # slot
  BY <1>1, <1>2, NoRingIsNone DEF OnRing, Ready
<1>5. Rings(v, m) BY <1>1, <1>2, <1>4, RingsStay DEF Sound
<1>6. Sound(v) BY <1>1, <1>3, <1>5 DEF Sound, NoneRuns
<1>7. Steady(u, v, NULL) BY <1>1 DEF Steady
<1>. QED BY <1>0, <1>1, <1>6, <1>7

\* schedContinue, of a process that waits or is blocked.
LEMMA ContinueSteady ==
    ASSUME NEW u \in Table, Kept(u), Sound(u), NEW slot \in Slot, NEW pid, pid = u.pid[slot],
           u.status[slot] \in {"WAITING", "BLOCKED"}
    PROVE  LET v == schedContinue(u, pid) IN
              /\ v \in Table /\ Kept(v) /\ Calm(u, v) /\ Sound(v) /\ v.priority = u.priority
              /\ Steady(u, v, slot) /\ OthersRest(u, v, slot)
              /\ \A s \in Slot : v.status[s] = IF s = slot THEN "READY" ELSE u.status[s]
<1>1. pid \in Nat BY DEF Table
<1>2. slot = getByPid(u, pid) BY GetByPidFinds DEF Kept
<1>3. PICK v : v = schedContinue(u, pid) OBVIOUS
<1>4. /\ v \in Table /\ Kept(v) /\ Calm(u, v)
      /\ \A s \in Slot : v.status[s] = IF s = slot THEN "READY" ELSE u.status[s]
  <2>1. /\ v \in Table /\ Kept(v) /\ Calm(u, v)
        /\ \A s \in Slot : v.status[s] = IF s = getByPid(u, pid) THEN "READY" ELSE u.status[s]
    BY <1>1, <1>3, ContinueKeeps, Zenon
  <2>. QED BY <1>2, <2>1, Zenon
<1>5. Sound(v) /\ v.priority = u.priority /\ OthersRest(u, v, slot)
  BY <1>2, <1>3, ContinueSound
<1>6. Steady(u, v, slot) BY <1>4, <1>5 DEF Steady, Calm
<1>. QED BY <1>3, <1>4, <1>5, <1>6

\* schedChangeStatus makes a blocked process ready.
LEMMA WakeSound ==
    ASSUME NEW u \in Table, Kept(u), Sound(u), NEW slot \in Slot, NEW pid, pid = u.pid[slot],
           u.status[slot] = "BLOCKED"
    PROVE  LET v == schedChangeStatus(u, pid, "READY") IN
              /\ v \in Table /\ Kept(v) /\ Calm(u, v) /\ Sound(v) /\ v.priority = u.priority
              /\ Steady(u, v, slot) /\ OthersRest(u, v, slot)
              /\ \A s \in Slot : v.status[s] = IF s = slot THEN "READY" ELSE u.status[s]
<1>1. pid \in Nat BY DEF Table
<1>2. slot = getByPid(u, pid) BY GetByPidFinds DEF Kept
<1>3. slot # NULL BY SlotsAreFinite
<1>4. schedChangeStatus(u, pid, "READY") = schedContinue(u, pid)
  <2>1. "READY" # "BLOCKED" OBVIOUS
  <2>. QED BY <1>2, <1>3, <2>1, Zenon DEF schedChangeStatus
<1>. QED BY <1>4, ContinueSteady

\* schedChangeStatus blocks a ready process.
LEMMA BlockSound ==
    ASSUME NEW u \in Table, Kept(u), Sound(u), NEW slot \in Slot, NEW pid, pid = u.pid[slot],
           u.status[slot] = "READY"
    PROVE  LET v == schedChangeStatus(u, pid, "BLOCKED") IN
              /\ v \in Table /\ Calm(u, v) /\ Sound(v) /\ Steady(u, v, slot) /\ Rests(v, slot)
              /\ \A s \in Slot : v.status[s] = IF s = slot THEN "BLOCKED" ELSE u.status[s]
<1>1. pid \in Nat BY DEF Table
<1>2. slot = getByPid(u, pid) BY GetByPidFinds DEF Kept
<1>3. slot # NULL BY SlotsAreFinite
<1>4. PICK w : w = removeFromReadyList(u, slot) OBVIOUS
<1>5. w \in Table /\ Calm(u, w) /\ w.status = u.status BY <1>4, RemoveRingOnly, RingOnlyCalm
<1>6. PICK f \in [Slot -> Status] : f = [w.status EXCEPT ![slot] = "BLOCKED"]
  BY <1>5 DEF Table, Status
<1>7. PICK v : v = [w EXCEPT !.status = f] OBVIOUS
<1>8. v \in Table /\ Calm(w, v) /\ v.status = f /\ SameLinks(w, v)
  BY <1>5, <1>7 DEF Table, Calm, SameLinks
<1>9. \A s \in Slot : v.status[s] = IF s = slot THEN "BLOCKED" ELSE u.status[s]
  BY <1>5, <1>6, <1>8 DEF Table
<1>10. Calm(u, v) BY <1>5, <1>8 DEF Calm
<1>11. Sound(v) /\ Rests(v, slot) /\ v.priority = u.priority
  <2>1. SameLinks(removeFromReadyList(u, slot), v) BY <1>4, <1>8
  <2>2. \A s \in Slot : v.status[s] = IF s # slot THEN u.status[s] ELSE "BLOCKED" BY <1>9
  <2>. QED BY <1>8, <2>1, <2>2, LeaveSound
<1>12. Steady(u, v, slot) BY <1>9, <1>10, <1>11 DEF Steady, Calm
<1>13. schedChangeStatus(u, pid, "BLOCKED") = v
  <2>1. schedChangeStatus(u, pid, "BLOCKED") = schedBlock(u, pid)
    BY <1>2, <1>3, Zenon DEF schedChangeStatus
  <2>2. ~(slot = NULL \/ u.status[slot] \notin {"READY", "RUNNING"}) BY <1>3
  <2>3. schedBlock(u, pid) = [w EXCEPT !.status[slot] = "BLOCKED"]
    BY <1>2, <1>4, <2>2, Zenon DEF schedBlock
  <2>. QED BY <1>6, <1>7, <2>1, <2>3, Zenon
<1>. QED BY <1>8, <1>9, <1>10, <1>11, <1>12, <1>13

\* schedSetPriority of a ready process.
LEMMA SetPrioritySound ==
    ASSUME NEW u \in Table, Kept(u), Sound(u), NEW slot \in Slot, NEW pid, pid = u.pid[slot],
           u.status[slot] = "READY", NEW p \in Priority
    PROVE  Sound(schedSetPriority(u, pid, p))
<1>1. pid \in Nat BY DEF Table
<1>2. slot = getByPid(u, pid) BY GetByPidFinds DEF Kept
<1>3. slot # NULL BY SlotsAreFinite
<1>4. PICK m \in RingMap : m = OnRing(u) BY OnRingTyped
<1>5. PICK q \in Priority : q = u.priority[slot] BY DEF Table
<1>6. m[slot] = q BY <1>4, <1>5 DEF OnRing, Ready
<1>7. PICK w : w = removeFromReadyList(u, slot) OBVIOUS
<1>8. w \in Table /\ w.status = u.status /\ w.priority = u.priority /\ RingOnly(u, w)
  BY <1>7, RemoveRingOnly DEF RingOnly
<1>9. PICK n \in RingMap : n = [m EXCEPT ![slot] = NoRing] BY DEF RingMap
<1>10. n[slot] = NoRing /\ \A s \in Slot \ {slot} : n[s] = m[s] BY <1>9 DEF RingMap
<1>11. Rings(w, n) /\ Elsewhere(u, w, m, q, slot)
  BY <1>4, <1>5, <1>6, <1>7, <1>9, RemoveRings DEF Sound
<1>12. PICK f \in [Slot -> Priority] : f = [w.priority EXCEPT ![slot] = p]
  BY <1>8 DEF Table
<1>13. PICK x : x = [w EXCEPT !.priority = f] OBVIOUS
<1>14. /\ x \in Table /\ x.status = u.status /\ x.priority = f /\ x.stuck = w.stuck
       /\ x.nextInPriority = w.nextInPriority /\ x.priorities = w.priorities
  BY <1>8, <1>13 DEF Table
<1>15. f[slot] = p /\ \A s \in Slot \ {slot} : f[s] = u.priority[s]
  BY <1>8, <1>12 DEF Table
<1>16. Rings(x, n) BY <1>11, <1>14, RingsStay
<1>17. PICK v : v = addToReadyList(x, slot) OBVIOUS
<1>18. v \in Table /\ v.status = u.status /\ v.priority = f
  BY <1>14, <1>17, AddRingOnly DEF RingOnly
<1>19. PICK k \in RingMap : k = [n EXCEPT ![slot] = p] BY DEF RingMap
<1>20. Rings(v, k) /\ Elsewhere(x, v, n, p, slot)
  BY <1>10, <1>14, <1>15, <1>16, <1>17, <1>19, AddRings
<1>21. OnRing(v) = k
  <2>1. \A s \in Slot : k[s] = IF s = slot THEN p ELSE m[s] BY <1>10, <1>19 DEF RingMap
  <2>2. \A s \in Slot : OnRing(v)[s] = k[s]
    BY <1>4, <1>15, <1>18, <2>1 DEF OnRing, Ready
  <2>3. OnRing(v) \in RingMap BY <1>18, OnRingTyped
  <2>. QED BY <2>2, <2>3 DEF RingMap
<1>22. Sound(v)
  BY <1>11, <1>14, <1>18, <1>20, <1>21 DEF Sound, NoneRuns, Elsewhere
<1>23. schedSetPriority(u, pid, p) = v
  <2>1. x = [w EXCEPT !.priority[slot] = p] BY <1>12, <1>13, Zenon
  <2>2. x.status[slot] \in {"READY", "RUNNING"} BY <1>14
  <2>. QED BY <1>2, <1>3, <1>7, <1>17, <2>1, <2>2, Zenon DEF schedSetPriority
<1>. QED BY <1>22, <1>23

\* schedSleep.
LEMMA SleepSound ==
    ASSUME NEW u \in Table, Kept(u), Sound(u), Sleepers(u), NoTwice(u.waitingList),
           NEW slot \in Slot, slot = u.currentProcess, u.status[slot] = "READY", NEW ticks \in Nat
    PROVE  LET v == schedSleep(u, ticks) IN
              /\ v \in Table /\ v.currentProcess = slot
              /\ Sound(v) /\ Sleepers(v) /\ Steady(u, v, slot)
              /\ \/ v.status[slot] = "READY"
                 \/ v.status[slot] = "WAITING" /\ Rests(v, slot)
<1>1. CASE ticks < 1
  <2>1. schedSleep(u, ticks) = u BY <1>1, Zenon DEF schedSleep
  <2>. QED BY <2>1 DEF Steady
<1>2. CASE ~(ticks < 1)
  <2>1. PICK w : w = removeFromReadyList(u, slot) OBVIOUS
  <2>2. w \in Table /\ Calm(u, w) /\ w.status = u.status BY <2>1, RemoveRingOnly, RingOnlyCalm
  <2>3. PICK f \in [Slot -> Status] : f = [w.status EXCEPT ![slot] = "WAITING"]
    BY <2>2 DEF Table, Status
  <2>4. PICK x : x = [w EXCEPT !.status = f] OBVIOUS
  <2>5. x \in Table /\ Calm(w, x) /\ x.status = f /\ SameLinks(w, x)
    BY <2>2, <2>4 DEF Table, Calm, SameLinks
  <2>6. \A s \in Slot : x.status[s] = IF s # slot THEN u.status[s] ELSE "WAITING"
    BY <2>2, <2>3, <2>5 DEF Table
  <2>7. Sound(x) /\ Rests(x, slot) /\ x.priority = u.priority
    <3>1. SameLinks(removeFromReadyList(u, slot), x) BY <2>1, <2>5
    <3>. QED BY <2>5, <2>6, <3>1, LeaveSound
  <2>8. x.waitingList = u.waitingList /\ x.pid = u.pid /\ x.currentProcess = u.currentProcess
    BY <2>2, <2>5 DEF Calm
  <2>9. PICK y : y = enqueTicks(x, slot, ticks) OBVIOUS
  <2>10. /\ y \in Table /\ SameRings(x, y) /\ y.pid = x.pid /\ y.currentProcess = x.currentProcess
         /\ \A s \in Slot : In(y.waitingList, s) <=> s = slot \/ In(x.waitingList, s)
    <3>1. ~In(x.waitingList, slot) BY <2>8 DEF Sleepers
    <3>2. ticks \in Nat \ {0} BY <1>2
    <3>3. NoTwice(x.waitingList) BY <2>8
    <3>4. /\ y \in Table /\ y.pid = x.pid /\ y.status = x.status
          /\ y.currentProcess = x.currentProcess
          /\ y.priority = x.priority /\ y.nextInPriority = x.nextInPriority
          /\ y.priorities = x.priorities /\ y.stuck = x.stuck
          /\ \A s \in Slot : In(y.waitingList, s) <=> s = slot \/ In(x.waitingList, s)
      BY <2>5, <2>9, <3>1, <3>2, <3>3, EnqueKeeps
    <3>. QED BY <3>4 DEF SameRings, SameLinks
  <2>11. Sound(y) BY <2>7, <2>10, SameSound
  <2>12. Sleepers(y) BY <2>6, <2>8, <2>10 DEF Sleepers, SameRings
  <2>13. Rests(y, slot) BY <2>7, <2>10 DEF Rests, SameRings, SameLinks
  <2>14. Steady(u, y, slot) BY <2>6, <2>7, <2>8, <2>10 DEF Steady, SameRings, SameLinks
  <2>15. schedSleep(u, ticks) = y BY <1>2, <2>1, <2>3, <2>4, <2>9, Zenon DEF schedSleep
  <2>. QED BY <2>6, <2>8, <2>10, <2>11, <2>12, <2>13, <2>14, <2>15 DEF SameRings
<1>. QED BY <1>1, <1>2

\* schedRemove, whether the process is on its ring or not.
LEMMA RemoveSteady ==
    ASSUME NEW u \in Table, Kept(u), NEW slot \in Slot, InUse(u, slot),
           NEW pid, pid = u.pid[slot]
    PROVE  LET v == schedRemove(u, pid) IN
              /\ v \in Table /\ Kept(v) /\ v.currentProcess = u.currentProcess
              /\ v.waitingList = u.waitingList /\ Steady(u, v, slot)
              /\ \A s \in Slot : v.status[s] = IF s # slot THEN u.status[s]
                                              ELSE IF slot = u.currentProcess THEN "DEAD"
                                              ELSE "FREE"
              /\ Sound(u) /\ u.status[slot] = "READY" => Sound(v)
<1>1. pid \in Nat BY DEF Table
<1>2. slot = getByPid(u, pid) BY GetByPidFinds DEF Kept, InUse
<1>3. slot # NULL BY SlotsAreFinite
<1>4. PICK v : v = schedRemove(u, pid) OBVIOUS
<1>5. /\ v \in Table /\ Kept(v) /\ SameSleepers(u, v) /\ v.currentProcess = u.currentProcess
      /\ Parted(u, v, slot)
  <2>1. /\ v \in Table /\ Kept(v) /\ SameSleepers(u, v) /\ v.currentProcess = u.currentProcess
        /\ getByPid(u, pid) # NULL => Parted(u, v, getByPid(u, pid))
    BY <1>1, <1>4, RemoveKeeps, Zenon
  <2>. QED BY <1>2, <1>3, <2>1, Zenon
<1>6. PICK x \in Table : PartedAs(u, x, v, slot) BY <1>5, Zenon DEF Parted
<1>7. /\ SameLinks(removeFromReadyList(u, slot), x) /\ x.pid = u.pid
      /\ \A s \in Slot : x.status[s] = IF s # slot THEN u.status[s]
                                      ELSE IF slot = u.currentProcess THEN "DEAD" ELSE "FREE"
      /\ v = IF slot = u.currentProcess THEN x ELSE addToFreeSlots(x, slot)
  BY <1>6, Zenon DEF PartedAs
<1>8. x.priority = u.priority
  <2>1. PICK w : w = removeFromReadyList(u, slot) OBVIOUS
  <2>2. w.priority = u.priority BY <2>1, RemoveRingOnly DEF RingOnly
  <2>. QED BY <1>7, <2>1, <2>2 DEF SameLinks
<1>9. v.waitingList = u.waitingList BY <1>5 DEF SameSleepers
<1>10. ASSUME Sound(u), u.status[slot] = "READY" PROVE Sound(x)
  <2>1. PICK status \in {"WAITING", "BLOCKED", "DEAD", "FREE"} :
           status = IF slot = u.currentProcess THEN "DEAD" ELSE "FREE"
    OBVIOUS
  <2>2. \A s \in Slot : x.status[s] = IF s # slot THEN u.status[s] ELSE status BY <1>7, <2>1
  <2>. QED BY <1>7, <1>10, <2>2, LeaveSound
<1>11. CASE slot = u.currentProcess
  <2>1. v = x BY <1>7, <1>11
  <2>2. Steady(u, x, slot) BY <1>7, <1>8 DEF Steady
  <2>. QED BY <1>4, <1>5, <1>7, <1>9, <1>10, <2>1, <2>2
<1>12. CASE slot # u.currentProcess
  <2>1. v = addToFreeSlots(x, slot) /\ x.status[slot] = "FREE" BY <1>7, <1>12
  <2>2. /\ v.status = x.status
        /\ \A s \in Slot \ {slot} : v.pid[s] = x.pid[s] /\ v.priority[s] = x.priority[s]
    BY <2>1, FreedTyped
  <2>3. Steady(u, v, slot) BY <1>7, <1>8, <2>2 DEF Steady
  <2>4. Sound(x) => Sound(v) BY <2>1, FreedSound
  <2>. QED BY <1>4, <1>5, <1>7, <1>9, <1>10, <2>2, <2>3, <2>4
<1>. QED BY <1>11, <1>12

\* y is x with the first j of the list ready; the others of them still wait.
AwakeTo(u, x, y, j) ==
    /\ Kept(y) /\ Calm(x, y) /\ Sound(y) /\ y.priority = x.priority
    /\ \A s \in Slot : y.status[s] = IF \E i \in 1 .. j : u.waitingList[i] = s THEN "READY"
                                    ELSE u.status[s]
    /\ \A s \in Slot : ~Ready(y, s) => y.nextInPriority[s] = x.nextInPriority[s]

\* schedTicks: those whose time is over join their rings.
LEMMA TicksSound ==
    ASSUME NEW u \in Table, Sound(u), Sleepers(u), NoTwice(u.waitingList), NEW v, Ticked(u, v)
    PROVE  /\ Sound(v) /\ Sleepers(v) /\ v.priority = u.priority /\ v.pid = u.pid
           /\ \A s \in Slot : v.status[s] # u.status[s] => u.status[s] = "WAITING" /\ v.status[s] = "READY"
           /\ \A s \in Slot : ~Ready(v, s) => v.nextInPriority[s] = u.nextInPriority[s]
<1>1. CASE v = u BY <1>1
<1>2. CASE v # u
  <2>1. PICK pids : \E x \in Table, n \in Nat :
           /\ TickedTo(u, x, n, pids)
           /\ \E w \in [0 .. n -> Table] : WokenIs(w, x, n, pids) /\ v = w[n]
    BY <1>2, Zenon DEF Ticked
  <2>2. PICK x \in Table, n \in Nat :
           /\ TickedTo(u, x, n, pids)
           /\ \E w \in [0 .. n -> Table] : WokenIs(w, x, n, pids) /\ v = w[n]
    BY <2>1, Zenon
  <2>3. PICK w \in [0 .. n -> Table] : WokenIs(w, x, n, pids) /\ v = w[n] BY <2>2, Zenon
  <2>4. w[0] = x /\ \A j \in 1 .. n : w[j] = schedContinue(w[j - 1], pids[j])
    BY <2>3, Zenon DEF WokenIs
  <2>5. PICK list \in Seq(Slot) : list = u.waitingList BY DEF Table
  <2>6. /\ Kept(x) /\ SameLinks(u, x) /\ x.status = u.status /\ x.pid = u.pid
        /\ n <= Len(list) /\ Len(x.waitingList) = Len(list) - n
        /\ \A k \in 1 .. Len(x.waitingList) : x.waitingList[k] = list[k + n]
        /\ \A j \in 1 .. n : pids[j] = u.pid[list[j]]
    BY <2>2, <2>5, Zenon DEF TickedTo
  <2>7. PICK m \in Nat : m = Len(list) BY <2>5
  <2>8. \A a, b \in 1 .. m : list[a] = list[b] => a = b BY <2>5, <2>7 DEF NoTwice
  <2>9. \A a \in 1 .. m : list[a] \in Slot /\ u.status[list[a]] = "WAITING"
    <3>1. \A a \in 1 .. m : list[a] \in Slot BY <2>7
    <3>2. \A a \in 1 .. m : In(list, list[a]) BY <2>7 DEF In
    <3>. QED BY <2>5, <3>1, <3>2 DEF Sleepers
  <2>. DEFINE Good == {j \in 0 .. n : AwakeTo(u, x, w[j], j)}
  <2>10. 0 \in Good
    <3>1. Sound(x) BY <2>6, SameSound DEF SameRings
    <3>2. AwakeTo(u, x, x, 0) BY <2>6, <3>1 DEF AwakeTo, Calm
    <3>3. 0 \in 0 .. n OBVIOUS
    <3>. QED BY <2>4, <3>2, <3>3
  <2>11. ASSUME NEW j \in 1 .. n, j - 1 \in Good PROVE j \in Good
    <3>1. PICK y \in Table : y = w[j - 1]
      <4>1. j - 1 \in 0 .. n OBVIOUS
      <4>. QED BY <4>1
    <3>2. /\ Kept(y) /\ Calm(x, y) /\ Sound(y) /\ y.priority = x.priority
          /\ \A s \in Slot : y.status[s] = IF \E i \in 1 .. j - 1 : list[i] = s THEN "READY"
                                          ELSE u.status[s]
          /\ \A s \in Slot : ~Ready(y, s) => y.nextInPriority[s] = x.nextInPriority[s]
      BY <2>5, <2>11, <3>1, Zenon DEF AwakeTo
    <3>3. PICK slot \in Slot : slot = list[j] /\ u.status[slot] = "WAITING"
      <4>1. j \in 1 .. m BY <2>6, <2>7
      <4>. QED BY <2>9, <4>1
    <3>4. ~\E i \in 1 .. j - 1 : list[i] = slot
      <4>1. j \in 1 .. m /\ \A i \in 1 .. j - 1 : i \in 1 .. m /\ i # j BY <2>6, <2>7
      <4>. QED BY <2>8, <3>3, <4>1
    <3>5. y.status[slot] = "WAITING" BY <3>2, <3>3, <3>4
    <3>6. PICK pid : pid = pids[j] /\ pid = y.pid[slot]
      <4>1. pids[j] = y.pid[slot] BY <2>6, <3>2, <3>3 DEF Calm
      <4>. QED BY <4>1
    <3>7. PICK z : z = schedContinue(y, pid) OBVIOUS
    <3>8. /\ z \in Table /\ Kept(z) /\ Calm(y, z) /\ Sound(z) /\ z.priority = y.priority
          /\ OthersRest(y, z, slot)
          /\ \A s \in Slot : z.status[s] = IF s = slot THEN "READY" ELSE y.status[s]
      BY <3>2, <3>5, <3>6, <3>7, ContinueSteady
    <3>9. w[j] = z BY <2>4, <3>1, <3>6, <3>7, Zenon
    <3>10. \A s \in Slot : z.status[s] = IF \E i \in 1 .. j : list[i] = s THEN "READY"
                                       ELSE u.status[s]
      <4>1. \A i : i \in 1 .. j <=> i \in 1 .. j - 1 \/ i = j OBVIOUS
      <4>2. \A s \in Slot : (\E i \in 1 .. j : list[i] = s)
                               <=> (\E i \in 1 .. j - 1 : list[i] = s) \/ s = slot
        BY <3>3, <4>1, Zenon
      <4>. QED BY <3>2, <3>8, <4>2
    <3>11. \A s \in Slot : ~Ready(z, s) => z.nextInPriority[s] = x.nextInPriority[s]
      BY <3>2, <3>8 DEF OthersRest, Ready
    <3>12. Calm(x, z) BY <3>2, <3>8 DEF Calm
    <3>13. AwakeTo(u, x, z, j) BY <2>5, <3>2, <3>8, <3>10, <3>11, <3>12, ZenonT(30) DEF AwakeTo
    <3>14. j \in 0 .. n OBVIOUS
    <3>. QED BY <3>9, <3>13, <3>14
  <2>12. AwakeTo(u, x, v, n)
    <3>1. Good \in SUBSET (0 .. n) /\ n \in 0 .. n OBVIOUS
    <3>2. \A j \in Good : AwakeTo(u, x, w[j], j) OBVIOUS
    <3>. HIDE DEF Good
    <3>3. Good = 0 .. n BY <2>10, <2>11, <3>1, RoundByRound
    <3>. QED BY <2>3, <3>1, <3>2, <3>3
  <2>. HIDE DEF Good
  <2>13. /\ Calm(x, v) /\ Sound(v) /\ v.priority = x.priority
         /\ \A s \in Slot : v.status[s] = IF \E i \in 1 .. n : list[i] = s THEN "READY"
                                         ELSE u.status[s]
         /\ \A s \in Slot : ~Ready(v, s) => v.nextInPriority[s] = x.nextInPriority[s]
    BY <2>5, <2>12, Zenon DEF AwakeTo
  <2>14. PICK rest : rest = v.waitingList /\ rest = x.waitingList BY <2>13 DEF Calm
  <2>15. Sleepers(v)
    <3>1. \A s \in Slot : In(list, s) <=> u.status[s] = "WAITING" BY <2>5 DEF Sleepers
    <3>2. ASSUME NEW s \in Slot, In(rest, s) PROVE v.status[s] = "WAITING"
      <4>1. PICK k \in 1 .. m - n : list[k + n] = s BY <2>6, <2>7, <2>14, <3>2 DEF In
      <4>2. k + n \in 1 .. m /\ \A i \in 1 .. n : i \in 1 .. m /\ i # k + n
        BY <2>6, <2>7
      <4>3. ~\E i \in 1 .. n : list[i] = s BY <2>8, <4>1, <4>2
      <4>. QED BY <2>9, <2>13, <4>1, <4>2, <4>3
    <3>3. ASSUME NEW s \in Slot, v.status[s] = "WAITING" PROVE In(rest, s)
      <4>1. u.status[s] = "WAITING" /\ ~\E i \in 1 .. n : list[i] = s BY <2>13, <3>3
      <4>2. PICK a \in 1 .. m : list[a] = s BY <2>7, <3>1, <4>1 DEF In
      <4>3. a \notin 1 .. n BY <4>1, <4>2
      <4>4. a - n \in 1 .. m - n /\ (a - n) + n = a BY <2>6, <2>7, <4>3
      <4>5. PICK k \in 1 .. Len(rest) : k = a - n BY <2>6, <2>7, <2>14, <4>4
      <4>6. rest[k] = s BY <2>6, <2>14, <4>2, <4>4, <4>5
      <4>. QED BY <4>6 DEF In
    <3>. QED BY <2>14, <3>2, <3>3 DEF Sleepers
  <2>16. \A s \in Slot : v.status[s] # u.status[s] => u.status[s] = "WAITING" /\ v.status[s] = "READY"
    <3>1. \A i \in 1 .. n : i \in 1 .. m BY <2>6, <2>7
    <3>. QED BY <2>9, <2>13, <3>1, SMTT(30)
  <2>. QED BY <2>6, <2>13, <2>15, <2>16 DEF SameLinks, Calm
<1>. QED BY <1>1, <1>2

-----------------------------------------------------------------------------
(* The scheduler's choice.                                                  *)

\* What schedSchedule does with a dead process.
Evicted(u, slot) ==
    addToFreeSlots(removeFromReadyList([u EXCEPT !.status[slot] = "FREE"], slot), slot)

LEMMA EvictSteady ==
    ASSUME NEW u \in Table, NEW slot \in Slot, u.status[slot] = "DEAD"
    PROVE  LET v == Evicted(u, slot) IN
              /\ v \in Table /\ Steady(u, v, NULL) /\ v.waitingList = u.waitingList
              /\ \A s \in Slot : v.status[s] = IF s = slot THEN "FREE" ELSE u.status[s]
              /\ /\ Sound(u) /\ u.nextInPriority[slot] = slot
                 /\ u.priorities[u.priority[slot]] = NULL
                 => Sound(v)
<1>1. PICK f \in [Slot -> Status] : f = [u.status EXCEPT ![slot] = "FREE"]
  BY DEF Table, Status
<1>2. PICK w : w = [u EXCEPT !.status = f] OBVIOUS
<1>3. /\ w \in Table /\ w.status = f /\ SameLinks(u, w) /\ w.pid = u.pid
      /\ w.waitingList = u.waitingList
  BY <1>2 DEF Table, SameLinks
<1>4. \A s \in Slot : f[s] = IF s = slot THEN "FREE" ELSE u.status[s] BY <1>1 DEF Table
<1>5. PICK x : x = removeFromReadyList(w, slot) OBVIOUS
<1>6. /\ x \in Table /\ x.status = f /\ x.pid = u.pid /\ x.priority = u.priority
      /\ x.waitingList = u.waitingList
  <2>1. RingOnly(w, x) BY <1>3, <1>5, RemoveRingOnly
  <2>. QED BY <1>3, <2>1 DEF RingOnly, SameLinks
<1>7. PICK v : v = addToFreeSlots(x, slot) OBVIOUS
<1>8. /\ v \in Table /\ v.status = x.status /\ v.waitingList = x.waitingList
      /\ \A s \in Slot \ {slot} : v.pid[s] = x.pid[s] /\ v.priority[s] = x.priority[s]
  BY <1>6, <1>7, FreedTyped
<1>9. Evicted(u, slot) = v BY <1>1, <1>2, <1>5, <1>7, Zenon DEF Evicted
<1>10. Steady(u, v, NULL)
  <2>1. SUFFICES ASSUME NEW s \in Slot, u.status[s] \in {"READY", "BLOCKED"}
                 PROVE  /\ v.status[s] = u.status[s] /\ v.pid[s] = u.pid[s]
                        /\ v.priority[s] = u.priority[s]
    BY DEF Steady
  <2>2. s # slot BY <2>1
  <2>. QED BY <1>4, <1>6, <1>8, <2>2
<1>11. ASSUME Sound(u), u.nextInPriority[slot] = slot, u.priorities[u.priority[slot]] = NULL
       PROVE  Sound(v)
  <2>1. OnRing(w) = OnRing(u)
    <3>1. \A s \in Slot : OnRing(w)[s] = OnRing(u)[s]
      BY <1>3, <1>4 DEF OnRing, Ready, SameLinks
    <3>2. OnRing(w) \in RingMap /\ OnRing(u) \in RingMap BY <1>3, OnRingTyped
    <3>. QED BY <3>1, <3>2 DEF RingMap
  <2>2. Rings(w, OnRing(u)) BY <1>3, <1>11, RingsStay DEF Sound, SameLinks
  <2>3. Sound(w) BY <1>3, <1>4, <1>11, <2>1, <2>2 DEF Sound, NoneRuns, SameLinks
  <2>4. PICK p \in Priority : p = u.priority[slot] BY DEF Table
  <2>5. x = [w EXCEPT !.priorities[p] = NULL]
    <3>1. w.nextInPriority[slot] = slot /\ w.priority[slot] = p
      BY <1>3, <1>11, <2>4 DEF SameLinks
    <3>. QED BY <1>5, <3>1, Zenon DEF removeFromReadyList
  <2>6. [w.priorities EXCEPT ![p] = NULL] = w.priorities
    <3>1. w.priorities[p] = NULL BY <1>3, <1>11, <2>4 DEF SameLinks
    <3>. QED BY <1>3, <3>1 DEF Table
  <2>7. SameRings(w, x) BY <1>3, <2>5, <2>6 DEF Table, SameRings, SameLinks
  <2>8. Sound(x) BY <2>3, <2>7, SameSound
  <2>9. x.status[slot] = "FREE" BY <1>4, <1>6
  <2>. QED BY <1>6, <1>7, <2>8, <2>9, FreedSound
<1>. QED BY <1>4, <1>6, <1>8, <1>9, <1>10, <1>11

\* Whom schedSchedule takes from a ring.
NextOf(u, level) ==
    IF u.priority[u.currentProcess] = level THEN u.nextInPriority[u.currentProcess]
    ELSE u.priorities[level]
Highest(u, level) == level \in Levels(u) /\ \A q \in Levels(u) : level <= q

\* x is u with the next process first of its ring.
TurnedTo(u, x, level) ==
    /\ x.status = u.status /\ x.pid = u.pid /\ x.priority = u.priority
    /\ x.nextInPriority = u.nextInPriority /\ x.stuck = u.stuck /\ x.waitingList = u.waitingList
    /\ \A p \in Priority : x.priorities[p] = IF p = level THEN NextOf(u, level)
                                            ELSE u.priorities[p]

\* v is w with the next process current.
PassedTo(w, v, next) ==
    /\ v \in Table /\ SameRings(w, v) /\ v.pid = w.pid /\ v.waitingList = w.waitingList
    /\ v.currentProcess = next

Turned(u, v, level) ==
    \E x, w \in Table :
       /\ TurnedTo(u, x, level) /\ PassedTo(w, v, NextOf(u, level))
       /\ w = IF u.status[u.currentProcess] = "DEAD" THEN Evicted(x, u.currentProcess) ELSE x

LEMMA LevelsAre ==
    ASSUME NEW u \in Table, Levels(u) # {}
    PROVE  \E level \in Priority :
              /\ level = CHOOSE p \in Levels(u) : \A q \in Levels(u) : p <= q
              /\ Highest(u, level)
<1>. DEFINE level == CHOOSE p \in Levels(u) : \A q \in Levels(u) : p <= q
<1>1. Levels(u) \in SUBSET Nat BY Sizes DEF Levels, Priority
<1>2. level \in Levels(u) /\ \A q \in Levels(u) : level <= q BY <1>1, SmallestExists
<1>3. level \in Priority BY <1>2 DEF Levels
<1>. QED BY <1>2, <1>3 DEF Highest

LEMMA ScheduleTurns ==
    ASSUME NEW u \in Table, NoneRuns(u), u.currentProcess \in Slot
    PROVE  \/ /\ schedSchedule(u) = Stuck(u)
              /\ \A level \in Priority : Highest(u, level) => NextOf(u, level) = NULL
           \/ \E level \in Priority : Highest(u, level) /\ NextOf(u, level) # NULL
                                      /\ Turned(u, schedSchedule(u), level)
<1>1. CASE Levels(u) = {}
  <2>1. schedSchedule(u) = Stuck(u) BY <1>1, Zenon DEF schedSchedule
  <2>. QED BY <1>1, <2>1 DEF Highest
<1>2. CASE Levels(u) # {}
  <2>1. PICK level \in Priority : /\ level = CHOOSE p \in Levels(u) : \A q \in Levels(u) : p <= q
                                  /\ Highest(u, level)
    BY <1>2, LevelsAre
  <2>2. \A p \in Priority : Highest(u, p) => p = level
    BY <2>1, Sizes DEF Highest, Priority
  <2>3. PICK next : next = NextOf(u, level) OBVIOUS
  <2>4. PICK current \in Slot : current = u.currentProcess OBVIOUS
  <2>5. CASE next = NULL
    <3>1. schedSchedule(u) = Stuck(u)
      BY <2>1, <2>3, <2>5, Zenon DEF schedSchedule, NextOf
    <3>. QED BY <2>2, <2>3, <2>5, <3>1
  <2>6. CASE next # NULL
    <3>1. next \in Slot
      BY <2>3, <2>4, <2>6 DEF NextOf, Table, SlotOrNull
    <3>2. PICK r \in [Priority -> SlotOrNull] : r = [u.priorities EXCEPT ![level] = next]
      BY <3>1 DEF Table, SlotOrNull
    <3>3. [u.status EXCEPT ![current] = IF u.status[current] = "RUNNING" THEN "READY"
                                        ELSE u.status[current]] = u.status
      BY DEF NoneRuns, Table
    <3>4. PICK x : x = [u EXCEPT !.priorities = r, !.status = u.status] OBVIOUS
    <3>5. x \in Table /\ TurnedTo(u, x, level)
      <4>1. \A p \in Priority : r[p] = IF p = level THEN next ELSE u.priorities[p]
        BY <3>2 DEF Table
      <4>. QED BY <2>3, <3>4, <4>1 DEF Table, TurnedTo
    <3>6. PICK w : w = IF u.status[current] = "DEAD" THEN Evicted(x, current) ELSE x OBVIOUS
    <3>7. w \in Table
      <4>1. x.status = u.status BY <3>5 DEF TurnedTo
      <4>. QED BY <3>5, <3>6, <4>1, EvictSteady
    <3>8. PICK v : v = [w EXCEPT !.currentProcess = next] OBVIOUS
    <3>9. PassedTo(w, v, next)
      BY <3>1, <3>7, <3>8 DEF Table, PassedTo, SameRings, SameLinks, SlotOrNull
    <3>10. schedSchedule(u) = v
      <4>. DEFINE current0 == u.currentProcess
                  level0 == CHOOSE p \in Levels(u) : \A q \in Levels(u) : p <= q
                  next0 == IF u.priority[current0] = level0 THEN u.nextInPriority[current0]
                           ELSE u.priorities[level0]
                  y == [u EXCEPT !.priorities[level0] = next0,
                                 !.status[current0] = IF u.status[current0] = "RUNNING" THEN "READY"
                                                      ELSE u.status[current0]]
                  z == IF y.status[current0] # "DEAD" THEN y
                       ELSE addToFreeSlots(removeFromReadyList([y EXCEPT !.status[current0] = "FREE"],
                                                               current0), current0)
      <4>1. schedSchedule(u) = IF Levels(u) = {} \/ next0 = NULL THEN Stuck(u)
                               ELSE [z EXCEPT !.currentProcess = next0]
        BY Zenon DEF schedSchedule
      <4>2. z = IF y.status[current0] # "DEAD" THEN y ELSE Evicted(y, current0)
        BY Zenon DEF Evicted
      <4>. HIDE DEF z
      <4>3. y = [u EXCEPT !.priorities[level0] = next0,
                          !.status[current0] = IF u.status[current0] = "RUNNING" THEN "READY"
                                               ELSE u.status[current0]]
        OBVIOUS
      <4>. HIDE DEF y
      <4>4. level0 = level BY <2>1
      <4>. HIDE DEF level0
      <4>5. next0 = next /\ current0 = current BY <2>3, <2>4, <4>4 DEF NextOf
      <4>. HIDE DEF next0, current0
      <4>6. y = x BY <3>2, <3>3, <3>4, <4>3, <4>4, <4>5, Zenon
      <4>7. z = w
        <5>1. x.status = u.status BY <3>5 DEF TurnedTo
        <5>. QED BY <3>6, <4>2, <4>5, <4>6, <5>1, Zenon
      <4>. QED BY <1>2, <2>6, <3>8, <4>1, <4>5, <4>7, Zenon
    <3>11. Turned(u, v, level) BY <2>3, <2>4, <3>5, <3>6, <3>7, <3>9 DEF Turned
    <3>. QED BY <2>1, <2>3, <2>6, <3>10, <3>11
  <2>. QED BY <2>5, <2>6
<1>. QED BY <1>1, <1>2

\* schedSchedule changes no status but that of a dead process.
LEMMA ScheduleSteady ==
    ASSUME NEW u \in Table, NoneRuns(u), u.currentProcess \in Slot
    PROVE  LET v == schedSchedule(u) IN
              /\ Steady(u, v, NULL) /\ v.waitingList = u.waitingList
              /\ \A s \in Slot : v.status[s] # u.status[s]
                                => u.status[s] = "DEAD" /\ v.status[s] = "FREE"
<1>1. PICK v : v = schedSchedule(u) OBVIOUS
<1>2. CASE v = Stuck(u)
  <2>1. /\ v.status = u.status /\ v.pid = u.pid /\ v.priority = u.priority
        /\ v.waitingList = u.waitingList
    BY <1>2, StuckRingOnly DEF RingOnly
  <2>. QED BY <1>1, <2>1 DEF Steady
<1>3. CASE \E level \in Priority : Turned(u, v, level)
  <2>1. PICK level \in Priority : Turned(u, v, level) BY <1>3
  <2>2. PICK x \in Table, w \in Table :
           /\ TurnedTo(u, x, level) /\ PassedTo(w, v, NextOf(u, level))
           /\ w = IF u.status[u.currentProcess] = "DEAD" THEN Evicted(x, u.currentProcess) ELSE x
    BY <2>1, Zenon DEF Turned
  <2>3. PICK current \in Slot : current = u.currentProcess OBVIOUS
  <2>4. /\ Steady(x, w, NULL) /\ w.waitingList = x.waitingList
        /\ \A s \in Slot : w.status[s] # x.status[s] => x.status[s] = "DEAD" /\ w.status[s] = "FREE"
    <3>1. CASE u.status[current] = "DEAD"
      <4>1. w = Evicted(x, current) /\ x.status[current] = "DEAD"
        BY <2>2, <2>3, <3>1 DEF TurnedTo
      <4>2. /\ Steady(x, w, NULL) /\ w.waitingList = x.waitingList
            /\ \A s \in Slot : w.status[s] = IF s = current THEN "FREE" ELSE x.status[s]
        BY <4>1, EvictSteady
      <4>. QED BY <4>1, <4>2
    <3>2. CASE u.status[current] # "DEAD"
      <4>1. w = x BY <2>2, <2>3, <3>2
      <4>. QED BY <4>1 DEF Steady
    <3>. QED BY <3>1, <3>2
  <2>5. /\ v.status = w.status /\ v.pid = w.pid /\ v.priority = w.priority
        /\ v.waitingList = w.waitingList
    BY <2>2 DEF PassedTo, SameRings, SameLinks
  <2>6. /\ x.status = u.status /\ x.pid = u.pid /\ x.priority = u.priority
        /\ x.waitingList = u.waitingList
    BY <2>2 DEF TurnedTo
  <2>7. Steady(u, v, NULL) BY <2>4, <2>5, <2>6 DEF Steady
  <2>. QED BY <1>1, <2>4, <2>5, <2>6, <2>7
<1>. QED BY <1>1, <1>2, <1>3, ScheduleTurns

\* No ready process has the priority of s.
Deserted(u, s) == \A r \in Slot : u.status[r] = "READY" => u.priority[r] # u.priority[s]

\* When the current process may be left without harm to the rings.
MayPass(u) ==
    LET current == u.currentProcess
        next == u.nextInPriority[current]
    IN  \/ u.status[current] = "READY"
        \/ u.status[current] = "DEAD" /\ next = current /\ Deserted(u, current)
        \/ /\ u.status[current] \in {"WAITING", "BLOCKED"} /\ Rests(u, current)
           /\ next = current => Deserted(u, current)

\* schedSchedule: a ready process gets the turn, and the rings stay whole.
LEMMA ScheduleSound ==
    ASSUME NEW u \in Table, Sound(u), u.currentProcess \in Slot, MayPass(u),
           NEW ready \in Slot, u.status[ready] = "READY"
    PROVE  LET v == schedSchedule(u) IN Sound(v) /\ v.status[v.currentProcess] = "READY"
<1>1. PICK m \in RingMap : m = OnRing(u) BY OnRingTyped
<1>2. PICK current \in Slot : current = u.currentProcess OBVIOUS
<1>3. \A p \in Priority : RingOf(u, p, Members(m, p)) BY <1>1 DEF Sound, Rings
<1>4. \A s \in Slot : m[s] = IF u.status[s] = "READY" THEN u.priority[s] ELSE NoRing
  BY <1>1 DEF OnRing, Ready, Sound, NoneRuns
<1>5. \A s \in Slot : u.priority[s] \in Priority BY DEF Table
<1>6. \A p \in Priority, s \in Slot :
         s \in Members(m, p) <=> u.status[s] = "READY" /\ u.priority[s] = p
  BY <1>4, NoRingIsNone DEF Members
<1>7. \A p \in Priority : IF Members(m, p) = {} THEN u.priorities[p] = NULL
                         ELSE /\ u.priorities[p] \in Members(m, p)
                              /\ Circle(Members(m, p), u.nextInPriority)
  BY <1>3, Zenon DEF RingOf
<1>8. \A p \in Priority : Members(m, p) \subseteq Slot BY DEF Members
<1>9. \A p \in Priority : u.priorities[p] = NULL <=> Members(m, p) = {}
  BY <1>7, <1>8, SlotsAreFinite
<1>10. Levels(u) # {}
  <2>1. ready \in Members(m, u.priority[ready]) BY <1>5, <1>6
  <2>2. u.priority[ready] \in Levels(u) BY <1>5, <1>9, <2>1 DEF Levels
  <2>. QED BY <2>2
<1>11. PICK level \in Priority : Highest(u, level) BY <1>10, LevelsAre
<1>12. PICK M : M = Members(m, level) OBVIOUS
<1>13. M # {} BY <1>9, <1>11, <1>12 DEF Highest, Levels
<1>14. PICK f : f = u.nextInPriority OBVIOUS
<1>15. u.priorities[level] \in M /\ Circle(M, f) BY <1>7, <1>12, <1>13, <1>14
<1>16. \A s \in M : f[s] \in M BY <1>15 DEF Circle
<1>17. PICK next : next = NextOf(u, level) OBVIOUS
<1>18. \A s \in Slot : s \in M <=> u.status[s] = "READY" /\ u.priority[s] = level BY <1>6, <1>12
<1>19. M \subseteq Slot BY <1>8, <1>12
<1>20. PICK other \in M : other = u.priorities[level] BY <1>15
<1>21. Deserted(u, current) => u.priority[current] # level
  BY <1>18, <1>19, <1>20 DEF Deserted
<1>22. next \in M
  <2>1. CASE u.priority[current] # level BY <1>2, <1>15, <1>17, <2>1 DEF NextOf
  <2>2. CASE u.priority[current] = level
    <3>1. next = f[current] BY <1>2, <1>14, <1>17, <2>2 DEF NextOf
    <3>2. CASE u.status[current] = "READY" BY <1>16, <1>18, <2>2, <3>1, <3>2
    <3>3. CASE u.status[current] # "READY"
      <4>1. Rests(u, current) /\ f[current] # current
        BY <1>2, <1>14, <1>21, <2>2, <3>3 DEF MayPass
      <4>. QED BY <1>14, <1>18, <2>2, <3>1, <4>1 DEF Rests
    <3>. QED BY <3>2, <3>3
  <2>. QED BY <2>1, <2>2
<1>23. next \in Slot /\ next # NULL /\ u.status[next] = "READY" BY <1>18, <1>19, <1>22, SlotsAreFinite
<1>24. PICK v : v = schedSchedule(u) OBVIOUS
<1>25. Turned(u, v, level)
  <2>1. PICK l \in Priority : Highest(u, l) /\ Turned(u, v, l)
    BY <1>11, <1>17, <1>23, <1>24, ScheduleTurns DEF Sound
  <2>2. l = level BY <1>11, <2>1, Sizes DEF Highest, Levels, Priority
  <2>. QED BY <2>1, <2>2
<1>26. PICK x \in Table, w \in Table :
         /\ TurnedTo(u, x, level) /\ PassedTo(w, v, next)
         /\ w = IF u.status[current] = "DEAD" THEN Evicted(x, current) ELSE x
  BY <1>2, <1>17, <1>25, Zenon DEF Turned
<1>27. /\ x.status = u.status /\ x.priority = u.priority /\ x.stuck = u.stuck
       /\ x.nextInPriority = u.nextInPriority
       /\ \A p \in Priority : x.priorities[p] = IF p = level THEN next ELSE u.priorities[p]
  BY <1>17, <1>26, Zenon DEF TurnedTo
<1>28. Sound(x)
  <2>1. OnRing(x) = m BY <1>1, <1>27 DEF OnRing, Ready
  <2>2. ASSUME NEW p \in Priority PROVE RingOf(x, p, Members(m, p))
    <3>1. CASE p = level
      <4>1. x.priorities[p] \in M /\ Circle(M, x.nextInPriority)
        BY <1>14, <1>15, <1>22, <1>27, <3>1
      <4>. QED BY <1>12, <1>13, <3>1, <4>1, Zenon DEF RingOf
    <3>2. CASE p # level
      <4>1. x.priorities[p] = u.priorities[p] /\ RingOf(u, p, Members(m, p)) BY <1>3, <1>27, <3>2
      <4>2. \A s \in Members(m, p) : x.nextInPriority[s] = u.nextInPriority[s] BY <1>27
      <4>. QED BY <4>1, <4>2, OtherRing, Zenon
    <3>. QED BY <3>1, <3>2
  <2>3. Rings(x, m) BY <2>2 DEF Rings
  <2>. QED BY <1>27, <2>1, <2>3 DEF Sound, NoneRuns
<1>29. Sound(w) /\ w.status[next] = "READY"
  <2>1. CASE u.status[current] # "DEAD"
    <3>1. w = x BY <1>26, <2>1
    <3>. QED BY <1>23, <1>27, <1>28, <3>1
  <2>2. CASE u.status[current] = "DEAD"
    <3>1. w = Evicted(x, current) /\ x.status[current] = "DEAD" BY <1>26, <1>27, <2>2
    <3>2. f[current] = current /\ Deserted(u, current)
      BY <1>2, <1>14, <2>2 DEF MayPass
    <3>3. PICK p \in Priority : p = u.priority[current] BY <1>5
    <3>4. Members(m, p) = {} BY <1>6, <1>8, <3>2, <3>3 DEF Deserted
    <3>5. u.priorities[p] = NULL /\ p # level BY <1>9, <1>21, <3>2, <3>3, <3>4
    <3>6. x.nextInPriority[current] = current /\ x.priorities[x.priority[current]] = NULL
      BY <1>14, <1>27, <3>2, <3>3, <3>5
    <3>7. next # current BY <1>23, <2>2
    <3>. QED BY <1>23, <1>27, <1>28, <3>1, <3>6, <3>7, EvictSteady
  <2>. QED BY <2>1, <2>2
<1>30. SameRings(w, v) /\ v.currentProcess = next BY <1>26 DEF PassedTo
<1>31. Sound(v) BY <1>29, <1>30, SameSound
<1>. QED BY <1>24, <1>29, <1>30, <1>31 DEF SameRings

-----------------------------------------------------------------------------
(* The callers, and whole rings from step to step.                          *)

HasIdle(u) == \E s \in Slot : u.pid[s] = IdlePid /\ u.status[s] = "READY"
AreBlocked(u, pids) == \A pid \in pids : \E s \in Slot : u.pid[s] = pid /\ u.status[s] = "BLOCKED"

\* A caller that is still to yield: its process is where the functions it
\* called have left it.
Parked(u, q) ==
    /\ q \in {"sleep", "block"}
          => \/ u.status[u.currentProcess] = "READY"
             \/ /\ u.status[u.currentProcess] \in {"WAITING", "BLOCKED"}
                /\ Rests(u, u.currentProcess)
    /\ q = "dead" => u.status[u.currentProcess] = "DEAD"

\* What holds too in every state, whole or not.
Callers == NoneRuns(t) /\ HasIdle(t) /\ AreBlocked(t, asleep) /\ Parked(t, pc)

LEMMA SteadyKeeps ==
    ASSUME NEW u, NEW v, NEW slot, Steady(u, v, slot), HasIdle(u), NEW pids, AreBlocked(u, pids),
           NEW pid, slot \in Slot => u.pid[slot] = pid /\ pid # IdlePid
    PROVE  HasIdle(v) /\ AreBlocked(v, pids \ {pid})
BY DEF Steady, HasIdle, AreBlocked

LEMMA SteadyKeepsAll ==
    ASSUME NEW u, NEW v, Steady(u, v, NULL), HasIdle(u), NEW pids, AreBlocked(u, pids)
    PROVE  HasIdle(v) /\ AreBlocked(v, pids)
BY SlotsAreFinite DEF Steady, HasIdle, AreBlocked

LEMMA Standing ==
    ASSUME IInv, Callers, Whole
    PROVE  /\ t \in Table /\ Kept(t) /\ t.currentProcess \in Slot
           /\ Sound(t) /\ Sleepers(t) /\ NoTwice(t.waitingList)
           /\ pc = "user" => t.status[t.currentProcess] = "READY"
           /\ pc = "block" => t.status[t.currentProcess] = "BLOCKED"
<1>1. t \in Table /\ Kept(t) /\ t.currentProcess \in Slot /\ OnTime(t, due)
  BY DEF IInv, Typed
<1>2. WholeAs(t, pc) BY WholeIs
<1>3. NoneRuns(t) BY DEF Callers
<1>4. /\ Sound(t) /\ Sleepers(t)
      /\ pc \in {"user", "block"}
            => t.status[t.currentProcess] = (IF pc = "user" THEN "READY" ELSE "BLOCKED")
  BY <1>1, <1>2, <1>3, WholeIsSound
<1>. QED BY <1>1, <1>4 DEF OnTime

LEMMA Stands ==
    ASSUME t' \in Table, Sound(t'), Sleepers(t'),
           pc' = "user" => t'.status[t'.currentProcess] = "READY",
           pc' = "block" => t'.status[t'.currentProcess] = "BLOCKED"
    PROVE  Whole'
<1>1. NoneRuns(t') BY DEF Sound
<1>2. pc' \in {"user", "block"}
         => t'.status[t'.currentProcess] = (IF pc' = "user" THEN "READY" ELSE "BLOCKED")
  OBVIOUS
<1>3. WholeAs(t', pc') BY <1>1, <1>2, WholeIsSound
<1>. QED BY <1>3, WholeIs

LEMMA CreateWhole ==
    ASSUME IInv, Callers, Whole, NEW pid \in Pids, NEW p \in Priority, Create(pid, p)
    PROVE  Callers' /\ Whole'
<1>1. /\ t \in Table /\ Kept(t) /\ t.currentProcess \in Slot /\ Sound(t) /\ Sleepers(t)
      /\ t.status[t.currentProcess] = "READY"
  BY Standing DEF Create
<1>2. /\ t' = schedContinue(schedAdd(t, pid, p), pid) /\ pc' = pc /\ asleep' = asleep
      /\ pc = "user" /\ t.freeList # <<>> /\ pid \notin Listed
  BY Zenon DEF Create
<1>3. \A s \in Slot : InUse(t, s) => t.pid[s] # pid
  <2>1. SUFFICES ASSUME NEW s \in Slot, InUse(t, s) PROVE t.pid[s] # pid OBVIOUS
  <2>2. In(t.indexes, s) BY <1>1, <2>1 DEF InUse, Kept, ArrayKept
  <2>3. PICK list \in Seq(Slot) : list = t.indexes BY <1>1 DEF Table
  <2>4. PICK n \in DOMAIN list : list[n] = s BY <2>2, <2>3 DEF In
  <2>5. t.pid[s] \in Listed BY <2>3, <2>4 DEF Listed
  <2>. QED BY <1>2, <2>5
<1>4. pid \in Nat BY PidsAssumption
<1>5. PICK v : v = schedAdd(t, pid, p) OBVIOUS
<1>6. /\ v \in Table /\ Kept(v) /\ Sound(v) /\ Steady(t, v, NULL)
      /\ v.waitingList = t.waitingList /\ v.currentProcess = t.currentProcess
      /\ \E slot \in Slot : /\ t.status[slot] = "FREE" /\ v.status[slot] = "BLOCKED"
                            /\ v.pid[slot] = pid
                            /\ \A s \in Slot \ {slot} : v.status[s] = t.status[s]
  BY <1>1, <1>2, <1>3, <1>4, <1>5, AddSound
<1>7. PICK slot \in Slot : /\ t.status[slot] = "FREE" /\ v.status[slot] = "BLOCKED"
                           /\ v.pid[slot] = pid
                           /\ \A s \in Slot \ {slot} : v.status[s] = t.status[s]
  BY <1>6
<1>8. /\ t' \in Table /\ Calm(v, t') /\ Sound(t') /\ Steady(v, t', slot)
      /\ \A s \in Slot : t'.status[s] = IF s = slot THEN "READY" ELSE v.status[s]
  BY <1>2, <1>5, <1>6, <1>7, ContinueSteady
<1>9. /\ t'.waitingList = t.waitingList /\ t'.currentProcess = t.currentProcess
      /\ \A s \in Slot : t'.status[s] = IF s = slot THEN "READY" ELSE t.status[s]
  BY <1>6, <1>7, <1>8 DEF Calm
<1>10. Sleepers(t') BY <1>1, <1>7, <1>9 DEF Sleepers
<1>11. t'.status[t'.currentProcess] = "READY" BY <1>1, <1>9
<1>12. Whole' BY <1>2, <1>8, <1>10, <1>11, Stands
<1>13. Steady(t, t', NULL)
  BY <1>6, <1>7, <1>8, SlotsAreFinite DEF Steady
<1>14. HasIdle(t') /\ AreBlocked(t', asleep') BY <1>2, <1>13, SteadyKeepsAll DEF Callers
<1>15. NoneRuns(t') /\ Parked(t', pc') BY <1>2, <1>8 DEF Sound, Parked
<1>. QED BY <1>12, <1>14, <1>15 DEF Callers

LEMMA BlockWhole ==
    ASSUME IInv, Callers, Whole, Block
    PROVE  Callers' /\ Whole'
<1>1. PICK slot \in Slot :
         /\ t \in Table /\ Kept(t) /\ slot = t.currentProcess /\ Sound(t) /\ Sleepers(t)
         /\ t.status[slot] = "READY"
  BY Standing DEF Block
<1>2. PICK pid : pid = t.pid[slot] OBVIOUS
<1>3. /\ t' = schedChangeStatus(t, pid, "BLOCKED") /\ asleep' = asleep \cup {pid}
      /\ pc' = "block" /\ pid # IdlePid
  BY <1>1, <1>2 DEF Block, CurrentPid, Current
<1>4. /\ t' \in Table /\ Calm(t, t') /\ Sound(t') /\ Steady(t, t', slot) /\ Rests(t', slot)
      /\ \A s \in Slot : t'.status[s] = IF s = slot THEN "BLOCKED" ELSE t.status[s]
  BY <1>1, <1>2, <1>3, BlockSound
<1>5. t'.waitingList = t.waitingList /\ t'.currentProcess = slot /\ t'.pid = t.pid
  BY <1>1, <1>4 DEF Calm
<1>6. Sleepers(t') BY <1>1, <1>4, <1>5 DEF Sleepers
<1>7. t'.status[t'.currentProcess] = "BLOCKED" BY <1>4, <1>5
<1>8. Whole' BY <1>3, <1>4, <1>6, <1>7, Stands
<1>9. HasIdle(t') /\ AreBlocked(t', asleep \ {pid})
  BY <1>2, <1>3, <1>4, SteadyKeeps DEF Callers
<1>10. AreBlocked(t', asleep') BY <1>2, <1>3, <1>4, <1>5, <1>9 DEF AreBlocked
<1>11. NoneRuns(t') /\ Parked(t', pc') BY <1>3, <1>4, <1>5, <1>7 DEF Sound, Parked
<1>. QED BY <1>8, <1>9, <1>10, <1>11 DEF Callers

LEMMA WakeWhole ==
    ASSUME IInv, Callers, Whole, NEW pid \in Pids, Wake(pid)
    PROVE  Callers' /\ Whole'
<1>1. /\ t \in Table /\ Kept(t) /\ t.currentProcess \in Slot /\ Sound(t) /\ Sleepers(t)
      /\ pc = "user" => t.status[t.currentProcess] = "READY"
  BY Standing
<1>2. /\ t' = schedChangeStatus(t, pid, "READY") /\ asleep' = asleep \ {pid}
      /\ pc' = pc /\ pc # "block" /\ pid \in asleep /\ pid # IdlePid
  BY PidsAssumption, Zenon DEF Wake, IdlePid
<1>3. PICK slot \in Slot : pid = t.pid[slot] /\ t.status[slot] = "BLOCKED"
  BY <1>2 DEF Callers, AreBlocked
<1>4. /\ t' \in Table /\ Calm(t, t') /\ Sound(t') /\ Steady(t, t', slot)
      /\ OthersRest(t, t', slot) /\ t'.priority = t.priority
      /\ \A s \in Slot : t'.status[s] = IF s = slot THEN "READY" ELSE t.status[s]
  BY <1>1, <1>2, <1>3, WakeSound
<1>5. t'.waitingList = t.waitingList /\ t'.currentProcess = t.currentProcess BY <1>4 DEF Calm
<1>6. Sleepers(t') BY <1>1, <1>3, <1>4, <1>5 DEF Sleepers
<1>7. Whole' BY <1>1, <1>2, <1>4, <1>5, <1>6, Stands
<1>8. HasIdle(t') /\ AreBlocked(t', asleep')
  BY <1>2, <1>3, <1>4, SteadyKeeps DEF Callers
<1>9. Parked(t', pc')
  <2>1. PICK current \in Slot : current = t.currentProcess BY <1>1
  <2>2. CASE current = slot BY <1>2, <1>3, <1>4, <1>5, <2>1, <2>2 DEF Callers, Parked
  <2>3. CASE current # slot
    <3>1. t'.status[current] = t.status[current] BY <1>4, <2>3
    <3>2. ASSUME t.status[current] \in {"WAITING", "BLOCKED"}, Rests(t, current)
          PROVE  Rests(t', current)
      <4>1. t'.nextInPriority[current] = t.nextInPriority[current]
        BY <1>4, <2>3, <3>2 DEF OthersRest, Ready
      <4>. QED BY <1>4, <3>2, <4>1 DEF Rests
    <3>. QED BY <1>2, <1>5, <2>1, <3>1, <3>2 DEF Callers, Parked
  <2>. QED BY <2>2, <2>3
<1>10. NoneRuns(t') BY <1>4 DEF Sound
<1>. QED BY <1>7, <1>8, <1>9, <1>10 DEF Callers

LEMMA SleepWhole ==
    ASSUME IInv, Callers, Whole, NEW ms \in SleepMs, Sleep(ms)
    PROVE  Callers' /\ Whole'
<1>1. PICK slot \in Slot :
         /\ t \in Table /\ Kept(t) /\ slot = t.currentProcess /\ Sound(t) /\ Sleepers(t)
         /\ NoTwice(t.waitingList) /\ t.status[slot] = "READY"
  BY Standing DEF Sleep
<1>2. PICK ticks \in Nat : ticks = SleepTicks(ms)
  <2>1. ms \in Nat BY SleepAssumption
  <2>2. (ms + 1) \div 55 \in Nat BY <2>1
  <2>. QED BY <2>2 DEF SleepTicks
<1>3. PICK pid : pid = t.pid[slot] OBVIOUS
<1>4. t' = schedSleep(t, ticks) /\ pc' = "sleep" /\ asleep' = asleep /\ pid # IdlePid
  BY <1>1, <1>2, <1>3 DEF Sleep, CurrentPid, Current
<1>5. /\ t' \in Table /\ t'.currentProcess = slot
      /\ Sound(t') /\ Sleepers(t') /\ Steady(t, t', slot)
      /\ \/ t'.status[slot] = "READY"
         \/ t'.status[slot] = "WAITING" /\ Rests(t', slot)
  BY <1>1, <1>4, SleepSound
<1>6. Whole' BY <1>4, <1>5, Stands
<1>7. HasIdle(t') /\ AreBlocked(t', asleep \ {pid})
  BY <1>3, <1>4, <1>5, SteadyKeeps DEF Callers
<1>8. pid \notin asleep
  <2>1. SUFFICES ASSUME pid \in asleep PROVE FALSE OBVIOUS
  <2>2. PICK s \in Slot : t.pid[s] = pid /\ t.status[s] = "BLOCKED"
    BY <2>1 DEF Callers, AreBlocked
  <2>3. getByPid(t, t.pid[s]) = s /\ getByPid(t, t.pid[slot]) = slot
    BY <1>1, <2>2, GetByPidFinds DEF Kept
  <2>. QED BY <1>1, <1>3, <2>2, <2>3
<1>9. AreBlocked(t', asleep') BY <1>4, <1>7, <1>8 DEF AreBlocked
<1>10. NoneRuns(t') /\ Parked(t', pc') BY <1>4, <1>5 DEF Sound, Parked
<1>. QED BY <1>6, <1>7, <1>9, <1>10 DEF Callers

\* The slot of a process that is in the array.
LEMMA ListedSlot ==
    ASSUME t \in Table, Kept(t), NoneRuns(t), NEW pid \in Listed
    PROVE  \E slot \in Slot : /\ slot = getByPid(t, pid) /\ pid = t.pid[slot] /\ InUse(t, slot)
                              /\ t.status[slot] = "READY" \/ OffRing(pid)
<1>1. PICK list \in Seq(Slot) : list = t.indexes BY DEF Table
<1>2. PICK n \in DOMAIN list : pid = t.pid[list[n]] BY <1>1 DEF Listed
<1>3. PICK slot \in Slot : slot = list[n] BY <1>1, <1>2
<1>4. In(t.indexes, slot) BY <1>1, <1>2, <1>3 DEF In
<1>5. InUse(t, slot) BY <1>4 DEF Kept, ArrayKept, InUse
<1>6. getByPid(t, pid) = slot BY <1>2, <1>3, <1>5, GetByPidFinds DEF Kept, InUse
<1>7. t.status[slot] \in Status /\ t.status[slot] # "RUNNING" BY DEF Table, NoneRuns
<1>8. t.status[slot] = "READY" \/ OffRing(pid)
  BY <1>5, <1>6, <1>7 DEF Status, InUse, OffRing
<1>. QED BY <1>2, <1>3, <1>5, <1>6, <1>8

LEMMA KillWhole ==
    ASSUME IInv, Callers, Whole, NEW pid \in Pids, Kill(pid)
    PROVE  Callers' /\ (Whole' \/ OffRing(pid))
<1>1. /\ t \in Table /\ Kept(t) /\ t.currentProcess \in Slot /\ Sound(t) /\ Sleepers(t)
      /\ pc = "user" => t.status[t.currentProcess] = "READY"
  BY Standing
<1>2. /\ t' = schedRemove(t, pid) /\ asleep' = asleep \ {pid}
      /\ pc' = (IF pid = CurrentPid THEN "dead" ELSE pc)
      /\ pc \in {"user", "dead"} /\ pid \in Listed /\ pid # IdlePid
  BY PidsAssumption DEF Kill, IdlePid
<1>3. PICK slot \in Slot : /\ slot = getByPid(t, pid) /\ pid = t.pid[slot] /\ InUse(t, slot)
                           /\ t.status[slot] = "READY" \/ OffRing(pid)
  BY <1>1, <1>2, ListedSlot DEF Callers
<1>4. /\ t' \in Table /\ t'.currentProcess = t.currentProcess
      /\ t'.waitingList = t.waitingList /\ Steady(t, t', slot)
      /\ \A s \in Slot : t'.status[s] = IF s # slot THEN t.status[s]
                                        ELSE IF slot = t.currentProcess THEN "DEAD" ELSE "FREE"
      /\ Sound(t) /\ t.status[slot] = "READY" => Sound(t')
  BY <1>1, <1>2, <1>3, RemoveSteady
<1>5. NoneRuns(t')
  <2>1. \A s \in Slot : t.status[s] # "RUNNING" BY DEF Callers, NoneRuns
  <2>. QED BY <1>4, <2>1 DEF NoneRuns
<1>6. HasIdle(t') /\ AreBlocked(t', asleep') BY <1>2, <1>3, <1>4, SteadyKeeps DEF Callers
<1>7. pc = "user" => (slot = t.currentProcess <=> pid = CurrentPid)
  <2>1. SUFFICES ASSUME pc = "user" PROVE slot = t.currentProcess <=> pid = CurrentPid OBVIOUS
  <2>2. getByPid(t, t.pid[t.currentProcess]) = t.currentProcess
    BY <1>1, <2>1, GetByPidFinds DEF Kept
  <2>. QED BY <1>3, <2>2 DEF CurrentPid, Current
<1>8. pc = "dead" => slot # t.currentProcess
  BY <1>3 DEF Callers, Parked, InUse
<1>9. Parked(t', pc') BY <1>1, <1>2, <1>4, <1>7, <1>8 DEF Callers, Parked
<1>10. ASSUME t.status[slot] = "READY" PROVE Whole'
  <2>1. Sleepers(t') BY <1>1, <1>4, <1>10 DEF Sleepers
  <2>2. pc' = "user" => t'.status[t'.currentProcess] = "READY" BY <1>1, <1>2, <1>4, <1>7
  <2>3. pc' # "block" BY <1>2
  <2>. QED BY <1>1, <1>4, <1>10, <2>1, <2>2, <2>3, Stands
<1>. QED BY <1>3, <1>5, <1>6, <1>9, <1>10 DEF Callers

LEMMA SetPriorityWhole ==
    ASSUME IInv, Callers, Whole, NEW pid \in Pids \cup {InitPid}, NEW p \in Priority,
           SetPriority(pid, p)
    PROVE  Callers' /\ (Whole' \/ OffRing(pid))
<1>1. /\ t \in Table /\ Kept(t) /\ t.currentProcess \in Slot /\ Sound(t) /\ Sleepers(t)
      /\ t.status[t.currentProcess] = "READY"
  BY Standing DEF SetPriority
<1>2. /\ t' = schedSetPriority(t, pid, p) /\ asleep' = asleep /\ pc' = pc
      /\ pc = "user" /\ pid \in Listed
  BY DEF SetPriority
<1>3. PICK slot \in Slot : /\ slot = getByPid(t, pid) /\ pid = t.pid[slot] /\ InUse(t, slot)
                           /\ t.status[slot] = "READY" \/ OffRing(pid)
  BY <1>1, <1>2, ListedSlot DEF Callers
<1>4. t' \in Table /\ Calm(t, t') /\ t'.status = t.status BY <1>1, <1>2, SetPriorityKeeps
<1>5. t'.waitingList = t.waitingList /\ t'.currentProcess = t.currentProcess /\ t'.pid = t.pid
  BY <1>4 DEF Calm
<1>6. Callers' BY <1>2, <1>4, <1>5 DEF Callers, NoneRuns, HasIdle, AreBlocked, Parked
<1>7. ASSUME t.status[slot] = "READY" PROVE Whole'
  <2>1. Sound(t') BY <1>1, <1>2, <1>3, <1>7, SetPrioritySound
  <2>2. Sleepers(t') BY <1>1, <1>4, <1>5 DEF Sleepers
  <2>3. t'.status[t'.currentProcess] = "READY" BY <1>1, <1>4, <1>5
  <2>. QED BY <1>2, <1>4, <2>1, <2>2, <2>3, Stands
<1>. QED BY <1>3, <1>6, <1>7

\* The last disjunct of Treacherous.
Harmful ==
    /\ t.status[Current] = "DEAD" => ~WasAlone \/ Joined
    /\ t.status[Current] # "DEAD" => t.status[Current] # "READY" /\ WasAlone /\ Joined

\* When the process that made the call may be left: x is u, or what the
\* sleepers that woke have made of it.
LEMMA Passing ==
    ASSUME NEW u \in Table, NEW x \in Table, NoneRuns(x),
           NEW q \in {"user", "sleep", "block", "dead"}, Parked(u, q),
           NEW current \in Slot, current = u.currentProcess, current = x.currentProcess,
           q = "user" => u.status[current] = "READY", x.priority = u.priority,
           \A s \in Slot : x.status[s] # u.status[s] => u.status[s] = "WAITING" /\ x.status[s] = "READY",
           \A s \in Slot : ~Ready(x, s) => x.nextInPriority[s] = u.nextInPriority[s],
           u.status[current] = "DEAD"
              => u.nextInPriority[current] = current /\ Deserted(x, current),
           u.status[current] \notin {"READY", "DEAD"} /\ u.nextInPriority[current] = current
              => Deserted(x, current)
    PROVE  MayPass(x)
<1>1. CASE x.status[current] = "READY" BY <1>1 DEF MayPass
<1>2. CASE x.status[current] # "READY"
  <2>1. x.status[current] = u.status[current] BY <1>2
  <2>2. ~Ready(x, current) BY <1>2 DEF NoneRuns, Ready
  <2>3. x.nextInPriority[current] = u.nextInPriority[current] BY <2>2
  <2>4. CASE u.status[current] = "DEAD" BY <2>1, <2>3, <2>4 DEF MayPass
  <2>5. CASE u.status[current] # "DEAD"
    <3>1. u.status[current] \in {"WAITING", "BLOCKED"} /\ Rests(u, current)
      BY <1>2, <2>1, <2>5 DEF Parked
    <3>2. Rests(x, current)
      <4>1. \A s \in Slot : u.status[s] = "READY" => x.status[s] = "READY" OBVIOUS
      <4>. QED BY <2>3, <3>1, <4>1 DEF Rests
    <3>. QED BY <2>1, <2>3, <3>1, <3>2 DEF MayPass
  <2>. QED BY <2>4, <2>5
<1>. QED BY <1>1, <1>2

\* schedSchedule, in the table x that the sleepers of t may have left.
LEMMA PassWhole ==
    ASSUME IInv, Callers, Whole, NEW x \in Table, Sound(x), Sleepers(x),
           x.currentProcess = t.currentProcess, x.priority = t.priority, x.pid = t.pid,
           \A s \in Slot : x.status[s] # t.status[s] => t.status[s] = "WAITING" /\ x.status[s] = "READY",
           \A s \in Slot : ~Ready(x, s) => x.nextInPriority[s] = t.nextInPriority[s],
           t' = schedSchedule(x), t' \in Table, pc' = "user", asleep' = asleep
    PROVE  Callers' /\ (Whole' \/ Harmful)
<1>1. PICK current \in Slot : /\ current = t.currentProcess
                              /\ pc = "user" => t.status[current] = "READY"
  BY Standing
<1>2. t \in Table /\ pc \in {"user", "sleep", "block", "dead"} BY DEF IInv, Typed
<1>3. current = x.currentProcess /\ x.currentProcess \in Slot /\ NoneRuns(x) BY <1>1 DEF Sound
<1>4. PICK v \in Table : v = t' /\ v = schedSchedule(x) OBVIOUS
<1>5. /\ Steady(x, v, NULL) /\ v.waitingList = x.waitingList
      /\ \A s \in Slot : v.status[s] # x.status[s] => x.status[s] = "DEAD" /\ v.status[s] = "FREE"
  BY <1>3, <1>4, ScheduleSteady
<1>6. HasIdle(v) /\ AreBlocked(v, asleep)
  <2>1. Steady(t, x, NULL)
    <3>. SUFFICES ASSUME NEW s \in Slot, t.status[s] \in {"READY", "BLOCKED"}
                  PROVE  x.status[s] = t.status[s] /\ x.pid[s] = t.pid[s] /\ x.priority[s] = t.priority[s]
      BY DEF Steady
    <3>. QED OBVIOUS
  <2>2. HasIdle(x) /\ AreBlocked(x, asleep)
    BY <2>1, SteadyKeepsAll DEF Callers
  <2>. QED BY <1>5, <2>2, SteadyKeepsAll
<1>7. NoneRuns(v) BY <1>3, <1>5 DEF NoneRuns
<1>8. Callers'
  <2>1. NoneRuns(t') /\ HasIdle(t') /\ AreBlocked(t', asleep') BY <1>4, <1>6, <1>7, Zenon
  <2>2. Parked(t', pc') BY DEF Parked
  <2>. QED BY <2>1, <2>2 DEF Callers
<1>9. ASSUME ~Joined PROVE Deserted(x, current)
  <2>1. SUFFICES ASSUME NEW r \in Slot, x.status[r] = "READY", x.priority[r] = x.priority[current]
                 PROVE  FALSE
    BY DEF Deserted
  <2>2. v.status[r] = "READY" /\ v.priority[r] = x.priority[r]
    BY <1>5, <2>1, SlotsAreFinite DEF Steady
  <2>3. t'.status[r] = "READY" /\ t'.priority[r] = t.priority[t.currentProcess]
    BY <1>1, <1>4, <2>1, <2>2
  <2>. QED BY <1>9, <2>1, <2>3 DEF Joined, Current
<1>10. ASSUME ~Harmful PROVE MayPass(x)
  <2>1. t.status[current] = "DEAD" => t.nextInPriority[current] = current /\ ~Joined
    BY <1>1, <1>10, Zenon DEF Harmful, WasAlone, Current
  <2>2. t.status[current] \notin {"READY", "DEAD"} /\ t.nextInPriority[current] = current => ~Joined
    BY <1>1, <1>10 DEF Harmful, WasAlone, Current
  <2>3. Parked(t, pc) BY DEF Callers
  <2>. QED BY <1>1, <1>2, <1>3, <1>9, <2>1, <2>2, <2>3, Passing
<1>11. ASSUME ~Harmful PROVE Whole'
  <2>1. PICK ready \in Slot : x.status[ready] = "READY"
    BY <1>5, <1>6 DEF HasIdle
  <2>2. Sound(v) /\ v.status[v.currentProcess] = "READY"
    BY <1>3, <1>4, <1>10, <1>11, <2>1, ScheduleSound
  <2>3. Sleepers(v) BY <1>5 DEF Sleepers
  <2>4. /\ Sound(t') /\ Sleepers(t') /\ t'.status[t'.currentProcess] = "READY"
    BY <1>4, <2>2, <2>3, Zenon
  <2>. QED BY <2>4, Stands
<1>. QED BY <1>8, <1>11

LEMMA YieldWhole ==
    ASSUME IInv, Callers, Whole, Yield
    PROVE  Callers' /\ (Whole' \/ Harmful)
<1>1. t \in Table /\ Kept(t) /\ t.currentProcess \in Slot /\ Sound(t) /\ Sleepers(t)
  BY Standing
<1>2. t' = schedSchedule(t) /\ asleep' = asleep /\ pc' = "user" BY Zenon DEF Yield
<1>3. t' \in Table BY <1>1, <1>2, ScheduleKeeps
<1>4. PICK x \in Table : x = t BY <1>1
<1>5. /\ Sound(x) /\ Sleepers(x) /\ x.currentProcess = t.currentProcess
      /\ x.priority = t.priority /\ x.pid = t.pid /\ t' = schedSchedule(x)
      /\ \A s \in Slot : x.status[s] = t.status[s] /\ x.nextInPriority[s] = t.nextInPriority[s]
  BY <1>1, <1>2, <1>4
<1>. QED BY <1>2, <1>3, <1>5, PassWhole

LEMMA TimerWhole ==
    ASSUME IInv, Callers, Whole, Timer
    PROVE  Callers' /\ (Whole' \/ Harmful)
<1>1. /\ t \in Table /\ Kept(t) /\ t.currentProcess \in Slot /\ Sound(t) /\ Sleepers(t)
      /\ NoTwice(t.waitingList)
  BY Standing
<1>2. OnTime(t, due) BY DEF IInv
<1>3. PICK x : x = schedTicks(t) OBVIOUS
<1>4. t' = schedSchedule(x) /\ asleep' = asleep /\ pc' = "user" BY <1>3, Zenon DEF Timer
<1>5. x \in Table /\ Kept(x) /\ x.currentProcess = t.currentProcess /\ Ticked(t, x)
  <2>1. \A m \in 1 .. Len(t.waitingList) : TimeOf(t, m) > 0 BY <1>2 DEF OnTime
  <2>. QED BY <1>1, <1>3, <2>1, TicksKeeps
<1>6. /\ Sound(x) /\ Sleepers(x) /\ x.priority = t.priority /\ x.pid = t.pid
      /\ \A s \in Slot : x.status[s] # t.status[s] => t.status[s] = "WAITING" /\ x.status[s] = "READY"
      /\ \A s \in Slot : ~Ready(x, s) => x.nextInPriority[s] = t.nextInPriority[s]
  BY <1>1, <1>5, TicksSound
<1>7. t' \in Table BY <1>1, <1>4, <1>5, ScheduleKeeps
<1>. QED BY <1>4, <1>5, <1>6, <1>7, PassWhole

LEMMA InitCallers == Init => Callers
<1>. SUFFICES ASSUME Init PROVE Callers OBVIOUS
<1>1. /\ \A s \in Slot : t.status[s] # "RUNNING"
      /\ \E s \in Slot : t.pid[s] = IdlePid /\ t.status[s] = "READY"
  BY InitKeeps
<1>2. pc = "user" /\ asleep = {} BY DEF Init
<1>. QED BY <1>1, <1>2 DEF Callers, NoneRuns, HasIdle, AreBlocked, Parked

LEMMA NextWhole == IInv /\ Callers /\ [Next]_vars => Callers' /\ [Whole' \/ Treacherous]_vars
<1>. SUFFICES ASSUME IInv, Callers, [Next]_vars PROVE Callers' /\ [Whole' \/ Treacherous]_vars
  OBVIOUS
<1>1. CASE UNCHANGED vars
  <2>1. t' = t /\ pc' = pc /\ asleep' = asleep BY <1>1 DEF vars
  <2>2. Callers' BY <2>1 DEF Callers, NoneRuns, HasIdle, AreBlocked, Parked, Rests
  <2>. QED BY <1>1, <2>2
<1>2. CASE Next
  <2>1. Whole BY <1>2 DEF Next
  <2>2. ASSUME NEW pid \in Pids, NEW p \in Priority, Create(pid, p)
        PROVE  Callers' /\ (Whole' \/ Treacherous)
    BY <2>1, <2>2, CreateWhole
  <2>3. CASE Block BY <2>1, <2>3, BlockWhole
  <2>4. ASSUME NEW pid \in Pids, Wake(pid) PROVE Callers' /\ (Whole' \/ Treacherous)
    BY <2>1, <2>4, WakeWhole
  <2>5. ASSUME NEW ms \in SleepMs, Sleep(ms) PROVE Callers' /\ (Whole' \/ Treacherous)
    BY <2>1, <2>5, SleepWhole
  <2>6. ASSUME NEW pid \in Pids, Kill(pid) PROVE Callers' /\ (Whole' \/ Treacherous)
    <3>1. Callers' /\ (Whole' \/ OffRing(pid)) BY <2>1, <2>6, KillWhole
    <3>2. OffRing(pid) => Treacherous BY <2>6, Zenon DEF Treacherous
    <3>. QED BY <3>1, <3>2
  <2>7. ASSUME NEW pid \in Pids \cup {InitPid}, NEW p \in Priority, SetPriority(pid, p)
        PROVE  Callers' /\ (Whole' \/ Treacherous)
    <3>1. Callers' /\ (Whole' \/ OffRing(pid)) BY <2>1, <2>7, SetPriorityWhole
    <3>2. OffRing(pid) => Treacherous BY <2>7, Zenon DEF Treacherous
    <3>. QED BY <3>1, <3>2
  <2>8. ASSUME Timer \/ Yield PROVE Callers' /\ (Whole' \/ Treacherous)
    <3>1. Callers' /\ (Whole' \/ Harmful) BY <2>1, <2>8, TimerWhole, YieldWhole
    <3>2. Harmful => Treacherous BY <2>8, Zenon DEF Harmful, Treacherous
    <3>. QED BY <3>1, <3>2
  <2>. QED BY <1>2, <2>2, <2>3, <2>4, <2>5, <2>6, <2>7, <2>8 DEF Next
<1>. QED BY <1>1, <1>2

-----------------------------------------------------------------------------
(* The theorems.                                                           *)

LEMMA InitIInv == Init => IInv
<1>. SUFFICES ASSUME Init PROVE IInv OBVIOUS
<1>1. /\ t \in Table /\ Kept(t) /\ t.currentProcess \in Slot /\ t.waitingList = <<>>
      /\ \A s \in Slot : InUse(t, s) => t.pid[s] \in {InitPid, IdlePid}
  BY InitKeeps
<1>2. Typed
  <2>1. 0 \in Nat OBVIOUS
  <2>2. due \in [Slot -> Nat] BY <2>1 DEF Init
  <2>. QED BY <1>1, <2>2 DEF Init, Typed
<1>3. PidsKept(t) BY <1>1 DEF PidsKept
<1>4. OnTime(t, due)
  <2>1. Len(t.waitingList) = 0 BY <1>1
  <2>. QED BY <2>1 DEF OnTime, NoTwice
<1>. QED BY <1>1, <1>2, <1>3, <1>4 DEF IInv

LEMMA NextIInv == IInv /\ [Next]_vars => IInv'
<1>. SUFFICES ASSUME IInv, [Next]_vars PROVE IInv' OBVIOUS
<1>1. CASE UNCHANGED vars
  <2>1. t' = t /\ pc' = pc /\ asleep' = asleep /\ due' = due BY <1>1 DEF vars
  <2>2. Typed' /\ Kept(t') /\ PidsKept(t') BY <2>1 DEF IInv, Typed
  <2>3. Whole' <=> Whole BY <2>1 DEF Whole, RingWhole, Walk, Current
  <2>4. Whole' => OnTime(t', due') BY <2>1, <2>3 DEF IInv
  <2>. QED BY <2>2, <2>4 DEF IInv
<1>2. CASE Next
  <2>1. Whole BY <1>2 DEF Next
  <2>2. ASSUME NEW pid \in Pids, NEW p \in Priority, Create(pid, p) PROVE IInv'
    BY <2>1, <2>2, CreateStep
  <2>3. CASE Block BY <2>1, <2>3, BlockStep
  <2>4. ASSUME NEW pid \in Pids, Wake(pid) PROVE IInv' BY <2>1, <2>4, WakeStep
  <2>5. ASSUME NEW ms \in SleepMs, Sleep(ms) PROVE IInv' BY <2>1, <2>5, SleepStep
  <2>6. ASSUME NEW pid \in Pids, Kill(pid) PROVE IInv' BY <2>1, <2>6, KillStep
  <2>7. ASSUME NEW pid \in Pids \cup {InitPid}, NEW p \in Priority, SetPriority(pid, p)
        PROVE  IInv'
    BY <2>1, <2>7, SetPriorityStep
  <2>8. CASE Timer BY <2>1, <2>8, TimerStep
  <2>9. CASE Yield BY <2>1, <2>9, YieldStep
  <2>. QED BY <1>2, <2>2, <2>3, <2>4, <2>5, <2>6, <2>7, <2>8, <2>9 DEF Next
<1>. QED BY <1>1, <1>2

LEMMA Apart ==
    ASSUME NEW S, NEW T, IsFiniteSet(S), IsFiniteSet(T), S \cap T = {}
    PROVE  IsFiniteSet(S \cup T) /\ Cardinality(S \cup T) = Cardinality(S) + Cardinality(T)
<1>1. /\ IsFiniteSet(S \cup T)
      /\ Cardinality(S \cup T) = Cardinality(S) + Cardinality(T) - Cardinality(S \cap T)
  BY FS_Union, Zenon
<1>2. Cardinality(S \cap T) = 0 BY FS_EmptySet, Zenon
<1>3. Cardinality(S) \in Nat /\ Cardinality(T) \in Nat BY FS_CardinalityType, Zenon
<1>. QED BY <1>1, <1>2, <1>3

\* The slots are divided between the array, the stack and the dead process.
LEMMA SlotsAddUp ==
    ASSUME NEW u \in Table, Kept(u)
    PROVE  Len(u.indexes) + Len(u.freeList)
              = MaxProcess - Cardinality({s \in Slot : u.status[s] = "DEAD"})
<1>1. PICK A, B, D : /\ A = {s \in Slot : In(u.indexes, s)} /\ B = {s \in Slot : In(u.freeList, s)}
                     /\ D = {s \in Slot : u.status[s] = "DEAD"}
  OBVIOUS
<1>2. IsFiniteSet(A) /\ Cardinality(A) = Len(u.indexes) /\ Cardinality(A) \in Nat
  <2>1. u.indexes \in Seq(Slot) /\ NoTwice(u.indexes)
    BY SortedNoTwice DEF Table, Kept, ArrayKept
  <2>. QED BY <1>1, <2>1, ListSize
<1>3. IsFiniteSet(B) /\ Cardinality(B) = Len(u.freeList) /\ Cardinality(B) \in Nat
  <2>1. u.freeList \in Seq(Slot) /\ NoTwice(u.freeList) BY DEF Table, Kept, StackKept
  <2>. QED BY <1>1, <2>1, ListSize
<1>4. IsFiniteSet(D) /\ Cardinality(D) \in Nat
  BY <1>1, SlotsAreFinite, FS_Subset, FS_CardinalityType
<1>5. \A s \in Slot : /\ s \in A <=> u.status[s] \notin {"FREE", "DEAD"}
                      /\ s \in B <=> u.status[s] = "FREE"
                      /\ s \in D <=> u.status[s] = "DEAD"
  BY <1>1 DEF Kept, ArrayKept, StackKept
<1>6. A \subseteq Slot /\ B \subseteq Slot /\ D \subseteq Slot BY <1>1
<1>7. A \cap B = {} /\ (A \cup B) \cap D = {} /\ (A \cup B) \cup D = Slot
  BY <1>5, <1>6, StatusStrings
<1>8. IsFiniteSet(A \cup B) /\ Cardinality(A \cup B) = Cardinality(A) + Cardinality(B)
  BY <1>2, <1>3, <1>7, Apart, Zenon
<1>9. Cardinality(Slot) = Cardinality(A \cup B) + Cardinality(D)
  BY <1>4, <1>7, <1>8, Apart, Zenon
<1>10. PICK a \in Nat, b \in Nat, d \in Nat :
          a = Cardinality(A) /\ b = Cardinality(B) /\ d = Cardinality(D)
  BY <1>2, <1>3, <1>4
<1>11. MaxProcess = (a + b) + d BY <1>8, <1>9, <1>10, SlotsAreFinite, Zenon
<1>12. a + b = MaxProcess - d BY <1>11
<1>. QED BY <1>1, <1>2, <1>3, <1>10, <1>12, Zenon

LEMMA SlotsFound == IInv => SlotsAreFound
<1>. SUFFICES ASSUME IInv PROVE SlotsAreFound OBVIOUS
<1>1. t \in Table /\ Kept(t) /\ ArrayKept(t) /\ StackKept(t) BY DEF IInv, Typed, Kept
<1>2. PICK q \in Seq(Slot), free \in Seq(Slot) : q = t.indexes /\ free = t.freeList
  BY <1>1 DEF Table
<1>3. \A n \in DOMAIN t.indexes : getByPid(t, t.pid[t.indexes[n]]) = t.indexes[n]
  <2>1. ASSUME NEW n \in DOMAIN q PROVE getByPid(t, t.pid[q[n]]) = q[n]
    <3>1. q[n] \in Slot /\ In(q, q[n]) BY DEF In
    <3>2. t.status[q[n]] \notin {"FREE", "DEAD"} BY <1>1, <1>2, <3>1 DEF ArrayKept
    <3>. QED BY <1>1, <3>1, <3>2, GetByPidFinds
  <2>. QED BY <1>2, <2>1
<1>4. ASSUME NEW pid \in Pids \ Listed PROVE getByPid(t, pid) = NULL
  <2>1. pid \in Nat BY PidsAssumption
  <2>2. SUFFICES ASSUME getByPid(t, pid) # NULL PROVE FALSE OBVIOUS
  <2>3. PICK s, place : /\ s = getByPid(t, pid) /\ t.pid[s] = pid
                        /\ place \in 1 .. Len(t.indexes) /\ t.indexes[place] = s
    BY <1>1, <2>1, <2>2, GetByPidFinds
  <2>4. place \in DOMAIN t.indexes BY <1>2, <2>3
  <2>. QED BY <2>3, <2>4 DEF Listed
<1>5. ToSet(t.freeList) = {s \in Slot : t.status[s] = "FREE"}
  <2>1. \A s \in Slot : s \in ToSet(free) <=> In(free, s)
    <3>1. DOMAIN free = 1 .. Len(free) OBVIOUS
    <3>. QED BY <3>1, Zenon DEF ToSet, In
  <2>2. ToSet(free) \subseteq Slot BY DEF ToSet
  <2>3. \A s \in Slot : In(free, s) <=> t.status[s] = "FREE" BY <1>1, <1>2 DEF StackKept
  <2>. QED BY <1>2, <2>1, <2>2, <2>3
<1>. QED BY <1>1, <1>3, <1>4, <1>5, SlotsAddUp DEF SlotsAreFound

LEMMA SleepersRight == IInv => SleepersOnTime
<1>. SUFFICES ASSUME IInv, Whole PROVE \A n \in DOMAIN t.waitingList :
        TimeOf(t, n) = due[t.waitingList[n]] /\ due[t.waitingList[n]] > 0
  BY DEF SleepersOnTime
<1>1. DOMAIN t.waitingList = 1 .. Len(t.waitingList) BY DEF IInv, Typed, Table
<1>. QED BY <1>1 DEF IInv, OnTime

LEMMA TypesRight == IInv => TypeOK
<1>. SUFFICES ASSUME IInv PROVE TypeOK OBVIOUS
<1>1. t \in Table BY DEF IInv, Typed
<1>2. \A q \in Seq(Slot) : ToSet(q) \subseteq Slot BY DEF ToSet
<1>3. ToSet(t.indexes) \subseteq Slot /\ ToSet(t.waitingList) \subseteq Slot
      /\ ToSet(t.freeList) \subseteq Slot
  BY <1>1, <1>2, Zenon DEF Table
<1>4. /\ t.status \in [Slot -> Status] /\ t.priority \in [Slot -> Priority]
      /\ t.nextInPriority \in [Slot -> SlotOrNull] /\ t.priorities \in [Priority -> SlotOrNull]
      /\ t.waitingTicks \in [Slot -> Nat] /\ t.stuck \in BOOLEAN
  BY <1>1, Zenon DEF Table
<1>. QED BY <1>3, <1>4 DEF IInv, Typed, TypeOK

\* Whatever the scheduler's functions do, the array stays sorted by pid with
\* the slots in use, the stack holds the free ones, only the current process
\* is dead, and while the rings are whole the times of the sleepers add up.
THEOREM Invariance == Spec => []IInv
BY InitIInv, NextIInv, PTL DEF Spec

\* The five structures hold slots, and no sleeper's ticks go below zero
\* (schedTicks, enqueTicks).
THEOREM TypeCorrect == Spec => []TypeOK
BY Invariance, TypesRight, PTL

\* getByPid: its bisection of the array that orderIndexes' shell sort leaves
\* finds every process and no other pid, for any number of slots; each slot is
\* in the array, on the stack of free slots or the dead current one's.
THEOREM SlotsCorrect == Spec => []SlotsAreFound
BY Invariance, SlotsFound, PTL

\* enqueTicks, schedTicks: each sleeper's times, relative to the one before, add
\* up to what it asked for less the ticks since.
THEOREM SleepersCorrect == Spec => []SleepersOnTime
BY Invariance, SleepersRight, PTL

\* schedSchedule, removeFromReadyList and the rest keep the rings, whatever the
\* sizes and the pids, but for the steps that Treacherous names.
THEOREM RingsCorrect == Spec => BrokenOnlyOffRing
<1>1. Spec => []IInv BY Invariance
<1>2. Init => Callers BY InitCallers
<1>3. IInv /\ Callers /\ [Next]_vars => Callers' BY NextWhole
<1>4. IInv /\ Callers /\ [Next]_vars => [Whole' \/ Treacherous]_vars BY NextWhole
<1>. QED BY <1>1, <1>2, <1>3, <1>4, PTL DEF Spec, BrokenOnlyOffRing
==============================================================================
