--------------------------- MODULE SemaphoreProofs ---------------------------
(***************************************************************************)
(* The safety of Semaphore.tla for every number of processes and every     *)
(* size of the array, for callers that have interrupts disabled or are     *)
(* fewer than the places.                                                  *)
(***************************************************************************)
EXTENDS Semaphore, FiniteSetTheorems, SequenceTheorems, TLAPS

\* What keeps a process that has seen a free place from overwriting one.
Discipline == InterruptsOff \/ Cardinality(Proc) < MaxPids

\* Whose pid is in the array sleeps there, unless it was killed.
QueuedAreAsleep ==
    \A x \in Occupied :
        /\ pids[x] \in Proc
        /\ pc[pids[x]] = "asleep"
        /\ status[pids[x]] # "READY"

\* With interrupts disabled the place seen by Test is still free in Dec.
TestedAlone ==
    InterruptsOff =>
        \A p \in Proc : pc[p] = "tested" =>
            ~isFull /\ \A q \in Proc : pc[q] = "tested" => q = p

IInv == /\ TypeOK /\ NoWakeMissed /\ SleepersQueued /\ QueuedOnce
        /\ QueuedAreAsleep /\ TestedAlone

-----------------------------------------------------------------------------
\* The circular array: adding behind the last place, taking away up to a
\* place, and the array with one place left.
LEMMA SuccIsPlace == ASSUME NEW x \in Place PROVE Succ(x) \in Place
BY MaxPidsAssumption DEF Place, Succ

LEMMA WindowGrows ==
    ASSUME NEW f \in Place, NEW l \in Place, Succ(l) # f
    PROVE  /\ Window(f, Succ(l)) = Window(f, l) \union {l}
           /\ l \notin Window(f, l)
BY MaxPidsAssumption DEF Place, Succ, Window

LEMMA WindowShrinks ==
    ASSUME NEW f \in Place, NEW l \in Place, NEW x \in Window(f, l)
    PROVE  /\ Window(f, l) = Window(f, x) \union {x} \union Window(Succ(x), l)
           /\ x \notin Window(Succ(x), l)
BY MaxPidsAssumption DEF Place, Succ, Window

LEMMA WindowEmpty ==
    ASSUME NEW f \in Place, NEW l \in Place
    PROVE  Window(f, l) = {} <=> f = l
BY MaxPidsAssumption DEF Place, Window

LEMMA WindowInPlace ==
    ASSUME NEW f \in Place, NEW l \in Place
    PROVE  Window(f, l) \subseteq Place
BY MaxPidsAssumption DEF Place, Window

LEMMA WindowFull ==
    ASSUME NEW f \in Place, NEW l \in Place, Succ(l) = f
    PROVE  Window(f, l) = Place \ {l}
BY MaxPidsAssumption DEF Place, Succ, Window

\* Who has passed the test of semDec finds a free place: with interrupts
\* disabled because it was alone, else because every other place would hold
\* another process and there are not that many.
LEMMA RoomForTested ==
    ASSUME IInv, Discipline, NEW p \in Proc, pc[p] = "tested"
    PROVE  ~isFull
<1>1. CASE InterruptsOff
  BY <1>1 DEF IInv, TestedAlone
<1>2. CASE Cardinality(Proc) < MaxPids
  <2> SUFFICES ASSUME isFull PROVE FALSE
    OBVIOUS
  <2> DEFINE others == Proc \ {p}
             f == [x \in Occupied |-> pids[x]]
  <2>1. Occupied = Place \ {last} /\ last \in Place
    BY WindowFull DEF IInv, TypeOK, isFull, Occupied
  <2>2. Cardinality(Place) = MaxPids /\ IsFiniteSet(Place)
    BY FS_Interval, MaxPidsAssumption DEF Place
  <2>3. Cardinality(Occupied) = MaxPids - 1
    BY <2>1, <2>2, FS_RemoveElement
  <2>4. IsFiniteSet(others) /\ Cardinality(others) = Cardinality(Proc) - 1
    BY FS_RemoveElement, ProcAssumption
  <2>5. \A x \in Occupied : pids[x] \in others
    BY DEF IInv, QueuedAreAsleep
  <2>6. f \in Injection(Occupied, others)
    <3>1. f \in [Occupied -> others]
      BY <2>5
    <3>2. \A x, y \in Occupied : f[x] = f[y] => x = y
      BY DEF IInv, QueuedOnce
    <3> QED
      BY <3>1, <3>2 DEF Injection, IsInjective
  <2>7. Cardinality(Occupied) <= Cardinality(others)
    <3> HIDE DEF f, others
    <3> QED
      BY <2>4, <2>6, FS_Injection
  <2>8. Cardinality(Proc) \in Nat
    BY FS_CardinalityType, ProcAssumption
  <2> QED
    BY <1>2, <2>3, <2>4, <2>7, <2>8, MaxPidsAssumption
<1> QED
  BY <1>1, <1>2 DEF Discipline

-----------------------------------------------------------------------------
\* The invariant, one lemma per operation.
THEOREM InitInv == Init => IInv
<1> SUFFICES ASSUME Init PROVE IInv
  OBVIOUS
<1>1. TypeOK
  BY MaxPidsAssumption DEF Init, TypeOK, Place
<1>2. Occupied = {}
  BY DEF Init, Occupied, Window
<1> QED
  BY <1>1, <1>2 DEF Init, IInv, NoWakeMissed, SleepersQueued, QueuedOnce,
     QueuedAreAsleep, TestedAlone

LEMMA TestInv == ASSUME IInv, NEW p \in Proc, Test(p) PROVE IInv'
<1> USE DEF IInv, Test, sem
<1>1. TypeOK'
  BY DEF TypeOK
<1>2. Occupied' = Occupied /\ (isFull <=> isFull')
  BY DEF Occupied, Window, isFull, Succ
<1>3. NoWakeMissed' /\ SleepersQueued' /\ QueuedOnce'
  BY <1>2 DEF NoWakeMissed, isEmpty, SleepersQueued, Queued, QueuedOnce
<1>4. QueuedAreAsleep'
  BY <1>2 DEF QueuedAreAsleep, TypeOK
<1>5. TestedAlone'
  BY <1>2 DEF TestedAlone, Interruptible, TypeOK
<1> QED
  BY <1>1, <1>3, <1>4, <1>5

LEMMA SleepInv ==
    ASSUME IInv, Discipline, NEW p \in Proc, status[p] = "READY", pc[p] = "tested", Sleep(p)
    PROVE  IInv'
<1> USE DEF IInv, Sleep, addPid
<1>1. TypeOK'
  BY SuccIsPlace DEF TypeOK
<1>2. /\ Occupied' = Occupied \union {last} /\ last \notin Occupied
      /\ Occupied \subseteq Place /\ last \in Place
  BY RoomForTested, WindowGrows, WindowInPlace DEF TypeOK, isFull, Occupied
<1>3. pids'[last] = p /\ \A x \in Occupied : pids'[x] = pids[x] /\ pids[x] # p
  BY <1>2 DEF TypeOK, QueuedAreAsleep
<1>4. NoWakeMissed'
  BY DEF TypeOK, NoWakeMissed
<1>5. SleepersQueued'
  BY <1>2, <1>3 DEF SleepersQueued, Queued, TypeOK
<1>6. QueuedOnce'
  BY <1>2, <1>3 DEF QueuedOnce
<1>7. QueuedAreAsleep'
  BY <1>2, <1>3 DEF QueuedAreAsleep, TypeOK
<1>8. TestedAlone'
  BY DEF TestedAlone, TypeOK
<1> QED
  BY <1>1, <1>4, <1>5, <1>6, <1>7, <1>8

\* The operations that leave the array and the statuses alone.
LEMMA CountersInv ==
    ASSUME IInv, NEW p \in Proc, \/ pc[p] = "tested" /\ Take(p)
                                \/ Return(p)
                                \/ semConsume
    PROVE  IInv'
<1> USE DEF IInv, Take, Return, semConsume, sem
<1>1. TypeOK'
  BY DEF TypeOK
<1>2. Occupied' = Occupied /\ (isFull <=> isFull')
  BY DEF Occupied, Window, isFull, Succ
<1>3. NoWakeMissed'
  BY DEF NoWakeMissed, isEmpty, TypeOK
<1>4. SleepersQueued' /\ QueuedOnce'
  BY <1>2 DEF SleepersQueued, Queued, QueuedOnce
<1>5. QueuedAreAsleep'
  BY <1>2 DEF QueuedAreAsleep, TypeOK
<1>6. TestedAlone'
  BY <1>2 DEF TestedAlone, TypeOK
<1> QED
  BY <1>1, <1>3, <1>4, <1>5, <1>6

\* The pids in front of place x have left the scheduler's list; the one at x
\* leaves the array and its process is the only one that becomes READY.
LEMMA WakeInv ==
    ASSUME IInv, NEW x \in Place, WakeAt(x), semInc
    PROVE  IInv'
<1> USE DEF IInv, WakeAt, semInc
<1> DEFINE p == pids[x]
<1>1. x \in Occupied /\ p \in Proc
  BY DEF QueuedAreAsleep
<1>2. TypeOK'
  BY <1>1, SuccIsPlace DEF TypeOK
<1>3. Occupied' = Window(Succ(x), last)
  BY DEF Occupied, Window, Succ
<1>4. Occupied = Window(first, x) \union {x} \union Occupied' /\ x \notin Occupied'
  BY <1>1, <1>3, WindowShrinks DEF TypeOK, Occupied
<1>5. \A y \in Occupied' : pids[y] # p
  BY <1>1, <1>4 DEF QueuedOnce
<1>6. NoWakeMissed'
  BY <1>1, WindowEmpty DEF NoWakeMissed, isEmpty, TypeOK, Occupied
<1>7. SleepersQueued'
  <2> SUFFICES ASSUME NEW q \in Proc, status'[q] = "BLOCKED"
               PROVE  \E y \in Occupied' : pids[y] = q
    BY DEF SleepersQueued, Queued
  <2>1. q # p /\ status[q] = "BLOCKED"
    BY <1>1 DEF TypeOK
  <2>2. PICK y \in Occupied : pids[y] = q
    BY <2>1 DEF SleepersQueued, Queued
  <2>3. y \notin Window(first, x) /\ y # x
    BY <2>1, <2>2 DEF Listed
  <2> QED
    BY <1>4, <2>2, <2>3
<1>8. QueuedOnce'
  BY <1>4 DEF QueuedOnce
<1>9. QueuedAreAsleep'
  BY <1>4, <1>5 DEF QueuedAreAsleep, TypeOK
<1>10. TestedAlone'
  BY DEF TestedAlone, Interruptible
<1> QED
  BY <1>2, <1>6, <1>7, <1>8, <1>9, <1>10

LEMMA CountInv == ASSUME IInv, Count, semInc PROVE IInv'
<1> USE DEF IInv, Count, semInc
<1>1. TypeOK'
  BY DEF TypeOK
<1>2. Occupied' = {} /\ isEmpty'
  BY WindowEmpty DEF TypeOK, Occupied, Window, isEmpty
<1>3. SleepersQueued'
  BY DEF SleepersQueued, Queued, Listed
<1>4. TestedAlone'
  BY DEF TestedAlone, Interruptible
<1> QED
  BY <1>1, <1>2, <1>3, <1>4 DEF NoWakeMissed, QueuedOnce, QueuedAreAsleep

LEMMA DieInv == ASSUME IInv, NEW p \in Proc, Kill(p) \/ Reap(p) PROVE IInv'
<1> USE DEF IInv, Kill, Reap, sem
<1>1. TypeOK'
  BY DEF TypeOK
<1>2. Occupied' = Occupied /\ (isFull <=> isFull')
  BY DEF Occupied, Window, isFull, Succ
<1>3. NoWakeMissed' /\ QueuedOnce'
  BY <1>2 DEF NoWakeMissed, isEmpty, QueuedOnce
<1>4. SleepersQueued'
  BY <1>2 DEF SleepersQueued, Queued, TypeOK
<1>5. QueuedAreAsleep'
  BY <1>2 DEF QueuedAreAsleep, TypeOK
<1>6. TestedAlone'
  BY <1>2 DEF TestedAlone
<1> QED
  BY <1>1, <1>3, <1>4, <1>5, <1>6

LEMMA NextInv == ASSUME IInv, Discipline, [Next]_vars PROVE IInv'
<1>1. ASSUME NEW p \in Proc, Test(p) PROVE IInv'
  BY <1>1, TestInv
<1>2. ASSUME NEW p \in Proc, Dec(p) PROVE IInv'
  BY <1>2, SleepInv, CountersInv DEF Dec
<1>3. ASSUME NEW p \in Proc, Return(p) PROVE IInv'
  BY <1>3, CountersInv
<1>4. ASSUME NEW p \in Proc, Kill(p) \/ Reap(p) PROVE IInv'
  BY <1>4, DieInv
<1>5. CASE semInc
  BY <1>5, WakeInv, CountInv DEF semInc
<1>6. CASE semConsume
  <2>1. Proc # {} => IInv'
    BY <1>6, CountersInv
  <2>2. Proc = {} => IInv'
    BY <1>6 DEF IInv, semConsume, TypeOK, NoWakeMissed, isEmpty, SleepersQueued,
       QueuedOnce, QueuedAreAsleep, TestedAlone, Occupied, Window
  <2> QED
    BY <2>1, <2>2
<1>7. CASE UNCHANGED vars
  BY <1>7 DEF vars, sem, IInv, TypeOK, NoWakeMissed, isEmpty, SleepersQueued, Queued,
     QueuedOnce, QueuedAreAsleep, TestedAlone, isFull, Occupied, Window, Succ
<1> QED
  BY <1>1, <1>2, <1>3, <1>4, <1>5, <1>6, <1>7 DEF Next

-----------------------------------------------------------------------------
\* The invariant holds for ever if no process is let past the test of semDec
\* that could overwrite the last place.
THEOREM Invariance == ASSUME Discipline PROVE Spec => []IInv
<1>1. Init => IInv
  BY InitInv
<1>2. IInv /\ [Next]_vars => IInv'
  BY NextInv
<1> QED
  BY <1>1, <1>2, PTL DEF Spec

\* Nobody sleeps while a wake is counted (semDec, semInc).
THEOREM WakesReachSleepers == ASSUME Discipline PROVE Spec => []NoWakeMissed
<1>1. IInv => NoWakeMissed
  BY DEF IInv
<1> QED
  BY <1>1, Invariance, PTL

\* Who sleeps in semDec has its pid in the array (addPid).
THEOREM SleepersCanBeWoken == ASSUME Discipline PROVE Spec => []SleepersQueued
<1>1. IInv => SleepersQueued
  BY DEF IInv
<1> QED
  BY <1>1, Invariance, PTL

\* The places of the circular array stay in the array, whatever is added to
\* it and taken away, and a value is never negative.
THEOREM TypeCorrect == ASSUME Discipline PROVE Spec => []TypeOK
<1>1. IInv => TypeOK
  BY DEF IInv
<1> QED
  BY <1>1, Invariance, PTL

\* No pid is twice in the array: a wake is never spent on a process that
\* does not sleep here.
THEOREM NobodyQueuedTwice == ASSUME Discipline PROVE Spec => []QueuedOnce
<1>1. IInv => QueuedOnce
  BY DEF IInv
<1> QED
  BY <1>1, Invariance, PTL

-----------------------------------------------------------------------------
\* Calls that return never outnumber the wakes.
Woken == {p \in Proc : pc[p] = "asleep" /\ status[p] = "READY"}

LEMMA WokenFinite == IsFiniteSet(Woken) /\ Cardinality(Woken) \in Nat
BY FS_Subset, FS_CardinalityType, ProcAssumption DEF Woken

LEMMA WokenShrinks ==
    ASSUME Woken' \subseteq Woken
    PROVE  Cardinality(Woken') <= Cardinality(Woken) /\ Cardinality(Woken') \in Nat
BY WokenFinite, FS_Subset, FS_CardinalityType

LEMMA FreeInv ==
    ASSUME IInv, NobodyPassesFree, [Next]_vars
    PROVE  NobodyPassesFree'
<1> USE DEF IInv, TypeOK
<1>0. NobodyPassesFree <=> balance >= value + Cardinality(Woken)
  BY DEF NobodyPassesFree, Woken
<1>p. NobodyPassesFree' <=> balance' >= value' + Cardinality(Woken')
  BY DEF NobodyPassesFree, Woken
<1> USE WokenFinite
<1>1. ASSUME UNCHANGED <<value, balance>>, Woken' \subseteq Woken PROVE NobodyPassesFree'
  BY <1>0, <1>1, <1>p, WokenShrinks
<1>2. ASSUME Woken' \subseteq Woken, value' = value - 1, balance' = balance - 1
      PROVE  NobodyPassesFree'
  BY <1>0, <1>2, <1>p, WokenShrinks
<1>3. ASSUME NEW p \in Proc, Test(p) PROVE NobodyPassesFree'
  <2>1. Woken' \subseteq Woken
    BY <1>3 DEF Test, Woken
  <2> QED
    BY <1>1, <1>3, <2>1 DEF Test, sem
<1>4. ASSUME NEW p \in Proc, Dec(p) PROVE NobodyPassesFree'
  <2>1. CASE Sleep(p)
    <3>1. Woken' \subseteq Woken
      BY <2>1 DEF Sleep, Woken
    <3> QED
      BY <1>1, <2>1, <3>1 DEF Sleep
  <2>2. CASE Take(p)
    <3>1. Woken' \subseteq Woken
      BY <2>2 DEF Take, Woken
    <3> QED
      BY <1>2, <2>2, <3>1 DEF Take
  <2> QED
    BY <1>4, <2>1, <2>2 DEF Dec
<1>5. ASSUME NEW p \in Proc, Return(p) PROVE NobodyPassesFree'
  <2>1. Woken' = Woken \ {p} /\ p \in Woken
    BY <1>5 DEF Return, Woken
  <2>2. Cardinality(Woken') = Cardinality(Woken) - 1
    BY <2>1, FS_RemoveElement
  <2> QED
    BY <1>0, <1>5, <1>p, <2>2 DEF Return, sem
<1>6. ASSUME NEW x \in Place, WakeAt(x), semInc PROVE NobodyPassesFree'
  <2> DEFINE p == pids[x]
  <2>1. Woken' \subseteq Woken \union {p}
    BY <1>6 DEF WakeAt, semInc, Woken
  <2> HIDE DEF p
  <2>4. IsFiniteSet(Woken)
    BY WokenFinite
  <2>5. /\ IsFiniteSet(Woken \union {p})
        /\ Cardinality(Woken \union {p})
              = IF p \in Woken THEN Cardinality(Woken) ELSE Cardinality(Woken) + 1
    BY ONLY <2>4, FS_AddElement
  <2>2. /\ IsFiniteSet(Woken \union {p})
        /\ Cardinality(Woken \union {p}) <= Cardinality(Woken) + 1
        /\ Cardinality(Woken \union {p}) \in Nat
    BY ONLY <2>5, WokenFinite
  <2>3. Cardinality(Woken') <= Cardinality(Woken) + 1 /\ Cardinality(Woken') \in Nat
    BY <2>1, <2>2, FS_Subset, FS_CardinalityType
  <2> QED
    BY <1>0, <1>6, <1>p, <2>3 DEF WakeAt, semInc
<1>7. CASE Count /\ semInc
  <2>1. Woken' = Woken
    BY <1>7 DEF Count, semInc, Woken
  <2> QED
    BY <1>0, <1>7, <1>p, <2>1 DEF Count, semInc
<1>8. CASE semConsume
  <2>1. Woken' \subseteq Woken
    BY <1>8 DEF semConsume, Woken
  <2> QED
    BY <1>2, <1>8, <2>1 DEF semConsume
<1>9. ASSUME NEW p \in Proc, Kill(p) \/ Reap(p) PROVE NobodyPassesFree'
  <2>1. Woken' \subseteq Woken
    BY <1>9 DEF Kill, Reap, Woken
  <2> QED
    BY <1>1, <1>9, <2>1 DEF Kill, Reap, sem
<1>10. CASE UNCHANGED vars
  BY <1>10 DEF vars, sem, NobodyPassesFree
<1> QED
  BY <1>3, <1>4, <1>5, <1>6, <1>7, <1>8, <1>9, <1>10 DEF Next, semInc

\* At most as many calls of semDec return as semInc made room for.
THEOREM PassesArePaid == ASSUME Discipline PROVE Spec => []NobodyPassesFree
<1>1. Init => NobodyPassesFree
  <2> SUFFICES ASSUME Init PROVE NobodyPassesFree
    OBVIOUS
  <2>1. Woken = {}
    BY DEF Init, Woken
  <2>2. Cardinality(Woken) = 0
    BY <2>1, FS_EmptySet
  <2> QED
    BY <2>2 DEF Init, NobodyPassesFree, Woken
<1>2. IInv /\ NobodyPassesFree /\ [Next]_vars => NobodyPassesFree'
  BY FreeInv
<1> QED
  BY <1>1, <1>2, Invariance, PTL DEF Spec

-----------------------------------------------------------------------------
\* The array as a sequence: its k-th pid is at At(k - 1).
LEMMA PlacesOfIndexes ==
    ASSUME TypeOK
    PROVE  /\ Length \in Nat
           /\ Occupied \subseteq Place
           /\ \A k \in 0 .. Length - 1 : At(k) \in Occupied
           /\ \A x \in Occupied : \E k \in 0 .. Length - 1 :
                 /\ x = At(k)
                 /\ \A m \in 0 .. k - 1 : At(m) \in Window(first, x)
<1> USE MaxPidsAssumption DEF TypeOK, Place
<1>1. Length \in Nat /\ Occupied \subseteq Place
  BY DEF Length, Occupied, Window
<1>2. \A k \in 0 .. Length - 1 : At(k) \in Occupied
  BY DEF Length, Occupied, Window, At
<1>3. ASSUME NEW x \in Occupied
      PROVE  \E k \in 0 .. Length - 1 :
                 /\ x = At(k)
                 /\ \A m \in 0 .. k - 1 : At(m) \in Window(first, x)
  <2> DEFINE k == IF first <= x THEN x - first ELSE x - first + MaxPids
  <2>1. k \in 0 .. Length - 1 /\ x = At(k)
    BY DEF Length, Occupied, Window, At
  <2>2. \A m \in 0 .. k - 1 : At(m) \in Window(first, x)
    BY DEF Length, Occupied, Window, At
  <2> QED
    BY <2>1, <2>2
<1> QED
  BY <1>1, <1>2, <1>3

LEMMA QueueIsSeq ==
    TypeOK => Queue \in Seq(Proc \union {NoPid}) /\ Len(Queue) = Length
<1> SUFFICES ASSUME TypeOK
             PROVE  Queue \in Seq(Proc \union {NoPid}) /\ Len(Queue) = Length
  OBVIOUS
<1>1. \A k \in 1 .. Length : At(k - 1) \in Place
  BY PlacesOfIndexes
<1>2. \A k \in 1 .. Length : pids[At(k - 1)] \in Proc \union {NoPid}
  BY <1>1 DEF TypeOK
<1>3. Length \in Nat
  BY PlacesOfIndexes
<1> QED
  BY <1>2, <1>3 DEF Queue

LEMMA QueueStaysSeq ==
    TypeOK' => (Queue \in Seq(Proc \union {NoPid}) /\ Len(Queue) = Length)'
BY QueueIsSeq, PTL

LEMMA QueueKept ==
    ASSUME UNCHANGED <<pids, first, last>> PROVE Queue' = Queue
BY DEF Queue, Length, At

\* addPid appends to the sequence.
LEMMA SleepAppends ==
    ASSUME IInv, IInv', Discipline, NEW p \in Proc, pc[p] = "tested", Sleep(p)
    PROVE  Queue' = Append(Queue, p)
<1> DEFINE S == Proc \union {NoPid}
<1>1. Queue \in Seq(S) /\ Len(Queue) = Length /\ Length \in Nat
  BY QueueIsSeq, PlacesOfIndexes DEF IInv
<1>2. Queue' \in Seq(S) /\ Len(Queue)' = Length'
  BY QueueStaysSeq DEF IInv
<1>3. Length' = Length + 1
  BY RoomForTested, MaxPidsAssumption
     DEF IInv, TypeOK, Place, Sleep, addPid, Length, isFull, Succ
<1>0. first \in Place /\ last \in Place /\ first' = first
  BY DEF IInv, TypeOK, Sleep
<1>8. \A k : At(k)' = At(k)
  BY <1>0 DEF At
<1>9. \A k \in 0 .. Length - 1 : At(k) # last /\ At(k) \in Place
  BY <1>0, MaxPidsAssumption DEF Place, Length, At
<1>12. PICK n \in Nat : n = Length
  BY <1>1
<1>10. At(n) = last
  BY <1>0, <1>12, MaxPidsAssumption DEF Place, Length, At
<1>11. pids' = [pids EXCEPT ![last] = p] /\ pids \in [Place -> S]
  BY DEF IInv, TypeOK, Sleep, addPid
<1>4. /\ \A k \in 0 .. Length - 1 : At(k)' = At(k) /\ At(k) # last /\ At(k) \in Place
      /\ At(n)' = last
  BY <1>8, <1>9, <1>10
<1>5. ASSUME NEW k \in 1 .. Length + 1
      PROVE  Queue'[k] = IF k = Length + 1 THEN p ELSE Queue[k]
  <2>1. Queue'[k] = pids'[At(k - 1)']
    BY <1>1, <1>3 DEF Queue
  <2>2. CASE k = Length + 1
    <3>1. k - 1 = n
      BY <1>1, <1>12, <2>2
    <3>2. Queue'[k] = pids'[last]
      BY <1>4, <2>1, <3>1
    <3> QED
      BY <1>0, <1>11, <2>2, <3>2
  <2>3. CASE k \in 1 .. Length
    <3>1. k - 1 \in 0 .. Length - 1
      BY <1>1, <2>3
    <3>2. pids'[At(k - 1)] = pids[At(k - 1)]
      BY <1>4, <1>11, <3>1
    <3> QED
      BY <1>4, <2>1, <2>3, <3>1, <3>2, <1>1 DEF Queue
  <2> QED
    BY <1>1, <2>2, <2>3
<1>6. /\ Append(Queue, p) \in Seq(S)
      /\ Len(Append(Queue, p)) = Length + 1
      /\ \A k \in 1 .. Length + 1 :
            Append(Queue, p)[k] = IF k = Length + 1 THEN p ELSE Queue[k]
  BY <1>1, AppendProperties, p \in S
<1> HIDE DEF S
<1> QED
  BY <1>1, <1>2, <1>3, <1>5, <1>6, SeqEqual

\* Taking pids away up to the n-th leaves the sequence from there on.
LEMMA WakeTakesPrefix ==
    ASSUME IInv, IInv', NEW n \in 1 .. Length, first' = Succ(At(n - 1)),
           UNCHANGED <<pids, last>>
    PROVE  Queue' = SubSeq(Queue, n + 1, Len(Queue))
<1> DEFINE S == Proc \union {NoPid}
           rest == SubSeq(Queue, n + 1, Len(Queue))
<1>1. Queue \in Seq(S) /\ Len(Queue) = Length /\ Length \in Nat
  BY QueueIsSeq, PlacesOfIndexes DEF IInv
<1>2. Queue' \in Seq(S) /\ Len(Queue)' = Length'
  BY QueueStaysSeq DEF IInv
<1>3. Length' = Length - n
  BY MaxPidsAssumption DEF IInv, TypeOK, Place, Length, At, Succ
<1>4. \A k \in 0 .. Length - n - 1 : At(k)' = At(n + k)
  BY MaxPidsAssumption DEF IInv, TypeOK, Place, Length, At, Succ
<1>5. ASSUME NEW k \in 1 .. Length - n PROVE Queue'[k] = Queue[n + k]
  <2>1. Queue'[k] = pids'[At(k - 1)'] /\ Queue[n + k] = pids[At(n + k - 1)]
    BY <1>1, <1>3 DEF Queue
  <2>2. At(k - 1)' = At(n + (k - 1)) /\ n + (k - 1) = n + k - 1
    BY <1>1, <1>4
  <2> QED
    BY <2>1, <2>2
<1>6. \A k \in n + 1 .. Length : Queue[k] \in S
  BY <1>1
<1>7. /\ rest \in Seq(S)
      /\ Len(rest) = Length - n
      /\ \A k \in 1 .. Length - n : rest[k] = Queue[n + k]
  <2>1. /\ rest \in Seq(S)
        /\ Len(rest) = IF n + 1 <= Length THEN Length - (n + 1) + 1 ELSE 0
        /\ \A k \in 1 .. Length - (n + 1) + 1 : rest[k] = Queue[(n + 1) + k - 1]
    BY <1>1, <1>6, SubSeqProperties
  <2> QED
    BY <1>1, <2>1
<1> HIDE DEF S, rest
<1>8. Queue' = rest
  BY <1>1, <1>2, <1>3, <1>5, <1>7, SeqEqual
<1> QED
  BY <1>8 DEF rest

\* A wake at place x is the abstract wake of its index; Count empties the queue.
LEMMA WakeImplements ==
    ASSUME IInv, IInv', NEW x \in Place, WakeAt(x), semInc
    PROVE  \E n \in 1 .. Len(Queue) : Abstract!WakeUp(n)
<1>1. Len(Queue) = Length /\ Length \in Nat
  BY QueueIsSeq, PlacesOfIndexes DEF IInv
<1>2. PICK k \in 0 .. Length - 1 : /\ x = At(k)
                                  /\ \A m \in 0 .. k - 1 : At(m) \in Window(first, x)
  BY PlacesOfIndexes DEF IInv, WakeAt
<1> DEFINE n == k + 1
<1>3. n \in 1 .. Length /\ n - 1 = k
  BY <1>1, <1>2
<1>4. Queue[n] = pids[x]
  BY <1>2, <1>3 DEF Queue
<1>5. ASSUME NEW m \in 1 .. n - 1 PROVE status[Queue[m]] = "GONE"
  <2>1. m - 1 \in 0 .. k - 1 /\ m \in 1 .. Length
    BY <1>1, <1>2, <1>5
  <2>2. Queue[m] = pids[At(m - 1)]
    BY <2>1 DEF Queue
  <2> QED
    BY <1>2, <2>1, <2>2 DEF WakeAt, Listed
<1>6. Queue' = SubSeq(Queue, n + 1, Len(Queue))
  <2>1. first' = Succ(At(n - 1)) /\ UNCHANGED <<pids, last>>
    BY <1>2, <1>3 DEF WakeAt, semInc
  <2> HIDE DEF n
  <2> QED
    BY <1>3, <2>1, WakeTakesPrefix
<1>7. Abstract!WakeUp(n)
  BY <1>4, <1>5, <1>6 DEF Abstract!WakeUp, WakeAt, Listed
<1> QED
  BY <1>1, <1>3, <1>7

LEMMA CountImplements ==
    ASSUME IInv, IInv', Count, semInc PROVE Abstract!CountWake
<1>1. Len(Queue) = Length /\ Length \in Nat
  BY QueueIsSeq, PlacesOfIndexes DEF IInv
<1>2. ASSUME NEW m \in 1 .. Len(Queue) PROVE status[Queue[m]] = "GONE"
  <2>1. m - 1 \in 0 .. Length - 1 /\ m \in 1 .. Length
    BY <1>1, <1>2
  <2>2. Queue[m] = pids[At(m - 1)] /\ At(m - 1) \in Occupied
    BY <2>1, PlacesOfIndexes DEF Queue, IInv
  <2> QED
    BY <2>2 DEF Count, Listed
<1>3. Queue' = << >>
  <2>1. Length' = 0
    BY DEF Length, Count, semInc, IInv, TypeOK, Place
  <2>2. Queue' \in Seq(Proc \union {NoPid}) /\ Len(Queue)' = 0
    BY <2>1, QueueStaysSeq DEF IInv
  <2> QED
    BY <2>2, EmptySeq
<1> QED
  BY <1>2, <1>3 DEF Abstract!CountWake, Count

LEMMA StepImplements ==
    ASSUME IInv, IInv', Discipline, [Next]_vars
    PROVE  [Abstract!FifoNext]_(Abstract!fifoVars)
<1> USE DEF Abstract!FifoNext, Abstract!fifoVars
<1>1. ASSUME NEW p \in Proc, Test(p) \/ Return(p)
      PROVE  UNCHANGED Abstract!fifoVars
  BY <1>1, QueueKept DEF Test, Return, sem
<1>2. ASSUME NEW p \in Proc, Dec(p)
      PROVE  Abstract!FallAsleep(p) \/ Abstract!Pass(p)
  <2>1. CASE Sleep(p)
    <3>1. value = 0
      BY <2>1 DEF Sleep, IInv, TypeOK
    <3>2. Queue' = Append(Queue, p)
      BY <1>2, <2>1, SleepAppends DEF Dec
    <3> QED
      BY <1>2, <2>1, <3>1, <3>2 DEF Dec, Sleep, Abstract!FallAsleep
  <2>2. CASE Take(p)
    BY <1>2, <2>2, QueueKept DEF Dec, Take, Abstract!Pass
  <2> QED
    BY <1>2, <2>1, <2>2 DEF Dec
<1>3. ASSUME NEW p \in Proc, Kill(p) \/ Reap(p)
      PROVE  Abstract!Die(p)
  BY <1>3, QueueKept DEF Kill, Reap, sem, Abstract!Die
<1>4. CASE semInc
  BY <1>4, WakeImplements, CountImplements DEF semInc
<1>5. CASE semConsume
  BY <1>5, QueueKept DEF semConsume, Abstract!Consume
<1>6. CASE UNCHANGED vars
  BY <1>6, QueueKept DEF vars, sem
<1> QED
  BY <1>1, <1>2, <1>3, <1>4, <1>5, <1>6 DEF Next

\* The circular array implements what semaphore.h promises: processes are
\* woken in the order in which they fell asleep, and a wake that finds nobody
\* on the scheduler's list is counted.
THEOREM Implements == ASSUME Discipline PROVE Spec => Fifo
<1>1. Init => Abstract!FifoInit
  <2> SUFFICES ASSUME Init PROVE Abstract!FifoInit
    OBVIOUS
  <2>1. IInv /\ Length = 0
    BY InitInv DEF Init, Length
  <2>2. Queue \in Seq(Proc \union {NoPid}) /\ Len(Queue) = 0
    BY <2>1, QueueIsSeq DEF IInv
  <2> QED
    BY <2>2, EmptySeq DEF Init, Abstract!FifoInit
<1>2. IInv /\ IInv' /\ [Next]_vars => [Abstract!FifoNext]_(Abstract!fifoVars)
  BY StepImplements
<1> QED
  BY <1>1, <1>2, Invariance, PTL DEF Spec, Fifo, Abstract!FifoSpec
==============================================================================
