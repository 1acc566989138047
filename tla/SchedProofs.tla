---------------------------- MODULE SchedProofs ----------------------------
(***************************************************************************)
(* Theorems about the scheduler of Sched.tla, for every table size, every  *)
(* number of creations and every set of sleeping times.                    *)
(*                                                                         *)
(* The central one is that the circular list stays one cycle through       *)
(* exactly the slots in use.  "One cycle" is stated without paths: a       *)
(* nonempty set of slots closed under nextSlot is the whole ring.  That    *)
(* makes it inductive: inserting a slot after the current one and          *)
(* unlinking one turn a closed set of the new list into one of the old.    *)
(* The last part is about the whole scan: the loop over nextSlot, with     *)
(* what it unlinks on its way, computes RoundRobin.                        *)
(***************************************************************************)
EXTENDS MCSched, FiniteSetTheorems, SequenceTheorems, Iteration

\* What the scan relies on between two iterations: the slot it stands on may
\* have been unlinked, but the one it goes to next is on the list.
ScanIsOnRing == pc = "scan" => nextSlot[newSlot] \in Ring

\* INIT and IDLE never wait for a semaphore, and who does is on the list.
AsleepOnRing == asleep \subseteq Ring \ {InitSlot, IdleSlot}

IInv ==
    /\ TypeOK
    /\ RingIsOneCycle
    /\ CountIsRingSize
    /\ CurrentIsOnRing
    /\ SleepersHaveTicks
    /\ ScanIsOnRing
    /\ AsleepOnRing

-----------------------------------------------------------------------------
\* The three facts about circular lists.  Inserting n after c (schedAdd):
LEMMA InsertKeepsCycle ==
    ASSUME NEW D, NEW R \in SUBSET D, NEW f \in [D -> D], IsOneCycle(R, f),
           NEW c \in R, NEW n \in D \ R
    PROVE  IsOneCycle(R \union {n}, [f EXCEPT ![n] = f[c], ![c] = n])
<1> DEFINE g == [f EXCEPT ![n] = f[c], ![c] = n]
           Q == R \union {n}
<1>1. g[n] = f[c] /\ g[c] = n /\ \A s \in R \ {c} : g[s] = f[s]
  OBVIOUS
<1>2. \A s \in R : f[s] \in R
  BY DEF IsOneCycle
<1>3. \A s, t \in R : f[s] = f[t] => s = t
  BY DEF IsOneCycle
<1> HIDE DEF g
<1>4. \A s \in Q : g[s] \in Q
  BY <1>1, <1>2
<1>5. \A s, t \in Q : g[s] = g[t] => s = t
  BY <1>1, <1>2, <1>3
<1>6. ASSUME NEW S \in SUBSET Q, S # {}, \A s \in S : g[s] \in S
      PROVE  S = Q
  <2> DEFINE T == S \ {n}
  <2>1. T \in SUBSET R
    OBVIOUS
  <2>2. T # {}
    BY <1>1, <1>2, <1>6
  <2>3. \A s \in T : f[s] \in T
    BY <1>1, <1>2, <1>6
  <2>4. T = R
    BY <2>1, <2>2, <2>3 DEF IsOneCycle
  <2>5. n \in S
    BY <2>4, <1>1, <1>6
  <2> QED
    BY <2>4, <2>5
<1> QED
  BY <1>4, <1>5, <1>6 DEF IsOneCycle, g

\* Unlinking d, the successor of p (schedSchedule):
LEMMA UnlinkKeepsCycle ==
    ASSUME NEW D, NEW R \in SUBSET D, NEW f \in [D -> D], IsOneCycle(R, f),
           NEW p \in R, NEW d \in R, p # d, f[p] = d
    PROVE  IsOneCycle(R \ {d}, [f EXCEPT ![p] = f[d]])
<1> DEFINE g == [f EXCEPT ![p] = f[d]]
           Q == R \ {d}
<1>1. g[p] = f[d] /\ \A s \in R \ {p} : g[s] = f[s]
  OBVIOUS
<1>2. \A s \in R : f[s] \in R
  BY DEF IsOneCycle
<1>3. \A s, t \in R : f[s] = f[t] => s = t
  BY DEF IsOneCycle
<1> HIDE DEF g
<1>4. \A s \in Q : g[s] \in Q
  BY <1>1, <1>2, <1>3
<1>5. \A s, t \in Q : g[s] = g[t] => s = t
  BY <1>1, <1>2, <1>3
<1>6. ASSUME NEW S \in SUBSET Q, S # {}, \A s \in S : g[s] \in S
      PROVE  S = Q
  <2>1. CASE p \in S
    <3> DEFINE T == S \union {d}
    <3>1. T \in SUBSET R /\ T # {}
      OBVIOUS
    <3>2. \A s \in T : f[s] \in T
      BY <1>1, <1>6, <2>1
    <3>3. T = R
      BY <3>1, <3>2 DEF IsOneCycle
    <3> QED
      BY <3>3
  <2>2. CASE p \notin S
    <3>1. \A s \in S : f[s] \in S
      BY <1>1, <1>6, <2>2
    <3>2. S = R
      BY <3>1, <1>6 DEF IsOneCycle
    <3> QED
      BY <3>2, <2>2
  <2> QED
    BY <2>1, <2>2
<1> QED
  BY <1>4, <1>5, <1>6 DEF IsOneCycle, g

\* On a list of two or more, findPrevSlot finds a predecessor other than the
\* slot itself.
LEMMA PredecessorExists ==
    ASSUME NEW R, NEW f, IsOneCycle(R, f), NEW d \in R, NEW e \in R, d # e
    PROVE  /\ \E p \in R : f[p] = d
           /\ f[d] # d
<1>1. \E p \in R : f[p] = d
  <2> SUFFICES ASSUME \A p \in R : f[p] # d
               PROVE  FALSE
    OBVIOUS
  <2> DEFINE S == R \ {d}
  <2>1. S \in SUBSET R /\ S # {}
    OBVIOUS
  <2>2. \A s \in S : f[s] \in S
    BY DEF IsOneCycle
  <2>3. S = R
    BY <2>1, <2>2 DEF IsOneCycle
  <2> QED
    BY <2>3
<1>2. f[d] # d
  <2> SUFFICES ASSUME f[d] = d
               PROVE  FALSE
    OBVIOUS
  <2>1. {d} \in SUBSET R /\ {d} # {} /\ \A s \in {d} : f[s] \in {d}
    OBVIOUS
  <2>2. {d} = R
    BY <2>1 DEF IsOneCycle
  <2> QED
    BY <2>2
<1> QED
  BY <1>1, <1>2

-----------------------------------------------------------------------------
\* Every slot number is one and the ring is finite.
LEMMA SlotFacts ==
    /\ InitSlot \in Slot /\ IdleSlot \in Slot /\ InitSlot # IdleSlot
    /\ IsFiniteSet(Ring) /\ Ring \subseteq Slot
<1>1. InitSlot \in Slot /\ IdleSlot \in Slot /\ InitSlot # IdleSlot
  BY MaxProcessAssumption DEF Slot, InitSlot, IdleSlot
<1>2. Ring \subseteq Slot
  BY DEF Ring
<1>3. IsFiniteSet(Slot)
  BY MaxProcessAssumption, FS_Interval DEF Slot
<1> QED
  BY <1>1, <1>2, <1>3, FS_Subset

\* A sleeping process gets at least one tick, whatever it asks for.
LEMMA TicksPositive == \A ms \in SleepMs : TicksOf(ms) \in Nat \ {0}
BY SleepMsAssumption DEF TicksOf

LEMMA InitIInv == Init => IInv
<1> SUFFICES ASSUME Init
             PROVE  IInv
  OBVIOUS
<1> USE DEF Init
<1>1. Ring = {InitSlot, IdleSlot}
  BY SlotFacts DEF Ring
<1>2. TypeOK
  BY SlotFacts DEF TypeOK, Status
<1>3. nextSlot[InitSlot] = IdleSlot /\ nextSlot[IdleSlot] = InitSlot
  BY SlotFacts
<1>4. RingIsOneCycle
  <2>1. \A s \in Ring : nextSlot[s] \in Ring
    BY <1>1, <1>3
  <2>2. \A s, t \in Ring : nextSlot[s] = nextSlot[t] => s = t
    BY <1>1, <1>3
  <2>3. ASSUME NEW S \in SUBSET Ring, S # {}, \A s \in S : nextSlot[s] \in S
        PROVE  S = Ring
    BY <1>1, <1>3, <2>3
  <2> QED
    BY <2>1, <2>2, <2>3 DEF RingIsOneCycle, IsOneCycle
<1>5. CountIsRingSize
  <2>1. Cardinality({InitSlot}) = 1 /\ IsFiniteSet({InitSlot})
    BY FS_Singleton
  <2>2. Cardinality({InitSlot} \union {IdleSlot}) = Cardinality({InitSlot}) + 1
    <3>1. IdleSlot \notin {InitSlot}
      BY SlotFacts
    <3> QED
      BY <2>1, <3>1, FS_AddElement
  <2>3. {InitSlot} \union {IdleSlot} = Ring
    BY <1>1
  <2> QED
    BY <2>1, <2>2, <2>3 DEF CountIsRingSize
<1>6. CurrentIsOnRing
  BY <1>1, SlotFacts DEF CurrentIsOnRing
<1>7. SleepersHaveTicks /\ ScanIsOnRing /\ AsleepOnRing
  BY SlotFacts DEF SleepersHaveTicks, ScanIsOnRing, AsleepOnRing
<1> QED
  BY <1>2, <1>4, <1>5, <1>6, <1>7 DEF IInv

\* A step that leaves the list and its members alone keeps what depends on
\* nothing else.
LEMMA SameRing ==
    ASSUME IInv, Ring' = Ring, UNCHANGED <<nextSlot, processCant>>
    PROVE  RingIsOneCycle' /\ CountIsRingSize'
BY DEF IInv, RingIsOneCycle, IsOneCycle, CountIsRingSize

\* The entry of schedSchedule, from a table st with the same ring.
LEMMA StartScanIInv ==
    ASSUME IInv, pc # "scan",
           NEW st \in [Slot -> Status], StartScan(st),
           {s \in Slot : st[s] # "FREE"} = Ring,
           st[InitSlot] # "DEAD", st[IdleSlot] \in {"READY", "RUNNING"},
           \A s \in Slot : st[s] = "RUNNING" => s = currentSlot,
           waitingTicks' \in [Slot -> Nat],
           \A s \in Slot : st[s] = "WAITING" => waitingTicks'[s] >= 1,
           asleep' \subseteq Ring \ {InitSlot, IdleSlot}
    PROVE  IInv'
<1> USE SlotFacts
<1>1. currentSlot \in Slot /\ currentSlot \in Ring
  BY DEF IInv, TypeOK, CurrentIsOnRing
<1>2. status' \in [Slot -> Status]
  BY <1>1 DEF StartScan, Status
<1>3. /\ \A s \in Slot \ {currentSlot} : status'[s] = st[s]
      /\ status'[currentSlot] = IF st[currentSlot] = "RUNNING"
                                THEN "READY" ELSE st[currentSlot]
  BY <1>1 DEF StartScan
<1>4. Ring' = Ring
  BY <1>3 DEF Ring
<1>5. pc' = "scan" /\ newSlot' = currentSlot /\ i' = 0 /\ reaped' = 0
      /\ UNCHANGED <<nextSlot, currentSlot, processCant, created>>
  BY DEF StartScan, FirstSlot
<1>6. TypeOK'
  BY <1>2, <1>5 DEF IInv, TypeOK, Ring
<1>7. RingIsOneCycle' /\ CountIsRingSize'
  BY <1>4, <1>5, SameRing
<1>8. CurrentIsOnRing'
  BY <1>1, <1>3, <1>4, <1>5 DEF IInv, CurrentIsOnRing
<1>9. SleepersHaveTicks'
  BY <1>1, <1>3 DEF SleepersHaveTicks
<1>10. ScanIsOnRing'
  BY <1>1, <1>4, <1>5 DEF IInv, RingIsOneCycle, IsOneCycle, ScanIsOnRing
<1>11. AsleepOnRing'
  BY <1>4 DEF AsleepOnRing
<1> QED
  BY <1>6, <1>7, <1>8, <1>9, <1>10, <1>11 DEF IInv

-----------------------------------------------------------------------------
\* One lemma per action.
LEMMA TimerIInv == IInv /\ Timer => IInv'
<1> SUFFICES ASSUME IInv, Timer
             PROVE  IInv'
  OBVIOUS
<1> USE SlotFacts
<1>1. /\ status \in [Slot -> Status] /\ waitingTicks \in [Slot -> Nat]
      /\ CurrentIsOnRing /\ SleepersHaveTicks /\ AsleepOnRing
  BY DEF IInv, TypeOK
<1>2. schedTicks \in [Slot -> Status]
  BY <1>1 DEF schedTicks, Status
<1>3. \A s \in Slot : schedTicks[s] = IF status[s] = "WAITING" /\ waitingTicks[s] = 1
                                      THEN "READY" ELSE status[s]
  BY DEF schedTicks
<1>4. {s \in Slot : schedTicks[s] # "FREE"} = Ring
  BY <1>3 DEF Ring
<1>5. /\ pc # "scan" /\ StartScan(schedTicks) /\ UNCHANGED asleep
      /\ waitingTicks' = [s \in Slot |-> IF status[s] = "WAITING"
                                        THEN waitingTicks[s] - 1
                                        ELSE waitingTicks[s]]
  BY DEF Timer
<1>6. waitingTicks' \in [Slot -> Nat]
  BY <1>1, <1>5 DEF SleepersHaveTicks
<1>7. \A s \in Slot : schedTicks[s] = "WAITING" => waitingTicks'[s] >= 1
  BY <1>1, <1>3, <1>5 DEF SleepersHaveTicks
<1>8. /\ schedTicks[InitSlot] # "DEAD"
      /\ schedTicks[IdleSlot] \in {"READY", "RUNNING"}
      /\ \A s \in Slot : schedTicks[s] = "RUNNING" => s = currentSlot
  BY <1>1, <1>3 DEF CurrentIsOnRing
<1>9. asleep' \subseteq Ring \ {InitSlot, IdleSlot}
  BY <1>1, <1>5 DEF AsleepOnRing
<1> QED
  BY <1>2, <1>4, <1>5, <1>6, <1>7, <1>8, <1>9, StartScanIInv

LEMMA YieldIInv == IInv /\ Yield => IInv'
<1> SUFFICES ASSUME IInv, Yield
             PROVE  IInv'
  OBVIOUS
<1>1. /\ status \in [Slot -> Status]
      /\ {s \in Slot : status[s] # "FREE"} = Ring
      /\ status[InitSlot] # "DEAD" /\ status[IdleSlot] \in {"READY", "RUNNING"}
      /\ \A s \in Slot : status[s] = "RUNNING" => s = currentSlot
  BY DEF IInv, TypeOK, CurrentIsOnRing, Ring
<1>2. /\ waitingTicks' \in [Slot -> Nat]
      /\ \A s \in Slot : status[s] = "WAITING" => waitingTicks'[s] >= 1
      /\ asleep' \subseteq Ring \ {InitSlot, IdleSlot}
  BY DEF Yield, IInv, TypeOK, SleepersHaveTicks, AsleepOnRing
<1>3. pc # "scan" /\ StartScan(status)
  BY DEF Yield
<1> QED
  BY <1>1, <1>2, <1>3, StartScanIInv

LEMMA BlockIInv == IInv /\ Block => IInv'
<1> SUFFICES ASSUME IInv, Block
             PROVE  IInv'
  OBVIOUS
<1> USE SlotFacts
<1> DEFINE st == [status EXCEPT ![currentSlot] = "BLOCKED"]
<1>1. /\ currentSlot \in Ring \ {InitSlot, IdleSlot} /\ pc # "scan"
      /\ StartScan(st) /\ asleep' = asleep \union {currentSlot}
      /\ UNCHANGED waitingTicks
  BY DEF Block, Caller, IInv, CurrentIsOnRing
<1>2. status \in [Slot -> Status] /\ currentSlot \in Slot
  BY DEF IInv, TypeOK
<1>3. /\ st \in [Slot -> Status]
      /\ st[currentSlot] = "BLOCKED"
      /\ \A s \in Slot \ {currentSlot} : st[s] = status[s]
  BY <1>2 DEF Status
<1> HIDE DEF st
<1>4. {s \in Slot : st[s] # "FREE"} = Ring
  BY <1>1, <1>2, <1>3 DEF Ring
<1>5. /\ st[InitSlot] # "DEAD" /\ st[IdleSlot] \in {"READY", "RUNNING"}
      /\ \A s \in Slot : st[s] = "RUNNING" => s = currentSlot
  BY <1>1, <1>3 DEF IInv, CurrentIsOnRing
<1>6. /\ waitingTicks' \in [Slot -> Nat]
      /\ \A s \in Slot : st[s] = "WAITING" => waitingTicks'[s] >= 1
  BY <1>1, <1>2, <1>3 DEF IInv, TypeOK, SleepersHaveTicks
<1>7. asleep' \subseteq Ring \ {InitSlot, IdleSlot}
  BY <1>1 DEF IInv, AsleepOnRing
<1> QED
  BY <1>1, <1>3, <1>4, <1>5, <1>6, <1>7, StartScanIInv

\* The scan's iterations.  Picking a slot, or giving up:
LEMMA DispatchIInv ==
    ASSUME IInv, pc = "scan", NEW s \in Ring, Dispatch(s),
           UNCHANGED <<waitingTicks, nextSlot, processCant, callers>>
    PROVE  IInv'
<1> USE SlotFacts
<1>1. /\ status \in [Slot -> Status] /\ status[s] # "FREE"
      /\ \A t \in Slot : status[t] # "RUNNING"
  BY DEF IInv, TypeOK, CurrentIsOnRing, Ring
<1>2. /\ \A t \in Slot \ {s} : status'[t] = status[t]
      /\ status'[s] = "RUNNING" /\ status' \in [Slot -> Status]
  BY <1>1 DEF Dispatch, Status
<1>3. Ring' = Ring
  BY <1>1, <1>2 DEF Ring
<1>4. /\ currentSlot' = s /\ pc' = "user"
      /\ newSlot' = InitSlot /\ i' = 0 /\ reaped' = 0
  BY DEF Dispatch
<1>5. TypeOK'
  BY <1>2, <1>4 DEF IInv, TypeOK, callers
<1>6. RingIsOneCycle' /\ CountIsRingSize'
  BY <1>3, SameRing
<1>7. CurrentIsOnRing'
  BY <1>1, <1>2, <1>3, <1>4 DEF IInv, CurrentIsOnRing
<1>8. SleepersHaveTicks' /\ ScanIsOnRing' /\ AsleepOnRing'
  BY <1>2, <1>3, <1>4 DEF IInv, SleepersHaveTicks, ScanIsOnRing, AsleepOnRing, callers
<1> QED
  BY <1>5, <1>6, <1>7, <1>8 DEF IInv

\* going on to the next slot:
LEMMA AdvanceIInv ==
    ASSUME IInv, pc = "scan", Advance,
           UNCHANGED <<table, currentSlot, processCant, pc, reaped, callers>>
    PROVE  IInv'
<1> USE DEF table, callers
<1>1. next \in Ring /\ next \in Slot /\ nextSlot[next] \in Ring
  BY SlotFacts DEF IInv, ScanIsOnRing, next, RingIsOneCycle, IsOneCycle
<1>2. Ring' = Ring
  BY DEF Ring
<1>3. newSlot' = next /\ i' = i + 1
  BY DEF Advance
<1>4. TypeOK'
  BY <1>1, <1>3 DEF IInv, TypeOK
<1>5. RingIsOneCycle' /\ CountIsRingSize'
  BY <1>2, SameRing
<1>6. CurrentIsOnRing' /\ SleepersHaveTicks'
  BY <1>2 DEF IInv, CurrentIsOnRing, SleepersHaveTicks
<1>7. ScanIsOnRing' /\ AsleepOnRing'
  BY <1>1, <1>2, <1>3 DEF IInv, ScanIsOnRing, AsleepOnRing
<1> QED
  BY <1>4, <1>5, <1>6, <1>7 DEF IInv

\* and unlinking a dead process:
LEMMA ReapIInv == IInv /\ ScanReap => IInv'
<1> SUFFICES ASSUME IInv, ScanReap
             PROVE  IInv'
  OBVIOUS
<1> USE SlotFacts
<1> DEFINE d == next
           p == findPrevSlot(d)
<1>1. /\ TypeOK /\ RingIsOneCycle /\ CountIsRingSize /\ CurrentIsOnRing
      /\ SleepersHaveTicks /\ AsleepOnRing
  BY DEF IInv
<1>2. d \in Ring /\ d \in Slot /\ status[d] = "DEAD" /\ d # InitSlot /\ d # IdleSlot
  BY <1>1 DEF IInv, ScanIsOnRing, ScanReap, CurrentIsOnRing, next
<1>3. p \in Ring /\ nextSlot[p] = d /\ p # d /\ nextSlot[d] # d
  <2>1. InitSlot \in Ring
    BY <1>1 DEF CurrentIsOnRing
  <2>2. (\E s \in Ring : nextSlot[s] = d) /\ nextSlot[d] # d
    BY <1>1, <1>2, <2>1, PredecessorExists DEF RingIsOneCycle
  <2> QED
    BY <2>2 DEF findPrevSlot
<1>4. /\ newSlot' = d /\ i' = i + 1
      /\ nextSlot' = [nextSlot EXCEPT ![p] = nextSlot[d]]
      /\ status' = [status EXCEPT ![d] = "FREE"]
      /\ processCant' = processCant - 1
      /\ reaped' = reaped + 1
      /\ asleep' = asleep \ {d}
      /\ UNCHANGED <<waitingTicks, currentSlot, pc, created>>
      /\ pc = "scan"
  BY DEF ScanReap, Advance
<1> HIDE DEF d, p
<1>5. Ring' = Ring \ {d}
  BY <1>1, <1>2, <1>4 DEF TypeOK, Ring
<1>6. RingIsOneCycle'
  <2>1. nextSlot \in [Slot -> Slot] /\ IsOneCycle(Ring, nextSlot)
    BY <1>1 DEF TypeOK, RingIsOneCycle
  <2>2. IsOneCycle(Ring \ {d}, [nextSlot EXCEPT ![p] = nextSlot[d]])
    BY <1>2, <1>3, <2>1, UnlinkKeepsCycle
  <2> QED
    BY <1>4, <1>5, <2>2 DEF RingIsOneCycle
<1>7. CountIsRingSize' /\ processCant' \in Nat
  <2>1. Cardinality(Ring \ {d}) = Cardinality(Ring) - 1 /\ IsFiniteSet(Ring \ {d})
    BY <1>2, FS_RemoveElement
  <2>2. Cardinality(Ring \ {d}) \in Nat
    BY <2>1, FS_CardinalityType
  <2> QED
    BY <1>1, <1>4, <1>5, <2>1, <2>2 DEF CountIsRingSize
<1>8. TypeOK'
  <2>1. nextSlot' \in [Slot -> Slot] /\ status' \in [Slot -> Status]
    BY <1>1, <1>2, <1>3, <1>4 DEF TypeOK, Status
  <2> QED
    BY <1>1, <1>2, <1>4, <1>7, <2>1 DEF TypeOK
<1>9. CurrentIsOnRing'
  BY <1>1, <1>2, <1>4, <1>5 DEF TypeOK, CurrentIsOnRing
<1>10. SleepersHaveTicks'
  BY <1>1, <1>2, <1>4 DEF TypeOK, SleepersHaveTicks
<1>11. ScanIsOnRing'
  <2>1. nextSlot'[d] = nextSlot[d]
    BY <1>1, <1>2, <1>3, <1>4 DEF TypeOK
  <2>2. nextSlot[d] \in Ring
    BY <1>1, <1>2 DEF RingIsOneCycle, IsOneCycle
  <2> QED
    BY <1>3, <1>4, <1>5, <2>1, <2>2 DEF ScanIsOnRing
<1>12. AsleepOnRing'
  BY <1>1, <1>4, <1>5 DEF AsleepOnRing
<1> QED
  BY <1>6, <1>7, <1>8, <1>9, <1>10, <1>11, <1>12 DEF IInv

LEMMA ScheduleIInv == IInv /\ schedSchedule => IInv'
<1> SUFFICES ASSUME IInv, schedSchedule
             PROVE  IInv'
  OBVIOUS
<1>1. CASE ScanSkipIdle
  BY <1>1, AdvanceIInv DEF ScanSkipIdle
<1>2. CASE ScanPick
  <2>1. pc = "scan" /\ next \in Ring
    BY <1>2 DEF ScanPick, IInv, ScanIsOnRing, next
  <2> QED
    BY <1>2, <2>1, DispatchIInv DEF ScanPick
<1>3. CASE ScanReap
  BY <1>3, ReapIInv
<1>4. CASE ScanNext
  BY <1>4, AdvanceIInv DEF ScanNext
<1>5. CASE ScanGiveUp
  <2>1. pc = "scan" /\ IdleSlot \in Ring
    BY <1>5 DEF ScanGiveUp, IInv, CurrentIsOnRing
  <2> QED
    BY <1>5, <2>1, DispatchIInv DEF ScanGiveUp
<1> QED
  BY <1>1, <1>2, <1>3, <1>4, <1>5 DEF schedSchedule

LEMMA CreateIInv == IInv /\ Create => IInv'
<1> SUFFICES ASSUME IInv, Create
             PROVE  IInv'
  OBVIOUS
<1> USE SlotFacts DEF scan
<1>1. /\ TypeOK /\ RingIsOneCycle /\ CountIsRingSize /\ CurrentIsOnRing
      /\ SleepersHaveTicks /\ AsleepOnRing
  BY DEF IInv
<1>2. /\ pc = "user" /\ created' = created + 1 /\ created' \in Nat
      /\ UNCHANGED <<currentSlot, pc, newSlot, i, reaped, asleep>>
  BY <1>1 DEF Create, Caller, TypeOK
<1>3. CASE FreeSlots = {}
  <2>1. UNCHANGED <<status, waitingTicks, nextSlot, processCant>>
    BY <1>3 DEF Create, table
  <2>2. Ring' = Ring
    BY <2>1 DEF Ring
  <2> QED
    BY <1>1, <1>2, <2>1, <2>2, SameRing
       DEF IInv, TypeOK, CurrentIsOnRing, SleepersHaveTicks, ScanIsOnRing, AsleepOnRing
<1>4. CASE FreeSlots # {}
  <2> DEFINE n == getFreeSlot
             c == currentSlot
  <2>1. n \in FreeSlots
    <3>1. FreeSlots \in SUBSET Nat
      BY MaxProcessAssumption DEF FreeSlots, Slot
    <3>2. \E s \in FreeSlots : \A t \in FreeSlots : s <= t
      BY <1>4, <3>1, SmallestExists
    <3> QED
      BY <3>2 DEF getFreeSlot
  <2>2. n \in Slot /\ n \notin Ring /\ c \in Ring /\ c \in Slot
    BY <1>1, <1>2, <2>1 DEF FreeSlots, Ring, CurrentIsOnRing
  <2>3. /\ nextSlot' = [nextSlot EXCEPT ![n] = nextSlot[c], ![c] = n]
        /\ status' = [status EXCEPT ![n] = "READY"]
        /\ processCant' = processCant + 1
        /\ UNCHANGED waitingTicks
    BY <1>4 DEF Create, LinkAfter
  <2> HIDE DEF n, c
  <2>4. Ring' = Ring \union {n}
    BY <1>1, <2>2, <2>3 DEF TypeOK, Ring
  <2>5. RingIsOneCycle'
    <3>1. nextSlot \in [Slot -> Slot] /\ IsOneCycle(Ring, nextSlot)
      BY <1>1 DEF TypeOK, RingIsOneCycle
    <3>2. IsOneCycle(Ring \union {n}, [nextSlot EXCEPT ![n] = nextSlot[c], ![c] = n])
      BY <2>2, <3>1, InsertKeepsCycle
    <3> QED
      BY <2>3, <2>4, <3>2 DEF RingIsOneCycle
  <2>6. CountIsRingSize'
    <3>1. Cardinality(Ring \union {n}) = Cardinality(Ring) + 1
      BY <2>2, FS_AddElement
    <3> QED
      BY <1>1, <2>3, <2>4, <3>1 DEF CountIsRingSize
  <2>7. TypeOK'
    <3>1. nextSlot' \in [Slot -> Slot] /\ status' \in [Slot -> Status]
      BY <1>1, <2>2, <2>3 DEF TypeOK, Status
    <3> QED
      BY <1>1, <1>2, <2>3, <3>1 DEF TypeOK
  <2>8. CurrentIsOnRing' /\ SleepersHaveTicks'
    BY <1>1, <1>2, <2>2, <2>3, <2>4 DEF TypeOK, CurrentIsOnRing, SleepersHaveTicks, Ring
  <2>9. ScanIsOnRing' /\ AsleepOnRing'
    BY <1>1, <1>2, <2>4 DEF ScanIsOnRing, AsleepOnRing
  <2> QED
    BY <2>5, <2>6, <2>7, <2>8, <2>9 DEF IInv
<1> QED
  BY <1>3, <1>4

\* Kill, Exit, Sleep and Wake only change the status (and the ticks) of a
\* slot on the list, outside the scan.
LEMMA StatusChangeIInv ==
    ASSUME IInv, pc # "scan", pc' \in {"user", "yield"},
           NEW s \in Ring \ {IdleSlot}, NEW v \in {"DEAD", "WAITING", "READY"},
           status' = [status EXCEPT ![s] = v],
           v = "DEAD" => s # InitSlot,
           waitingTicks' \in [Slot -> Nat],
           \A t \in Slot : waitingTicks'[t] = waitingTicks[t] \/ (t = s /\ waitingTicks'[t] >= 1),
           v = "WAITING" => waitingTicks'[s] >= 1,
           asleep' \subseteq asleep,
           UNCHANGED <<nextSlot, currentSlot, processCant, scan, created>>
    PROVE  IInv'
<1> USE SlotFacts DEF scan
<1>1. /\ TypeOK /\ CurrentIsOnRing /\ SleepersHaveTicks /\ AsleepOnRing
  BY DEF IInv
<1>2. /\ s \in Slot /\ status'[s] = v
      /\ \A t \in Slot \ {s} : status'[t] = status[t]
      /\ status' \in [Slot -> Status]
  BY <1>1 DEF TypeOK, Status
<1>3. Ring' = Ring
  BY <1>2 DEF Ring
<1>4. TypeOK'
  BY <1>1, <1>2 DEF TypeOK
<1>5. RingIsOneCycle' /\ CountIsRingSize'
  BY <1>3, SameRing
<1>6. CurrentIsOnRing'
  BY <1>1, <1>2, <1>3 DEF CurrentIsOnRing
<1>7. SleepersHaveTicks'
  BY <1>1, <1>2 DEF TypeOK, SleepersHaveTicks
<1>8. ScanIsOnRing' /\ AsleepOnRing'
  BY <1>1, <1>3 DEF ScanIsOnRing, AsleepOnRing
<1> QED
  BY <1>4, <1>5, <1>6, <1>7, <1>8 DEF IInv

LEMMA KillIInv == IInv /\ (\E s \in Slot : Kill(s)) => IInv'
<1> SUFFICES ASSUME IInv, NEW s \in Slot, Kill(s)
             PROVE  IInv'
  OBVIOUS
<1>1. /\ s \in Ring \ {InitSlot, IdleSlot} /\ status' = [status EXCEPT ![s] = "DEAD"]
      /\ pc = "user" /\ waitingTicks \in [Slot -> Nat]
      /\ UNCHANGED <<waitingTicks, nextSlot, currentSlot, processCant, pc, scan,
                     created, asleep>>
  BY DEF Kill, schedRemove, Caller, callers, IInv, TypeOK
<1> QED
  BY <1>1, StatusChangeIInv

LEMMA ExitIInv == IInv /\ Exit => IInv'
<1> SUFFICES ASSUME IInv, Exit
             PROVE  IInv'
  OBVIOUS
<1>1. /\ currentSlot \in Ring \ {InitSlot, IdleSlot}
      /\ status' = [status EXCEPT ![currentSlot] = "DEAD"]
      /\ pc = "user" /\ pc' = "yield" /\ waitingTicks \in [Slot -> Nat]
      /\ UNCHANGED <<waitingTicks, nextSlot, currentSlot, processCant, scan,
                     created, asleep>>
  BY DEF Exit, schedRemove, Caller, callers, IInv, TypeOK
<1> QED
  BY <1>1, StatusChangeIInv

LEMMA SleepIInv == IInv /\ (\E ms \in SleepMs : Sleep(ms)) => IInv'
<1> SUFFICES ASSUME IInv, NEW ms \in SleepMs, Sleep(ms)
             PROVE  IInv'
  OBVIOUS
<1>1. /\ currentSlot \in Ring \ {IdleSlot} /\ currentSlot \in Slot
      /\ pc = "user" /\ pc' = "yield"
      /\ waitingTicks \in [Slot -> Nat] /\ status \in [Slot -> Status]
      /\ UNCHANGED <<nextSlot, currentSlot, processCant, scan, created, asleep>>
  BY DEF Sleep, Caller, callers, IInv, TypeOK, CurrentIsOnRing
<1>2. CASE ms > 0
  <2>1. /\ status' = [status EXCEPT ![currentSlot] = "WAITING"]
        /\ waitingTicks' = [waitingTicks EXCEPT ![currentSlot] = TicksOf(ms)]
    BY <1>2 DEF Sleep
  <2>2. TicksOf(ms) \in Nat /\ TicksOf(ms) >= 1
    BY TicksPositive
  <2>3. /\ waitingTicks' \in [Slot -> Nat] /\ waitingTicks'[currentSlot] >= 1
        /\ \A t \in Slot \ {currentSlot} : waitingTicks'[t] = waitingTicks[t]
    BY <1>1, <2>1, <2>2
  <2> QED
    BY <1>1, <2>1, <2>3, StatusChangeIInv
<1>3. CASE ~(ms > 0)
  <2>1. UNCHANGED <<status, waitingTicks>>
    BY <1>3 DEF Sleep
  <2>2. Ring' = Ring
    BY <2>1 DEF Ring
  <2>3. RingIsOneCycle' /\ CountIsRingSize'
    BY <1>1, <2>2, SameRing
  <2>4. TypeOK'
    BY <1>1, <2>1 DEF IInv, TypeOK, scan
  <2>5. CurrentIsOnRing' /\ SleepersHaveTicks' /\ ScanIsOnRing' /\ AsleepOnRing'
    BY <1>1, <2>1, <2>2 DEF IInv, CurrentIsOnRing, SleepersHaveTicks, ScanIsOnRing, AsleepOnRing
  <2> QED
    BY <2>3, <2>4, <2>5 DEF IInv
<1> QED
  BY <1>2, <1>3

LEMMA WakeIInv == IInv /\ (\E s \in Slot : Wake(s)) => IInv'
<1> SUFFICES ASSUME IInv, NEW s \in Slot, Wake(s)
             PROVE  IInv'
  OBVIOUS
<1>1. /\ s \in Ring \ {InitSlot, IdleSlot} /\ status' = [status EXCEPT ![s] = "READY"]
      /\ pc # "scan" /\ pc' = pc /\ pc \in {"user", "yield"}
      /\ waitingTicks \in [Slot -> Nat]
      /\ asleep' \subseteq asleep
      /\ UNCHANGED <<waitingTicks, nextSlot, currentSlot, processCant, scan, created>>
  BY DEF Wake, IInv, TypeOK, AsleepOnRing
<1> QED
  BY <1>1, StatusChangeIInv

LEMMA NextIInv == IInv /\ [Next]_vars => IInv'
<1> SUFFICES ASSUME IInv, [Next]_vars
             PROVE  IInv'
  OBVIOUS
<1>1. CASE Timer
  BY <1>1, TimerIInv
<1>2. CASE Yield
  BY <1>2, YieldIInv
<1>3. CASE schedSchedule
  BY <1>3, ScheduleIInv
<1>4. CASE Create
  BY <1>4, CreateIInv
<1>5. CASE Exit
  BY <1>5, ExitIInv
<1>6. CASE Block
  BY <1>6, BlockIInv
<1>7. CASE \E s \in Slot : Kill(s)
  BY <1>7, KillIInv
<1>8. CASE \E s \in Slot : Wake(s)
  BY <1>8, WakeIInv
<1>9. CASE \E ms \in SleepMs : Sleep(ms)
  BY <1>9, SleepIInv
<1>10. CASE UNCHANGED vars
  <2>1. UNCHANGED <<status, waitingTicks, nextSlot, currentSlot, processCant, pc,
                    newSlot, i, reaped, created, asleep>>
    BY <1>10 DEF vars, table, scan, callers
  <2>2. Ring' = Ring
    BY <2>1 DEF Ring
  <2>3. RingIsOneCycle' /\ CountIsRingSize'
    BY <2>1, <2>2, SameRing
  <2> QED
    BY <2>1, <2>2, <2>3 DEF IInv, TypeOK, CurrentIsOnRing, SleepersHaveTicks,
                            ScanIsOnRing, AsleepOnRing
<1> QED
  BY <1>1, <1>2, <1>3, <1>4, <1>5, <1>6, <1>7, <1>8, <1>9, <1>10 DEF Next

-----------------------------------------------------------------------------
\* The scheduler's invariant holds in every reachable state.
THEOREM Invariance == Spec => []IInv
<1>1. Init => IInv
  BY InitIInv
<1>2. IInv /\ [Next]_vars => IInv'
  BY NextIInv
<1> QED
  BY <1>1, <1>2, PTL DEF Spec

\* Every variable keeps its type; in particular waitingTicks never goes
\* below 0 in schedTicks and processCant never below 0 in schedSchedule.
THEOREM TypeCorrect == Spec => []TypeOK
<1>1. IInv => TypeOK
  BY DEF IInv
<1> QED
  BY <1>1, Invariance, PTL

\* The list handled by schedAdd and schedSchedule stays one cycle through
\* exactly the slots in use: no walk of sched.c misses a process or fails to
\* come back to where it started.
THEOREM RingCorrect == Spec => []RingIsOneCycle
<1>1. IInv => RingIsOneCycle
  BY DEF IInv
<1> QED
  BY <1>1, Invariance, PTL

\* processCant is the length of that list.
THEOREM CountCorrect == Spec => []CountIsRingSize
<1>1. IInv => CountIsRingSize
  BY DEF IInv
<1> QED
  BY <1>1, Invariance, PTL

\* There is always a process to run: the current slot is on the list outside
\* the scan, INIT and IDLE always are, and one process at most is RUNNING.
THEOREM CurrentCorrect == Spec => []CurrentIsOnRing
<1>1. IInv => CurrentIsOnRing
  BY DEF IInv
<1> QED
  BY <1>1, Invariance, PTL

\* schedTicks never decrements a count that is already 0.
THEOREM SleepersCorrect == Spec => []SleepersHaveTicks
<1>1. IInv => SleepersHaveTicks
  BY DEF IInv
<1> QED
  BY <1>1, Invariance, PTL
-----------------------------------------------------------------------------
(* The idle process runs only when nobody is ready.                        *)

\* The scan has gone once over the slots of V, one for each iteration but for
\* those it unlinked, and found none of them ready.  Behind a slot of V comes
\* another, or the slot it looks at next.
Saw(V) ==
    /\ \A s \in V \ {IdleSlot} : status[s] # "READY"
    /\ \A s \in V : nextSlot[s] \in V \cup {nextSlot[newSlot]}
    /\ V = Ring \/ Cardinality(V) = i - reaped

ScanMissesNobody == pc = "scan" => \E V \in SUBSET Ring : Saw(V)

\* When the slot it looks at next has been seen, all have.
LEMMA ComesRound ==
    ASSUME IInv, NEW V \in SUBSET Ring, Saw(V), next \in V
    PROVE  V = Ring
<1>1. \A s \in V : nextSlot[s] \in V BY DEF Saw, next
<1>. QED BY <1>1 DEF IInv, RingIsOneCycle, IsOneCycle

LEMMA StartMissesNobody ==
    ASSUME IInv, NEW st, StartScan(st)
    PROVE  ScanMissesNobody'
<1>1. i' = 0 /\ reaped' = 0 BY DEF StartScan
<1>2. Cardinality({}) = 0 BY FS_EmptySet
<1>3. Saw({})' BY <1>1, <1>2 DEF Saw
<1>. QED BY <1>3 DEF ScanMissesNobody

\* An iteration that steps over a slot that is not ready.
LEMMA AdvanceMissesNobody ==
    ASSUME IInv, ScanMissesNobody, pc = "scan", Advance,
           next # IdleSlot => status[next] # "READY",
           UNCHANGED <<table, currentSlot, processCant, pc, reaped, callers>>
    PROVE  ScanMissesNobody'
<1>1. PICK V \in SUBSET Ring : Saw(V) BY DEF ScanMissesNobody
<1>2. next \in Ring BY DEF IInv, ScanIsOnRing, next
<1>3. /\ newSlot' = next /\ i' = i + 1 /\ reaped' = reaped
      /\ status' = status /\ nextSlot' = nextSlot /\ Ring' = Ring
      /\ i \in Nat /\ reaped \in Nat
  BY DEF Advance, table, Ring, IInv, TypeOK
<1>4. PICK W \in SUBSET Slot : W = V \cup {next} BY SlotFacts, <1>2
<1>5. W \in SUBSET Ring BY <1>2, <1>4
<1>6. \A s \in W \ {IdleSlot} : status'[s] # "READY" BY <1>1, <1>3, <1>4 DEF Saw
<1>7. \A s \in W : nextSlot'[s] \in W \cup {nextSlot'[newSlot']} BY <1>1, <1>3, <1>4 DEF Saw, next
<1>8. W = Ring \/ Cardinality(W) = i' - reaped'
  <2>1. CASE next \in V
    <3>1. V = Ring BY <1>1, <2>1, ComesRound
    <3>. QED BY <1>2, <1>4, <3>1
  <2>2. CASE next \notin V
    <3>1. Cardinality(V) = i - reaped BY <1>1, <1>2, <2>2 DEF Saw
    <3>2. IsFiniteSet(V) BY SlotFacts, FS_Subset
    <3>3. Cardinality(W) = Cardinality(V) + 1 BY <1>4, <2>2, <3>2, FS_AddElement
    <3>. QED BY <1>3, <1>4, <3>1, <3>3
  <2>. QED BY <2>1, <2>2
<1>9. Saw(W)' BY <1>3, <1>6, <1>7, <1>8 DEF Saw
<1>. QED BY <1>3, <1>5, <1>9 DEF ScanMissesNobody

LEMMA ReapMissesNobody ==
    ASSUME IInv, ScanMissesNobody, ScanReap
    PROVE  ScanMissesNobody'
<1>1. PICK V \in SUBSET Ring : Saw(V) BY DEF ScanMissesNobody, ScanReap
<1>2. PICK d : d = next OBVIOUS
<1>3. PICK p : p = findPrevSlot(d) OBVIOUS
<1>4. d \in Ring /\ d \in Slot
  BY SlotFacts, <1>2 DEF IInv, ScanIsOnRing, ScanReap, next
<1>5. p \in Ring /\ nextSlot[p] = d /\ p # d
  <2>1. InitSlot \in Ring /\ status[InitSlot] # "DEAD" /\ status[d] = "DEAD"
    BY <1>2 DEF IInv, CurrentIsOnRing, ScanReap
  <2>2. d # InitSlot BY <2>1
  <2>3. (\E s \in Ring : nextSlot[s] = d) /\ nextSlot[d] # d
    BY <1>4, <2>1, <2>2, PredecessorExists DEF IInv, RingIsOneCycle
  <2>. QED BY <1>3, <2>3 DEF findPrevSlot
<1>6. /\ newSlot' = d /\ i' = i + 1 /\ reaped' = reaped + 1
      /\ nextSlot' = [nextSlot EXCEPT ![p] = nextSlot[d]]
      /\ status' = [status EXCEPT ![d] = "FREE"]
      /\ i \in Nat /\ reaped \in Nat
  BY <1>2, <1>3 DEF ScanReap, Advance, IInv, TypeOK
<1>7. d \in V => V = Ring BY <1>1, <1>2, ComesRound
<1>8. Ring' = Ring \ {d}
  BY <1>4, <1>6 DEF IInv, TypeOK, Ring
<1>9. /\ nextSlot'[d] = nextSlot[d] /\ nextSlot'[p] = nextSlot[d]
      /\ \A s \in Ring \ {p} : nextSlot'[s] = nextSlot[s]
      /\ \A s \in Ring \ {d} : status'[s] = status[s]
  BY SlotFacts, <1>4, <1>5, <1>6 DEF IInv, TypeOK
<1>10. PICK W \in SUBSET (Ring \ {d}) : W = V \ {d} OBVIOUS
<1>11. \A s \in W \ {IdleSlot} : status'[s] # "READY" BY <1>1, <1>9, <1>10 DEF Saw
<1>12. \A s \in W : nextSlot'[s] \in W \cup {nextSlot'[newSlot']}
  <2>1. TAKE s \in W
  <2>2. CASE s = p BY <1>6, <1>9, <2>2
  <2>3. CASE s # p
    <3>1. nextSlot[s] # d BY <1>5, <2>3 DEF IInv, RingIsOneCycle, IsOneCycle
    <3>2. nextSlot[s] \in V BY <1>1, <1>2, <1>10, <3>1 DEF Saw, next
    <3>. QED BY <1>9, <1>10, <2>3, <3>1, <3>2
  <2>. QED BY <2>2, <2>3
<1>13. W = Ring \ {d} \/ Cardinality(W) = i' - reaped'
  <2>1. CASE V = Ring BY <1>10, <2>1
  <2>2. CASE V # Ring
    <3>1. W = V BY <1>7, <1>10, <2>2
    <3>2. Cardinality(V) = i - reaped BY <1>1, <2>2 DEF Saw
    <3>. QED BY <1>6, <3>1, <3>2
  <2>. QED BY <2>1, <2>2
<1>14. Saw(W)' BY <1>8, <1>11, <1>12, <1>13 DEF Saw
<1>. QED BY <1>8, <1>10, <1>14 DEF ScanMissesNobody

LEMMA MissesNobodyKept == IInv /\ ScanMissesNobody /\ [Next]_vars => ScanMissesNobody'
<1>. SUFFICES ASSUME IInv, ScanMissesNobody, [Next]_vars PROVE ScanMissesNobody'
  OBVIOUS
<1>1. CASE Timer BY <1>1, StartMissesNobody DEF Timer
<1>2. CASE Yield BY <1>2, StartMissesNobody DEF Yield
<1>3. CASE Block BY <1>3, StartMissesNobody DEF Block
<1>4. CASE schedSchedule
  <2>1. CASE ScanSkipIdle BY <2>1, AdvanceMissesNobody DEF ScanSkipIdle
  <2>2. CASE ScanNext BY <2>2, AdvanceMissesNobody DEF ScanNext, ScanOther
  <2>3. CASE ScanReap BY <2>3, ReapMissesNobody
  <2>4. CASE ScanPick \/ ScanGiveUp
    BY <2>4 DEF ScanPick, ScanGiveUp, Dispatch, ScanMissesNobody
  <2>. QED BY <1>4, <2>1, <2>2, <2>3, <2>4 DEF schedSchedule
<1>5. CASE \/ Create \/ Exit
           \/ \E s \in Slot : Kill(s) \/ Wake(s)
           \/ \E ms \in SleepMs : Sleep(ms)
  <2>1. pc' # "scan" BY <1>5 DEF Create, Exit, Kill, Wake, Sleep, Caller
  <2>. QED BY <2>1 DEF ScanMissesNobody
<1>6. CASE UNCHANGED vars
  <2>1. /\ pc' = pc /\ status' = status /\ nextSlot' = nextSlot /\ newSlot' = newSlot
        /\ i' = i /\ reaped' = reaped
    BY <1>6 DEF vars, table, scan
  <2>2. Ring' = Ring BY <2>1 DEF Ring
  <2>. QED BY <2>1, <2>2 DEF ScanMissesNobody, Saw
<1>. QED BY <1>1, <1>2, <1>3, <1>4, <1>5, <1>6 DEF Next

\* schedSchedule gives up too early only if it has unlinked two: with one at
\* most, the iterations it counts are those over the other slots of the list.
LEMMA NobodyReady ==
    ASSUME IInv, ScanMissesNobody, ScanGiveUp, reaped <= 1
    PROVE  \A s \in Ring \ {IdleSlot} : status[s] # "READY"
<1>1. PICK V \in SUBSET Ring : Saw(V) BY DEF ScanMissesNobody, ScanGiveUp
<1>2. /\ next \in Ring /\ status[next] # "READY"
      /\ i + 1 > processCant /\ processCant = Cardinality(Ring)
      /\ i \in Nat /\ reaped \in Nat /\ processCant \in Nat
  BY DEF IInv, ScanIsOnRing, next, ScanGiveUp, ScanOther, SeenAll, CountIsRingSize, TypeOK
<1>3. V \cup {next} = Ring
  <2>1. CASE V = Ring BY <1>2, <2>1
  <2>2. CASE V # Ring
    <3>1. next \notin V BY <1>1, <2>2, ComesRound
    <3>2. Cardinality(V) = i - reaped BY <1>1, <2>2 DEF Saw
    <3>3. IsFiniteSet(V) BY SlotFacts, FS_Subset
    <3>4. Cardinality(V \cup {next}) = Cardinality(V) + 1 BY <3>1, <3>3, FS_AddElement
    <3>5. Cardinality(V \cup {next}) >= Cardinality(Ring) BY <1>2, <3>2, <3>4
    <3>6. V \cup {next} \subseteq Ring BY <1>2
    <3>. HIDE DEF next
    <3>7. /\ Cardinality(V \cup {next}) <= Cardinality(Ring)
          /\ Cardinality(V \cup {next}) = Cardinality(Ring) => V \cup {next} = Ring
      BY <3>6, SlotFacts, FS_Subset
    <3>8. Cardinality(V \cup {next}) = Cardinality(Ring)
      BY <1>2, <3>2, <3>4, <3>5, <3>7
    <3>. QED BY <3>7, <3>8
  <2>. QED BY <2>1, <2>2
<1>. QED BY <1>1, <1>2, <1>3 DEF Saw

\* The comment of schedSchedule on the idle process, for any number of
\* processes and as far as it is true.
THEOREM IdleCorrect == Spec => IdleOnlyWhenNobodyReadyIfFewDied
<1>1. Init => ScanMissesNobody BY DEF Init, ScanMissesNobody
<1>2. Spec => []ScanMissesNobody
  BY <1>1, MissesNobodyKept, Invariance, PTL DEF Spec
<1>3. IInv /\ ScanMissesNobody =>
          [ScanGiveUp /\ reaped <= 1 =>
              \A s \in Ring \ {IdleSlot} : status[s] # "READY"]_vars
  BY NobodyReady
<1>. QED
  BY <1>2, <1>3, Invariance, PTL DEF Spec, IdleOnlyWhenNobodyReadyIfFewDied

-----------------------------------------------------------------------------
(* The list as a sequence.                                                 *)

\* w holds the values of a loop variable that is v at first, behind n rounds of f.
Runs(f, v, n, w) == w[0] = v /\ \A j \in 1 .. n : w[j] = f[j][w[j - 1]]

LEMMA LoopRunsOn ==
    ASSUME NEW S, NEW v \in S, NEW n \in Nat, NEW f, f \in [1 .. n -> [S -> S]]
    PROVE  \E w \in [0 .. n -> S] : Runs(f, v, n, w)
<1>1. \E w \in [0 .. n -> S] : w[0] = v /\ \A j \in 1 .. n : w[j] = f[j][w[j - 1]]
  BY LoopRuns
<1>. QED BY <1>1 DEF Runs

\* w is the walk of n steps along f from s.
WalkIs(f, s, n, w) ==
    /\ w[0] = s /\ \A k \in 1 .. n : w[k] = f[w[k - 1]]
    /\ Walk(f, s, n) = [k \in 1 .. n |-> w[k]]

LEMMA WalkRuns ==
    ASSUME NEW D, NEW f \in [D -> D], NEW s \in D, NEW n \in Nat
    PROVE  \E w \in [0 .. n -> D] : WalkIs(f, s, n, w)
<1>. DEFINE w[k \in 0 .. n] == IF k = 0 THEN s ELSE f[w[k - 1]]
            step == [j \in 1 .. n |-> f]
<1>1. Walk(f, s, n) = [k \in 1 .. n |-> w[k]] BY Zenon DEF Walk
<1>2. step \in [1 .. n -> [D -> D]] OBVIOUS
<1>3. PICK g \in [0 .. n -> D] : g[0] = s /\ \A j \in 1 .. n : g[j] = step[j][g[j - 1]]
  <2>. HIDE DEF step, w
  <2>1. \E g \in [0 .. n -> D] : Runs(step, s, n, g) BY <1>2, s \in D, n \in Nat, LoopRunsOn, Zenon
  <2>. QED BY <2>1 DEF Runs
<1>4. g = [k \in 0 .. n |-> IF k = 0 THEN s ELSE f[g[k - 1]]]
  <2>1. \A j \in 0 .. n : j # 0 => j \in 1 .. n /\ j - 1 \in 0 .. n OBVIOUS
  <2>. QED BY <1>3, <2>1
<1>5. w = [k \in 0 .. n |-> IF k = 0 THEN s ELSE f[w[k - 1]]] BY <1>4
<1>. HIDE DEF w
<1>6. w[0] = s /\ \A k \in 1 .. n : w[k] = f[w[k - 1]]
  <2>1. 0 \in 0 .. n /\ \A j \in 1 .. n : j \in 0 .. n /\ j # 0 OBVIOUS
  <2>. QED BY <1>5, <2>1
<1>7. w \in [0 .. n -> D]
  <2>. DEFINE Good == {j \in 0 .. n : w[j] \in D}
  <2>1. 0 \in Good BY <1>6
  <2>2. ASSUME NEW j \in 1 .. n, j - 1 \in Good PROVE j \in Good BY <1>6, <2>2
  <2>3. Good \in SUBSET (0 .. n) OBVIOUS
  <2>. HIDE DEF Good
  <2>4. Good = 0 .. n BY <2>1, <2>2, <2>3, RoundByRound
  <2>5. \A j \in 0 .. n : w[j] \in D BY <2>4 DEF Good
  <2>. QED BY <1>5, <2>5
<1>. QED BY <1>1, <1>6, <1>7 DEF WalkIs

\* o spells the n slots of R along f, each once, and s last.
Spells(o, n, R, f, s) ==
    /\ n = Cardinality(R) /\ o \in [1 .. n -> R]
    /\ \A a, b \in 1 .. n : o[a] = o[b] => a = b
    /\ \A r \in R : \E a \in 1 .. n : o[a] = r
    /\ o[n] = s /\ o[1] = f[s] /\ \A a \in 1 .. n - 1 : o[a + 1] = f[o[a]]

\* A walk in a cycle comes back to where it began, and not sooner than it has
\* been everywhere.
LEMMA WalkAround ==
    ASSUME NEW D, NEW R \in SUBSET D, NEW f \in [D -> D], IsOneCycle(R, f), IsFiniteSet(R),
           NEW s \in R
    PROVE  Cardinality(R) \in Nat \ {0} /\ Spells(Walk(f, s, Cardinality(R)), Cardinality(R), R, f, s)
<1>1. PICK n \in Nat : n = Cardinality(R) /\ n # 0
  BY FS_CardinalityType, FS_EmptySet
<1>2. PICK w \in [0 .. n -> D] : WalkIs(f, s, n, w)
  <2>1. s \in D /\ n \in Nat /\ f \in [D -> D] OBVIOUS
  <2>2. \E w \in [0 .. n -> D] : WalkIs(f, s, n, w) BY <2>1, WalkRuns, Zenon
  <2>. QED BY <2>2
<1>3. (\A r \in R : f[r] \in R) /\ \A r, q \in R : f[r] = f[q] => r = q BY DEF IsOneCycle
<1>4. w[0] = s /\ \A k \in 1 .. n : w[k] = f[w[k - 1]] BY <1>2 DEF WalkIs
<1>5. \A k \in 0 .. n : w[k] \in R
  <2>. DEFINE Good == {j \in 0 .. n : w[j] \in R}
  <2>1. 0 \in Good BY <1>4
  <2>2. ASSUME NEW j \in 1 .. n, j - 1 \in Good PROVE j \in Good BY <1>3, <1>4, <2>2
  <2>3. Good \in SUBSET (0 .. n) OBVIOUS
  <2>. HIDE DEF Good
  <2>4. Good = 0 .. n BY <2>1, <2>2, <2>3, RoundByRound
  <2>. QED BY <2>4 DEF Good
<1>. DEFINE Again == {k \in 1 .. n : \E j \in 0 .. k - 1 : w[j] = w[k]}
<1>6. Again # {}
  <2>1. w \in [0 .. n -> R] BY <1>5
  <2>2. IsFiniteSet(0 .. n) /\ Cardinality(0 .. n) = n + 1
    <3>1. 0 \in Int /\ n \in Int OBVIOUS
    <3>2. IsFiniteSet(0 .. n) /\ Cardinality(0 .. n) = IF 0 > n THEN 0 ELSE n - 0 + 1
      BY <3>1, FS_Interval
    <3>. QED BY <3>2
  <2>3. Cardinality(R) < Cardinality(0 .. n) BY <1>1, <2>2
  <2>4. PICK x \in 0 .. n, y \in 0 .. n : x # y /\ w[x] = w[y]
    BY <2>1, <2>2, <2>3, FS_PigeonHole
  <2>5. CASE x < y
    <3>1. y \in 1 .. n /\ x \in 0 .. y - 1 BY <2>5
    <3>. QED BY <2>4, <3>1
  <2>6. CASE y < x
    <3>1. x \in 1 .. n /\ y \in 0 .. x - 1 BY <2>6
    <3>. QED BY <2>4, <3>1
  <2>. QED BY <2>4, <2>5, <2>6
<1>7. PICK r \in Again : \A k \in Again : r <= k
  <2>1. Again \in SUBSET Nat OBVIOUS
  <2>. HIDE DEF Again
  <2>. QED BY <1>6, <2>1, SmallestExists
<1>8. r \in 1 .. n /\ \E j \in 0 .. r - 1 : w[j] = w[r] BY <1>7
<1>9. \A j \in 0 .. r - 1 : w[j] = w[r] => j = 0
  <2>. SUFFICES ASSUME NEW j \in 0 .. r - 1, w[j] = w[r], j # 0 PROVE FALSE OBVIOUS
  <2>1. /\ j \in 1 .. n /\ j - 1 \in 0 .. n /\ r - 1 \in 0 .. n
        /\ r - 1 \in 1 .. n /\ j - 1 \in 0 .. (r - 1) - 1
    BY <1>8
  <2>2. f[w[j - 1]] = f[w[r - 1]] BY <1>4, <1>8, <2>1
  <2>3. w[j - 1] = w[r - 1] BY <1>3, <1>5, <2>1, <2>2
  <2>4. r - 1 \in Again BY <2>1, <2>3
  <2>5. ~(r <= r - 1) BY <1>8
  <2>. HIDE DEF Again
  <2>. QED BY <1>7, <2>4, <2>5
<1>10. w[r] = s BY <1>4, <1>8, <1>9
<1>11. \A q \in R : \E k \in 1 .. r : w[k] = q
  <2>. DEFINE S == {w[k] : k \in 1 .. r}
  <2>1. \A k \in 1 .. r : k \in 0 .. n /\ k \in 1 .. n BY <1>8
  <2>2. S \in SUBSET R /\ S # {} BY <1>5, <1>8, <2>1
  <2>3. ASSUME NEW q \in S PROVE f[q] \in S
    <3>1. PICK k \in 1 .. r : q = w[k] OBVIOUS
    <3>2. CASE k = r
      <4>1. 1 \in 1 .. r /\ 1 \in 1 .. n /\ 1 - 1 = 0 BY <1>8
      <4>2. q = s BY <1>10, <3>1, <3>2
      <4>3. f[q] = w[1] BY <1>4, <4>1, <4>2
      <4>. QED BY <4>1, <4>3
    <3>3. CASE k # r
      <4>1. k + 1 \in 1 .. r /\ k + 1 \in 1 .. n /\ (k + 1) - 1 = k BY <1>8, <3>3
      <4>2. f[q] = w[k + 1] BY <1>4, <3>1, <4>1
      <4>. QED BY <4>1, <4>2
    <3>. QED BY <3>2, <3>3
  <2>. HIDE DEF S
  <2>4. S = R BY <2>2, <2>3 DEF IsOneCycle
  <2>. QED BY <2>4 DEF S
<1>12. r = n
  <2>1. PICK h : h = [k \in 1 .. r |-> w[k]] OBVIOUS
  <2>2. \A k \in 1 .. r : k \in 0 .. n BY <1>8
  <2>3. h \in [1 .. r -> R] BY <1>5, <2>1, <2>2
  <2>4. h \in Surjection(1 .. r, R) BY <1>11, <2>1, <2>3 DEF Surjection
  <2>5. ExistsSurjection(1 .. r, R) BY <2>4 DEF ExistsSurjection
  <2>6. r \in Nat BY <1>8
  <2>7. Cardinality(R) <= r BY <2>5, <2>6, FS_SurjCardinalityBound
  <2>. QED BY <1>1, <1>8, <2>7
<1>13. ASSUME NEW a \in 1 .. n, NEW b \in 1 .. n, w[a] = w[b] PROVE a = b
  <2>1. ASSUME NEW x \in 1 .. n, NEW y \in 1 .. n, x < y, w[x] = w[y] PROVE FALSE
    <3>1. x \in 0 .. y - 1 BY <2>1
    <3>2. y \in Again BY <2>1, <3>1
    <3>. HIDE DEF Again
    <3>3. n <= y BY <1>7, <1>12, <3>2
    <3>4. y = n BY <3>3
    <3>5. x \in 0 .. r - 1 /\ w[x] = w[r] BY <1>12, <2>1, <3>1, <3>4
    <3>. QED BY <1>9, <3>5
  <2>. QED BY <1>13, <2>1
<1>14. PICK o : o = Walk(f, s, n) OBVIOUS
<1>15. \A a \in 1 .. n : o[a] = w[a] BY <1>2, <1>14 DEF WalkIs
<1>16. o \in [1 .. n -> R]
  <2>1. \A a \in 1 .. n : a \in 0 .. n OBVIOUS
  <2>. QED BY <1>2, <1>5, <1>14, <2>1 DEF WalkIs
<1>17. o[n] = s /\ o[1] = f[s]
  <2>1. n \in 1 .. n /\ 1 \in 1 .. n /\ 1 - 1 = 0 BY <1>1
  <2>. QED BY <1>4, <1>10, <1>12, <1>15, <2>1
<1>18. \A a \in 1 .. n - 1 : o[a + 1] = f[o[a]]
  <2>1. \A a \in 1 .. n - 1 : a \in 1 .. n /\ a + 1 \in 1 .. n /\ (a + 1) - 1 = a OBVIOUS
  <2>. QED BY <1>4, <1>15, <2>1
<1>19. Spells(o, n, R, f, s)
  <2>1. \A a, b \in 1 .. n : o[a] = o[b] => a = b BY <1>13, <1>15
  <2>2. \A q \in R : \E a \in 1 .. n : o[a] = q BY <1>11, <1>12, <1>15
  <2>. QED BY <1>1, <1>16, <1>17, <1>18, <2>1, <2>2 DEF Spells
<1>. QED BY <1>1, <1>14, <1>19

-----------------------------------------------------------------------------
(* What a filter keeps.                                                    *)

\* r is what is left of the first k places of q when only members of S stay:
\* its a-th place is the place g[a] of q.
Keeps(q, S, k, r, m, g) ==
    /\ Len(r) = m /\ \A a \in 1 .. m : r[a] = q[g[a]]
    /\ \A a, b \in 1 .. m : a < b => g[a] < g[b]
    /\ \A a \in 1 .. m : g[a] \in 1 .. k /\ q[g[a]] \in S
    /\ \A x \in 1 .. k : q[x] \in S => \E a \in 1 .. m : g[a] = x

Kept(q, S, D, n, k, r) ==
    r \in Seq(D) /\ \E m \in Nat : \E g \in [1 .. m -> 1 .. n] : Keeps(q, S, k, r, m, g)

LEMMA KeepOneMore ==
    ASSUME NEW D, NEW n \in Nat, NEW q \in [1 .. n -> D], NEW S, NEW k \in 1 .. n, NEW r,
           Kept(q, S, D, n, k - 1, r)
    PROVE  Kept(q, S, D, n, k, IF q[k] \in S THEN Append(r, q[k]) ELSE r)
<1>0. PICK m \in Nat : \E g \in [1 .. m -> 1 .. n] : Keeps(q, S, k - 1, r, m, g) BY DEF Kept
<1>1. PICK g \in [1 .. m -> 1 .. n] : r \in Seq(D) /\ Keeps(q, S, k - 1, r, m, g)
  BY <1>0 DEF Kept
<1>2. CASE q[k] \notin S
  <2>1. Keeps(q, S, k, r, m, g)
    <3>1. \A x \in 1 .. k : x \in 1 .. k - 1 \/ x = k OBVIOUS
    <3>2. \A x \in 1 .. k - 1 : x \in 1 .. k OBVIOUS
    <3>. QED BY <1>1, <1>2, <3>1, <3>2 DEF Keeps
  <2>. QED BY <1>1, <1>2, <2>1 DEF Kept
<1>3. CASE q[k] \in S
  <2>1. PICK t : t = Append(r, q[k]) OBVIOUS
  <2>2. Len(r) = m BY <1>1 DEF Keeps
  <2>3. q[k] \in D OBVIOUS
  <2>4. t \in Seq(D) /\ Len(t) = m + 1 /\ t[m + 1] = q[k] /\ \A a \in 1 .. m : t[a] = r[a]
    BY <1>1, <2>1, <2>2, <2>3, AppendProperties
  <2>5. PICK h \in [1 .. m + 1 -> 1 .. n] : h[m + 1] = k /\ \A a \in 1 .. m : h[a] = g[a]
    <3>. DEFINE h == [a \in 1 .. m + 1 |-> IF a = m + 1 THEN k ELSE g[a]]
    <3>1. h \in [1 .. m + 1 -> 1 .. n] BY <1>1
    <3>2. h[m + 1] = k /\ \A a \in 1 .. m : h[a] = g[a] BY <1>1
    <3>. HIDE DEF h
    <3>. QED BY <3>1, <3>2
  <2>6. \A a \in 1 .. m + 1 : a \in 1 .. m \/ a = m + 1 OBVIOUS
  <2>7. \A a \in 1 .. m : g[a] \in 1 .. k - 1 BY <1>1 DEF Keeps
  <2>8. Keeps(q, S, k, t, m + 1, h)
    <3>1. \A a \in 1 .. m + 1 : t[a] = q[h[a]] BY <1>1, <2>4, <2>5, <2>6 DEF Keeps
    <3>2. \A a, b \in 1 .. m + 1 : a < b => h[a] < h[b]
      <4>. SUFFICES ASSUME NEW a \in 1 .. m + 1, NEW b \in 1 .. m + 1, a < b PROVE h[a] < h[b]
        OBVIOUS
      <4>1. a \in 1 .. m BY <1>1
      <4>2. CASE b = m + 1
        <5>1. h[a] = g[a] /\ g[a] \in 1 .. k - 1 BY <2>5, <2>7, <4>1
        <5>. QED BY <2>5, <4>2, <5>1
      <4>3. CASE b \in 1 .. m
        <5>1. h[a] = g[a] /\ h[b] = g[b] BY <2>5, <4>1, <4>3
        <5>. QED BY <1>1, <4>1, <4>3, <5>1 DEF Keeps
      <4>. QED BY <2>6, <4>2, <4>3
    <3>3. \A a \in 1 .. m + 1 : h[a] \in 1 .. k /\ q[h[a]] \in S
      <4>1. \A a \in 1 .. m : h[a] \in 1 .. k /\ q[h[a]] \in S
        <5>. SUFFICES ASSUME NEW a \in 1 .. m PROVE h[a] \in 1 .. k /\ q[h[a]] \in S OBVIOUS
        <5>1. h[a] = g[a] /\ g[a] \in 1 .. k - 1 BY <2>5, <2>7
        <5>2. q[g[a]] \in S BY <1>1 DEF Keeps
        <5>. QED BY <5>1, <5>2
      <4>. QED BY <1>3, <2>5, <2>6, <4>1
    <3>4. \A x \in 1 .. k : q[x] \in S => \E a \in 1 .. m + 1 : h[a] = x
      <4>. SUFFICES ASSUME NEW x \in 1 .. k, q[x] \in S PROVE \E a \in 1 .. m + 1 : h[a] = x
        OBVIOUS
      <4>1. CASE x = k
        <5>1. m + 1 \in 1 .. m + 1 BY <1>1
        <5>. QED BY <2>5, <4>1, <5>1
      <4>2. CASE x # k
        <5>1. x \in 1 .. k - 1 BY <4>2
        <5>2. PICK a \in 1 .. m : g[a] = x BY <1>1, <5>1 DEF Keeps
        <5>3. a \in 1 .. m + 1 BY <1>1
        <5>. QED BY <2>5, <5>2, <5>3
      <4>. QED BY <4>1, <4>2
    <3>. QED BY <2>4, <3>1, <3>2, <3>3, <3>4 DEF Keeps
  <2>9. m + 1 \in Nat BY <1>1
  <2>10. Kept(q, S, D, n, k, t) BY <2>4, <2>5, <2>8, <2>9 DEF Kept
  <2>. QED BY <1>3, <2>1, <2>10
<1>. QED BY <1>2, <1>3

LEMMA OnlyKeeps ==
    ASSUME NEW D, NEW n \in Nat, NEW q \in [1 .. n -> D], NEW S
    PROVE  Kept(q, S, D, n, n, Only(q, S))
<1>1. q \in Seq(D) /\ Len(q) = n
  <2>1. q \in Seq(D) BY SeqDef
  <2>. QED BY <2>1, LenProperties
<1>. DEFINE kept[k \in 0 .. Len(q)] ==
                IF k = 0 THEN <<>>
                ELSE IF q[k] \in S THEN Append(kept[k - 1], q[k]) ELSE kept[k - 1]
            f == [j \in 1 .. n |-> [r \in Seq(D) |-> IF q[j] \in S THEN Append(r, q[j]) ELSE r]]
<1>2. Only(q, S) = kept[Len(q)] BY Zenon DEF Only
<1>3. \A j \in 1 .. n : \A r \in Seq(D) : (IF q[j] \in S THEN Append(r, q[j]) ELSE r) \in Seq(D)
  <2>. SUFFICES ASSUME NEW j \in 1 .. n, NEW r \in Seq(D) PROVE Append(r, q[j]) \in Seq(D) OBVIOUS
  <2>1. q[j] \in D OBVIOUS
  <2>. QED BY <2>1, AppendProperties
<1>4. f \in [1 .. n -> [Seq(D) -> Seq(D)]] BY <1>3
<1>5. PICK g \in [0 .. n -> Seq(D)] :
         g[0] = <<>> /\ \A j \in 1 .. n : g[j] = f[j][g[j - 1]]
  <2>1. PICK v \in Seq(D) : v = <<>> BY EmptySeq
  <2>2. PICK T : T = Seq(D) OBVIOUS
  <2>. HIDE DEF f, kept
  <2>3. PICK F : F = f OBVIOUS
  <2>4. F \in [1 .. n -> [T -> T]] /\ v \in T /\ n \in Nat BY <1>4, <2>1, <2>2, <2>3
  <2>5. \E g \in [0 .. n -> T] : Runs(F, v, n, g) BY <2>4, LoopRunsOn, Zenon
  <2>. QED BY <2>1, <2>2, <2>3, <2>5 DEF Runs
<1>6. g = [k \in 0 .. n |-> IF k = 0 THEN <<>>
                             ELSE IF q[k] \in S THEN Append(g[k - 1], q[k]) ELSE g[k - 1]]
  <2>1. \A j \in 0 .. n : j # 0 => j \in 1 .. n /\ j - 1 \in 0 .. n OBVIOUS
  <2>. QED BY <1>5, <2>1
<1>7. kept = [k \in 0 .. n |-> IF k = 0 THEN <<>>
                               ELSE IF q[k] \in S THEN Append(kept[k - 1], q[k]) ELSE kept[k - 1]]
  BY <1>1, <1>6
<1>. HIDE DEF kept
<1>8. kept[0] = <<>> /\ \A k \in 1 .. n :
         kept[k] = IF q[k] \in S THEN Append(kept[k - 1], q[k]) ELSE kept[k - 1]
  <2>1. 0 \in 0 .. n /\ \A j \in 1 .. n : j \in 0 .. n /\ j # 0 OBVIOUS
  <2>. QED BY <1>7, <2>1
<1>. DEFINE Good == {k \in 0 .. n : Kept(q, S, D, n, k, kept[k])}
<1>9. 0 \in Good
  <2>1. PICK r : r = <<>> OBVIOUS
  <2>2. r \in Seq(D) /\ Len(r) = 0 BY <2>1, EmptySeq
  <2>3. [a \in 1 .. 0 |-> 1] \in [1 .. 0 -> 1 .. n] OBVIOUS
  <2>4. Keeps(q, S, 0, r, 0, [a \in 1 .. 0 |-> 1]) BY <2>2 DEF Keeps
  <2>5. Kept(q, S, D, n, 0, r) BY <2>2, <2>3, <2>4 DEF Kept
  <2>. QED BY <1>8, <2>1, <2>5
<1>10. ASSUME NEW k \in 1 .. n, k - 1 \in Good PROVE k \in Good
  <2>1. PICK r : r = kept[k - 1] OBVIOUS
  <2>2. Kept(q, S, D, n, k - 1, r) BY <1>10, <2>1
  <2>3. Kept(q, S, D, n, k, IF q[k] \in S THEN Append(r, q[k]) ELSE r)
    BY <2>2, KeepOneMore, Zenon
  <2>4. kept[k] = IF q[k] \in S THEN Append(r, q[k]) ELSE r BY <1>8, <2>1
  <2>5. Kept(q, S, D, n, k, kept[k]) BY <2>3, <2>4, Zenon
  <2>. QED BY <2>5
<1>11. Good \in SUBSET (0 .. n) OBVIOUS
<1>12. n \in Good
  <2>. HIDE DEF Good
  <2>1. Good = 0 .. n BY <1>9, <1>10, <1>11, RoundByRound
  <2>. QED BY <2>1
<1>13. Kept(q, S, D, n, n, kept[n]) BY <1>12
<1>. QED BY <1>1, <1>2, <1>13, Zenon

-----------------------------------------------------------------------------
(* The list while a scan unlinks places of it.                             *)

\* Of n places, of which those of X are gone, b is the next behind a.
Follows(X, n, a, b) ==
    \/ a < b /\ \A j \in 1 .. n : a < j /\ j < b => j \in X
    \/ b <= a /\ \A j \in 1 .. n : a < j \/ j < b => j \in X

\* f leads from place to place; from a place that is gone only where the scan stands.
Links(o, n, X, i0, f) ==
    \A a, b \in 1 .. n : (a \notin X \/ a = i0) /\ b \notin X /\ Follows(X, n, a, b)
                            => f[o[a]] = o[b]

\* The place of a list that is k-th behind the place t.
Turn(t, n, k) == IF k + t <= n THEN k + t ELSE k + t - n

LEMMA TurnIsBijective ==
    ASSUME NEW n \in Nat, NEW t \in 1 .. n
    PROVE  /\ \A k \in 1 .. n : Turn(t, n, k) \in 1 .. n
           /\ \A k, m \in 1 .. n : Turn(t, n, k) = Turn(t, n, m) => k = m
           /\ \A j \in 1 .. n : \E k \in 1 .. n : Turn(t, n, k) = j
           /\ Turn(t, n, n) = t
<1>1. \A j \in 1 .. n : \E k \in 1 .. n : Turn(t, n, k) = j
  <2>. SUFFICES ASSUME NEW j \in 1 .. n PROVE \E k \in 1 .. n : Turn(t, n, k) = j OBVIOUS
  <2>1. CASE j > t
    <3>1. j - t \in 1 .. n /\ Turn(t, n, j - t) = j BY <2>1 DEF Turn
    <3>. QED BY <3>1
  <2>2. CASE j <= t
    <3>1. j - t + n \in 1 .. n /\ Turn(t, n, j - t + n) = j BY <2>2 DEF Turn
    <3>. QED BY <3>1
  <2>. QED BY <2>1, <2>2
<1>. QED BY <1>1 DEF Turn

LEMMA TurnKeepsNext ==
    ASSUME NEW n \in Nat, NEW t \in 1 .. n, NEW X, NEW x \in 1 .. n, NEW y \in 1 .. n, x < y,
           \A z \in 1 .. n : x < z /\ z < y => Turn(t, n, z) \in X
    PROVE  Follows(X, n, Turn(t, n, x), Turn(t, n, y))
<1>1. ASSUME NEW j \in 1 .. n,
             \/ Turn(t, n, x) < j /\ j < Turn(t, n, y)
             \/ Turn(t, n, y) <= Turn(t, n, x) /\ (Turn(t, n, x) < j \/ j < Turn(t, n, y))
      PROVE  j \in X
  <2>1. CASE j > t
    <3>1. j - t \in 1 .. n /\ Turn(t, n, j - t) = j BY <2>1 DEF Turn
    <3>2. x < j - t /\ j - t < y BY <1>1, <2>1 DEF Turn
    <3>. QED BY <3>1, <3>2
  <2>2. CASE j <= t
    <3>1. j - t + n \in 1 .. n /\ Turn(t, n, j - t + n) = j BY <2>2 DEF Turn
    <3>2. x < j - t + n /\ j - t + n < y BY <1>1, <2>2 DEF Turn
    <3>. QED BY <3>1, <3>2
  <2>. QED BY <2>1, <2>2
<1>2. Turn(t, n, x) \in Int /\ Turn(t, n, y) \in Int BY DEF Turn
<1>. QED BY <1>1, <1>2 DEF Follows

LEMMA TurnBeginsNext ==
    ASSUME NEW n \in Nat, NEW t \in 1 .. n, NEW X, NEW y \in 1 .. n,
           \A z \in 1 .. n : z < y => Turn(t, n, z) \in X
    PROVE  Follows(X, n, t, Turn(t, n, y))
<1>1. ASSUME NEW j \in 1 .. n,
             \/ t < j /\ j < Turn(t, n, y)
             \/ Turn(t, n, y) <= t /\ (t < j \/ j < Turn(t, n, y))
      PROVE  j \in X
  <2>1. CASE j > t
    <3>1. j - t \in 1 .. n /\ Turn(t, n, j - t) = j BY <2>1 DEF Turn
    <3>2. j - t < y BY <1>1, <2>1 DEF Turn
    <3>. QED BY <3>1, <3>2
  <2>2. CASE j <= t
    <3>1. j - t + n \in 1 .. n /\ Turn(t, n, j - t + n) = j BY <2>2 DEF Turn
    <3>2. j - t + n < y BY <1>1, <2>2 DEF Turn
    <3>. QED BY <3>1, <3>2
  <2>. QED BY <2>1, <2>2
<1>2. Turn(t, n, y) \in Int BY DEF Turn
<1>. QED BY <1>1, <1>2 DEF Follows

\* Two spellings of one list from the same place are the same.
LEMMA OneSpelling ==
    ASSUME NEW n \in Nat, NEW R, NEW f, NEW s, NEW o, NEW u,
           Spells(o, n, R, f, s), Spells(u, n, R, f, s)
    PROVE  o = u
<1>1. o \in [1 .. n -> R] /\ u \in [1 .. n -> R] /\ o[1] = u[1]
      /\ \A a \in 1 .. n - 1 : o[a + 1] = f[o[a]] /\ u[a + 1] = f[u[a]]
  BY DEF Spells
<1>. DEFINE Good == {j \in 0 .. n : j # 0 => o[j] = u[j]}
<1>2. 0 \in Good OBVIOUS
<1>3. ASSUME NEW j \in 1 .. n, j - 1 \in Good PROVE j \in Good
  <2>1. CASE j = 1 BY <1>1, <2>1
  <2>2. CASE j # 1
    <3>1. j - 1 \in 1 .. n - 1 /\ (j - 1) + 1 = j /\ o[j - 1] = u[j - 1] BY <1>3, <2>2
    <3>2. o[j] = f[o[j - 1]] /\ u[j] = f[u[j - 1]] BY <1>1, <3>1
    <3>. QED BY <3>1, <3>2
  <2>. QED BY <2>1, <2>2
<1>4. Good \in SUBSET (0 .. n) OBVIOUS
<1>5. \A j \in 1 .. n : o[j] = u[j]
  <2>. HIDE DEF Good
  <2>1. Good = 0 .. n BY <1>2, <1>3, <1>4, RoundByRound
  <2>2. \A j \in 1 .. n : j \in 0 .. n /\ j # 0 OBVIOUS
  <2>. QED BY <2>1, <2>2 DEF Good
<1>. QED BY <1>1, <1>5

\* What is left of a list turned to behind the place t is spelled by its links.
LEMMA TurnedSpells ==
    ASSUME NEW D, NEW n \in Nat, NEW o \in [1 .. n -> D], NEW X, NEW f, NEW R, NEW i0,
           \A a, b \in 1 .. n : o[a] = o[b] => a = b,
           \A s \in D : s \in R <=> \E a \in 1 .. n : a \notin X /\ o[a] = s,
           R \in SUBSET D, IsFiniteSet(R),
           Links(o, n, X, i0, f), NEW t \in 1 .. n, t \notin X,
           NEW q, q = [k \in 1 .. n |-> o[Turn(t, n, k)]],
           NEW r, Kept(q, R, D, n, n, r)
    PROVE  Len(r) = Cardinality(R) /\ r \in Seq(D) /\ Spells(r, Cardinality(R), R, f, o[t])
<1>1. PICK m \in Nat : \E g \in [1 .. m -> 1 .. n] : Keeps(q, R, n, r, m, g) BY DEF Kept
<1>2. PICK g \in [1 .. m -> 1 .. n] : r \in Seq(D) /\ Keeps(q, R, n, r, m, g)
  BY <1>1 DEF Kept
<1>3. /\ Len(r) = m /\ \A a \in 1 .. m : r[a] = q[g[a]]
      /\ \A a, b \in 1 .. m : a < b => g[a] < g[b]
      /\ \A a \in 1 .. m : g[a] \in 1 .. n /\ q[g[a]] \in R
      /\ \A x \in 1 .. n : q[x] \in R => \E a \in 1 .. m : g[a] = x
  BY <1>2 DEF Keeps
<1>4. /\ \A k \in 1 .. n : Turn(t, n, k) \in 1 .. n
      /\ \A k, j \in 1 .. n : Turn(t, n, k) = Turn(t, n, j) => k = j
      /\ \A j \in 1 .. n : \E k \in 1 .. n : Turn(t, n, k) = j
      /\ Turn(t, n, n) = t
  BY TurnIsBijective
<1>5. \A k \in 1 .. n : q[k] = o[Turn(t, n, k)] /\ (q[k] \in R <=> Turn(t, n, k) \notin X)
  <2>. SUFFICES ASSUME NEW k \in 1 .. n
                PROVE  q[k] = o[Turn(t, n, k)] /\ (q[k] \in R <=> Turn(t, n, k) \notin X)
    OBVIOUS
  <2>1. PICK j \in 1 .. n : j = Turn(t, n, k) BY <1>4
  <2>2. q[k] = o[j] BY <2>1
  <2>3. o[j] \in D OBVIOUS
  <2>4. o[j] \in R <=> j \notin X BY <2>3
  <2>. QED BY <2>1, <2>2, <2>4
<1>6. \A a \in 1 .. m : r[a] = q[g[a]] /\ r[a] \in R BY <1>3
<1>7. ASSUME NEW a \in 1 .. m, NEW b \in 1 .. m, r[a] = r[b] PROVE a = b
  <2>1. PICK x \in 1 .. n, y \in 1 .. n : x = g[a] /\ y = g[b] BY <1>3
  <2>2a. q[x] = q[y] BY <1>6, <1>7, <2>1
  <2>2b. PICK j \in 1 .. n, k \in 1 .. n : j = Turn(t, n, x) /\ k = Turn(t, n, y) BY <1>4
  <2>2c. o[j] = o[k] BY <1>5, <2>2a, <2>2b
  <2>2. Turn(t, n, x) = Turn(t, n, y) BY <2>2b, <2>2c
  <2>3. g[a] = g[b] BY <1>4, <2>1, <2>2
  <2>4. ~(a < b) /\ ~(b < a) BY <1>3, <2>1, <2>3
  <2>. QED BY <2>4
<1>8. \A s \in R : \E a \in 1 .. m : r[a] = s
  <2>. SUFFICES ASSUME NEW s \in R PROVE \E a \in 1 .. m : r[a] = s OBVIOUS
  <2>1. PICK j \in 1 .. n : j \notin X /\ o[j] = s
    <3>1. s \in D OBVIOUS
    <3>. QED BY <3>1
  <2>2. PICK k \in 1 .. n : Turn(t, n, k) = j BY <1>4
  <2>3. q[k] = s /\ q[k] \in R BY <1>5, <2>1, <2>2
  <2>4. PICK a \in 1 .. m : g[a] = k BY <1>3, <2>3
  <2>. QED BY <1>6, <2>3, <2>4
<1>9. r \in [1 .. m -> R]
  <2>1. DOMAIN r = 1 .. m /\ r = [a \in DOMAIN r |-> r[a]] BY <1>2, <1>3, LenProperties
  <2>. QED BY <1>6, <2>1
<1>10. m = Cardinality(R)
  <2>1. r \in Bijection(1 .. m, R)
    BY <1>7, <1>8, <1>9 DEF Bijection, Injection, Surjection, IsInjective
  <2>2. ExistsBijection(1 .. m, R) BY <2>1 DEF ExistsBijection
  <2>. QED BY <2>2, FS_CountingElements
<1>11. \A a, b \in 1 .. n : a \notin X /\ b \notin X /\ Follows(X, n, a, b) => f[o[a]] = o[b]
  BY DEF Links
<1>12. m # 0 /\ r[m] = o[t]
  <2>1. n \in 1 .. n OBVIOUS
  <2>2. q[n] = o[t] /\ q[n] \in R BY <1>4, <1>5, <2>1
  <2>3. PICK a \in 1 .. m : g[a] = n BY <1>3, <2>1, <2>2
  <2>4. a = m
    <3>1. SUFFICES ASSUME a # m PROVE FALSE OBVIOUS
    <3>2. m \in 1 .. m /\ a < m BY <3>1
    <3>3. n < g[m] /\ g[m] \in 1 .. n BY <1>3, <2>3, <3>2
    <3>. QED BY <3>3
  <2>5. m \in 1 .. m /\ g[m] = n BY <2>3, <2>4
  <2>6. r[m] = q[n] BY <1>6, <2>5
  <2>. QED BY <2>2, <2>5, <2>6
<1>13. r[1] = f[o[t]]
  <2>1. 1 \in 1 .. m BY <1>12
  <2>2. PICK y \in 1 .. n : y = g[1] BY <1>3, <2>1
  <2>3. ASSUME NEW z \in 1 .. n, z < y PROVE Turn(t, n, z) \in X
    <3>1. SUFFICES ASSUME Turn(t, n, z) \notin X PROVE FALSE OBVIOUS
    <3>2. PICK a \in 1 .. m : g[a] = z BY <1>3, <1>5, <3>1
    <3>3. a = 1 \/ 1 < a OBVIOUS
    <3>4. g[1] < z \/ z = g[1] BY <1>3, <2>1, <3>2, <3>3
    <3>. QED BY <2>2, <2>3, <3>4
  <2>4. Follows(X, n, t, Turn(t, n, y)) BY <2>3, TurnBeginsNext
  <2>5. PICK b \in 1 .. n : b = Turn(t, n, y) BY <1>4
  <2>6. b \notin X BY <1>3, <1>5, <2>1, <2>2, <2>5
  <2>7. f[o[t]] = o[b] BY <1>11, <2>4, <2>5, <2>6
  <2>. QED BY <1>5, <1>6, <2>1, <2>2, <2>5, <2>7
<1>14. ASSUME NEW a \in 1 .. m - 1 PROVE r[a + 1] = f[r[a]]
  <2>1. a \in 1 .. m /\ a + 1 \in 1 .. m /\ a < a + 1 OBVIOUS
  <2>2. PICK x \in 1 .. n, y \in 1 .. n : x = g[a] /\ y = g[a + 1] BY <1>3, <2>1
  <2>3. x < y BY <1>3, <2>1, <2>2
  <2>4. ASSUME NEW z \in 1 .. n, x < z, z < y PROVE Turn(t, n, z) \in X
    <3>1. SUFFICES ASSUME Turn(t, n, z) \notin X PROVE FALSE OBVIOUS
    <3>2. PICK c \in 1 .. m : g[c] = z BY <1>3, <1>5, <3>1
    <3>3. c < a \/ c = a \/ c = a + 1 \/ a + 1 < c OBVIOUS
    <3>4. g[c] < g[a] \/ g[c] = g[a] \/ g[c] = g[a + 1] \/ g[a + 1] < g[c]
      BY <1>3, <2>1, <3>3
    <3>. QED BY <2>2, <2>4, <3>2, <3>4
  <2>5. Follows(X, n, Turn(t, n, x), Turn(t, n, y)) BY <2>3, <2>4, TurnKeepsNext
  <2>6. PICK b \in 1 .. n, c \in 1 .. n : b = Turn(t, n, x) /\ c = Turn(t, n, y) BY <1>4
  <2>7. b \notin X /\ c \notin X BY <1>3, <1>5, <2>1, <2>2, <2>6
  <2>8. f[o[b]] = o[c] BY <1>11, <2>5, <2>6, <2>7
  <2>. QED BY <1>5, <1>6, <2>1, <2>2, <2>6, <2>8
<1>15. Spells(r, m, R, f, o[t])
  BY <1>7, <1>8, <1>9, <1>10, <1>12, <1>13, <1>14 DEF Spells
<1>. QED BY <1>2, <1>3, <1>10, <1>15

-----------------------------------------------------------------------------
(* The scan computes RoundRobin.                                           *)

\* The places of the list unlinked by the first k iterations.
Gone(o, e, n, k) == {j \in 1 .. n : j <= k /\ IsDead(o[j], e, IdleSlot)}

\* The scan that found the list o of n slots and the statuses e has come through
\* its first i places without a stop.
Scanning(n, o, e) ==
    /\ entry = [order |-> o, st |-> e]
    /\ \A a, b \in 1 .. n : o[a] = o[b] => a = b
    /\ \A s \in Slot : e[s] # "FREE" <=> \E a \in 1 .. n : o[a] = s
    /\ i \in 0 .. n + 1
    /\ i = 0 => newSlot = o[n]
    /\ i \in 1 .. n => newSlot = o[i]
    /\ i = n + 1 => newSlot = IdleSlot
    /\ \A s \in Slot :
           status[s] = IF \E j \in Gone(o, e, n, i) : o[j] = s THEN "FREE" ELSE e[s]
    /\ processCant = n - Cardinality(Gone(o, e, n, i))
    /\ \A k \in 1 .. n : k <= i => k \notin Stops(o, e, IdleSlot)
    /\ Links(o, n, Gone(o, e, n, i), i, nextSlot)

ScanInv ==
    pc = "scan" => \E n \in Nat \ {0} : \E o \in [1 .. n -> Slot] :
                       \E e \in [Slot -> Status] : Scanning(n, o, e)

LEMMA LenOf ==
    ASSUME NEW D, NEW n \in Nat, NEW o \in [1 .. n -> D] PROVE o \in Seq(D) /\ Len(o) = n
<1>1. o \in Seq(D) BY SeqDef
<1>. QED BY <1>1, LenProperties

LEMMA GoneIs ==
    ASSUME NEW n \in Nat, NEW o, NEW e, NEW k \in Nat
    PROVE  /\ Gone(o, e, n, k) \in SUBSET (1 .. n) /\ IsFiniteSet(Gone(o, e, n, k))
           /\ Cardinality(Gone(o, e, n, k)) \in Nat
           /\ k < n => IF IsDead(o[k + 1], e, IdleSlot)
                       THEN /\ Gone(o, e, n, k + 1) = Gone(o, e, n, k) \cup {k + 1}
                            /\ Cardinality(Gone(o, e, n, k + 1)) = Cardinality(Gone(o, e, n, k)) + 1
                       ELSE Gone(o, e, n, k + 1) = Gone(o, e, n, k)
           /\ k >= n => Gone(o, e, n, k + 1) = Gone(o, e, n, k)
           /\ k < n => {j \in 1 .. k : IsDead(o[j], e, IdleSlot)} = Gone(o, e, n, k)
<1>. DEFINE dead(j) == IsDead(o[j], e, IdleSlot)
            X == {j \in 1 .. n : j <= k /\ dead(j)}
            Y == {j \in 1 .. n : j <= k + 1 /\ dead(j)}
<1>0. X = Gone(o, e, n, k) /\ Y = Gone(o, e, n, k + 1) BY Zenon DEF Gone
<1>. HIDE DEF dead
<1>1. X \in SUBSET (1 .. n) OBVIOUS
<1>2. IsFiniteSet(1 .. n)
  <2>1. 1 \in Int /\ n \in Int OBVIOUS
  <2>. QED BY <2>1, FS_Interval
<1>3. IsFiniteSet(X) /\ Cardinality(X) \in Nat BY <1>1, <1>2, FS_Subset, FS_CardinalityType
<1>4. k < n /\ dead(k + 1) => Y = X \cup {k + 1} OBVIOUS
<1>5. k < n /\ ~dead(k + 1) => Y = X
  <2>. SUFFICES ASSUME k < n, ~dead(k + 1) PROVE Y = X OBVIOUS
  <2>1. \A j \in 1 .. n : j <= k + 1 <=> (j <= k \/ j = k + 1) OBVIOUS
  <2>. QED BY <2>1
<1>6. k + 1 \notin X OBVIOUS
<1>7. Cardinality(X \cup {k + 1}) = Cardinality(X) + 1
  <2>. HIDE DEF X
  <2>. QED BY <1>3, <1>6, FS_AddElement
<1>8. k >= n => Y = X
  <2>1. k >= n => \A j \in 1 .. n : j <= k /\ j <= k + 1 OBVIOUS
  <2>. QED BY <2>1
<1>9. k < n => {j \in 1 .. k : dead(j)} = X
  <2>1. k < n => \A j : j \in 1 .. k <=> j \in 1 .. n /\ j <= k OBVIOUS
  <2>. QED BY <2>1
<1>. QED
  <2>. HIDE DEF X, Y
  <2>1. k < n => IF dead(k + 1) THEN Y = X \cup {k + 1} /\ Cardinality(Y) = Cardinality(X) + 1
                 ELSE Y = X
    BY <1>4, <1>5, <1>7
  <2>. USE DEF dead
  <2>. QED BY <1>0, <1>1, <1>3, <1>8, <1>9, <2>1, Zenon

\* When the loop ends at the k-th place.
LEMMA StopsAt ==
    ASSUME NEW n \in Nat, NEW o \in [1 .. n -> Slot], NEW e, NEW k \in Nat, k < n
    PROVE  k + 1 \in Stops(o, e, IdleSlot) <=>
               /\ o[k + 1] # IdleSlot
               /\ \/ e[o[k + 1]] = "READY"
                  \/ /\ e[o[k + 1]] \notin {"READY", "DEAD"}
                     /\ k + 1 > n - Cardinality(Gone(o, e, n, k))
<1>1. Len(o) = n BY LenOf
<1>2. PICK m : m = k + 1 OBVIOUS
<1>3. m \in 1 .. n /\ m - 1 = k BY <1>2
<1>4. {j \in 1 .. m - 1 : IsDead(o[j], e, IdleSlot)} = Gone(o, e, n, k) BY <1>3, GoneIs
<1>5. m \in Stops(o, e, IdleSlot) <=> Picks(o[m], e, IdleSlot) \/ GivesUp(o, e, IdleSlot, m)
  BY <1>1, <1>3 DEF Stops
<1>6. GivesUp(o, e, IdleSlot, m) <=>
         /\ o[m] # IdleSlot /\ e[o[m]] \notin {"READY", "DEAD"}
         /\ m > n - Cardinality(Gone(o, e, n, k))
  <2>1. GivesUp(o, e, IdleSlot, m) <=>
         /\ o[m] # IdleSlot /\ e[o[m]] \notin {"READY", "DEAD"}
         /\ m > Len(o) - Cardinality({j \in 1 .. m - 1 : IsDead(o[j], e, IdleSlot)})
    BY Zenon DEF GivesUp
  <2>. QED BY <1>1, <1>4, <2>1
<1>7. Picks(o[m], e, IdleSlot) <=> o[m] # IdleSlot /\ e[o[m]] = "READY" BY DEF Picks
<1>. QED BY <1>2, <1>5, <1>6, <1>7

\* What the loop has behind it when it ends.
LEMMA ScannedIs ==
    ASSUME NEW n \in Nat, NEW o \in [1 .. n -> Slot], NEW e, NEW k \in Nat,
           \A m \in 1 .. n : m <= k => m \notin Stops(o, e, IdleSlot)
    PROVE  /\ k >= n => Scanned(o, e, IdleSlot) = n /\ Winner(o, e, IdleSlot) = IdleSlot
           /\ k < n /\ k + 1 \in Stops(o, e, IdleSlot) =>
                  /\ Scanned(o, e, IdleSlot) = k
                  /\ Winner(o, e, IdleSlot) = IF Picks(o[k + 1], e, IdleSlot) THEN o[k + 1]
                                              ELSE IdleSlot
<1>1. Len(o) = n BY LenOf
<1>2. PICK S : S = Stops(o, e, IdleSlot) OBVIOUS
<1>3. S \in SUBSET (1 .. n) BY <1>1, <1>2 DEF Stops
<1>4. Scanned(o, e, IdleSlot) = IF S = {} THEN n ELSE Before(S) - 1
  BY <1>1, <1>2 DEF Scanned
<1>5. ASSUME k >= n PROVE Scanned(o, e, IdleSlot) = n
  <2>1. S = {} BY <1>2, <1>3, <1>5
  <2>. QED BY <1>4, <2>1
<1>6. ASSUME k < n, k + 1 \in S PROVE Scanned(o, e, IdleSlot) = k
  <2>1. \A m \in S : k + 1 <= m BY <1>2, <1>3
  <2>2. Before(S) = k + 1
    <3>1. Before(S) \in S /\ \A m \in S : Before(S) <= m BY <1>6, <2>1 DEF Before
    <3>2. PICK b \in S : b = Before(S) BY <3>1
    <3>3. b <= k + 1 /\ k + 1 <= b BY <1>6, <2>1, <3>1, <3>2
    <3>4. b \in Int BY <1>3
    <3>. QED BY <3>2, <3>3, <3>4
  <2>. QED BY <1>4, <1>6, <2>2
<1>7. Winner(o, e, IdleSlot) =
         IF Scanned(o, e, IdleSlot) < n /\ Picks(o[Scanned(o, e, IdleSlot) + 1], e, IdleSlot)
         THEN o[Scanned(o, e, IdleSlot) + 1] ELSE IdleSlot
  BY <1>1 DEF Winner
<1>. QED BY <1>2, <1>5, <1>6, <1>7

-----------------------------------------------------------------------------
(* One iteration.                                                          *)

\* Where the scan is when it has come through k places.
LEMMA ScanAt ==
    ASSUME IInv, pc = "scan", NEW n \in Nat \ {0}, NEW o \in [1 .. n -> Slot],
           NEW e \in [Slot -> Status], Scanning(n, o, e),
           NEW X, X = Gone(o, e, n, i)
    PROVE  /\ \A s \in Slot : s \in Ring <=> \E a \in 1 .. n : a \notin X /\ o[a] = s
           /\ \A a \in 1 .. n : a \notin X => status[o[a]] = e[o[a]]
           /\ \A a \in X : e[o[a]] = "DEAD" /\ o[a] # IdleSlot /\ status[o[a]] = "FREE"
           /\ i < n => next = o[i + 1] /\ i + 1 \notin X /\ i + 1 \in 1 .. n
           /\ next \in Ring
<1>1. i \in 0 .. n + 1 /\ i \in Nat /\ n \in Nat BY DEF Scanning
<1>2. X \in SUBSET (1 .. n) BY <1>1, GoneIs
<1>3. \A a \in X : a <= i /\ e[o[a]] = "DEAD" /\ o[a] # IdleSlot BY DEF Gone, IsDead
<1>4. /\ \A a, b \in 1 .. n : o[a] = o[b] => a = b
      /\ \A s \in Slot : e[s] # "FREE" <=> \E a \in 1 .. n : o[a] = s
      /\ \A s \in Slot : status[s] = IF \E j \in X : o[j] = s THEN "FREE" ELSE e[s]
  BY Zenon DEF Scanning
<1>5. ASSUME NEW a \in 1 .. n, a \notin X PROVE status[o[a]] = e[o[a]]
  <2>1. o[a] \in Slot OBVIOUS
  <2>2. ~ \E j \in X : o[j] = o[a] BY <1>2, <1>4, <1>5
  <2>. QED BY <1>4, <2>1, <2>2
<1>6. ASSUME NEW a \in X PROVE status[o[a]] = "FREE"
  <2>1. o[a] \in Slot BY <1>2
  <2>. QED BY <1>4, <2>1
<1>7. \A s \in Slot : s \in Ring <=> \E a \in 1 .. n : a \notin X /\ o[a] = s
  <2>. SUFFICES ASSUME NEW s \in Slot
                PROVE  s \in Ring <=> \E a \in 1 .. n : a \notin X /\ o[a] = s
    OBVIOUS
  <2>1. s \in Ring <=> status[s] # "FREE" BY DEF Ring
  <2>2. ASSUME s \in Ring PROVE \E a \in 1 .. n : a \notin X /\ o[a] = s
    <3>1. ~(\E j \in X : o[j] = s) /\ e[s] # "FREE" BY <1>4, <2>1, <2>2
    <3>. QED BY <1>4, <3>1
  <2>3. ASSUME NEW a \in 1 .. n, a \notin X, o[a] = s PROVE s \in Ring
    <3>1. e[s] # "FREE" /\ status[s] = e[s] BY <1>4, <1>5, <2>3
    <3>. QED BY <2>1, <3>1
  <2>. QED BY <2>2, <2>3
<1>8. next \in Ring BY DEF IInv, ScanIsOnRing, next
<1>9. ASSUME i < n PROVE next = o[i + 1] /\ i + 1 \notin X /\ i + 1 \in 1 .. n
  <2>1. PICK k \in 1 .. n : k = i + 1 BY <1>1, <1>9
  <2>2. k \notin X BY <1>1, <1>3, <2>1
  <2>3. PICK a \in 1 .. n : a = IF i = 0 THEN n ELSE i BY <1>1, <1>9
  <2>4. newSlot = o[a] BY <1>1, <1>9, <2>3 DEF Scanning
  <2>5. a \notin X \/ a = i BY <1>1, <1>3, <2>3
  <2>6. Follows(X, n, a, k) BY <1>1, <2>1, <2>3 DEF Follows
  <2>7. Links(o, n, X, i, nextSlot) BY DEF Scanning
  <2>8. nextSlot[o[a]] = o[k] BY <2>2, <2>5, <2>6, <2>7 DEF Links
  <2>. QED BY <2>1, <2>2, <2>4, <2>8 DEF next
<1>. QED BY <1>3, <1>5, <1>6, <1>7, <1>8, <1>9

\* g leads from c, the one place of the list before k, past k, and else as f does.
Skips(o, n, X, k, c, f, g) ==
    /\ k \in 1 .. n /\ k \notin X /\ \A a \in 1 .. n : o[a] = o[k] => a = k
    /\ c \in 1 .. n /\ c \notin X /\ c # k
    /\ f[o[c]] = o[k] /\ \A a \in 1 .. n : a \notin X /\ f[o[a]] = o[k] => a = c
    /\ \A a \in 1 .. n : g[o[a]] = IF a = c THEN f[o[k]] ELSE f[o[a]]

\* Unlinking a place keeps the links between those that are left.
LEMMA UnlinkKeepsLinks ==
    ASSUME NEW n, n \in Nat, NEW o, NEW X, NEW k, NEW c, NEW f, NEW g, NEW i0,
           Links(o, n, X, i0, f), Skips(o, n, X, k, c, f, g)
    PROVE  Links(o, n, X \cup {k}, k, g)
<1>. USE DEF Skips
<1>. SUFFICES ASSUME NEW a \in 1 .. n, NEW b \in 1 .. n, a \notin X \cup {k} \/ a = k,
                     b \notin X \cup {k}, Follows(X \cup {k}, n, a, b)
              PROVE  g[o[a]] = o[b]
  BY DEF Links
<1>1. \A x \in 1 .. n : g[o[x]] = IF x = c THEN f[o[k]] ELSE f[o[x]]
  OBVIOUS
<1>2. \A x, y \in 1 .. n : x \notin X /\ y \notin X /\ Follows(X, n, x, y) => f[o[x]] = o[y]
  BY DEF Links
<1>3. CASE a = k
  <2>1. Follows(X, n, k, b) BY <1>3 DEF Follows
  <2>2. f[o[k]] = o[b] BY <1>2, <2>1
  <2>. QED BY <1>1, <1>3, <2>2
<1>4. CASE a # k /\ Follows(X, n, a, b)
  <2>1. f[o[a]] = o[b] BY <1>2, <1>4
  <2>2. o[b] # o[k] BY <1>4
  <2>3. a # c BY <2>1, <2>2
  <2>. QED BY <1>1, <2>1, <2>3
<1>5. CASE a # k /\ ~Follows(X, n, a, b)
  <2>1. Follows(X, n, a, k) /\ Follows(X, n, k, b) BY <1>5 DEF Follows
  <2>2. f[o[a]] = o[k] /\ f[o[k]] = o[b] BY <1>2, <1>5, <2>1
  <2>3. a = c BY <1>5, <2>2
  <2>. QED BY <1>1, <2>2, <2>3
<1>. QED BY <1>3, <1>4, <1>5

\* An iteration that steps over a slot.
LEMMA AdvanceScans ==
    ASSUME IInv, pc = "scan", NEW n \in Nat \ {0}, NEW o \in [1 .. n -> Slot],
           NEW e \in [Slot -> Status], Scanning(n, o, e),
           ScanSkipIdle \/ ScanNext, entry' = entry
    PROVE  Scanning(n, o, e)'
<1>1. PICK X : X = Gone(o, e, n, i) OBVIOUS
<1>2. PICK k : k = i + 1 OBVIOUS
<1>3. i \in 0 .. n + 1 /\ i \in Nat /\ n \in Nat BY DEF Scanning
<1>4. /\ newSlot' = next /\ i' = k /\ status' = status /\ nextSlot' = nextSlot
      /\ processCant' = processCant
  BY <1>2 DEF ScanSkipIdle, ScanNext, Advance, table
<1>5. /\ \A s \in Slot : s \in Ring <=> \E a \in 1 .. n : a \notin X /\ o[a] = s
      /\ \A a \in 1 .. n : a \notin X => status[o[a]] = e[o[a]]
      /\ i < n => next = o[k] /\ k \notin X /\ k \in 1 .. n
      /\ next \in Ring
  BY <1>1, <1>2, ScanAt
<1>6. processCant = n - Cardinality(X) /\ Cardinality(X) \in Nat
      /\ Links(o, n, X, i, nextSlot)
      /\ \A m \in 1 .. n : m <= i => m \notin Stops(o, e, IdleSlot)
  <2>1. Cardinality(X) \in Nat BY <1>1, <1>3, GoneIs
  <2>. QED BY <1>1, <2>1 DEF Scanning
<1>7. CASE i < n
  <2>1. next = o[k] /\ k \notin X /\ k \in 1 .. n /\ status[o[k]] = e[o[k]] BY <1>5, <1>7
  <2>2. ~IsDead(o[k], e, IdleSlot) BY <2>1 DEF ScanSkipIdle, ScanNext, ScanOther, IsDead
  <2>3. Gone(o, e, n, k) = X BY <1>1, <1>2, <1>3, <1>7, <2>2, GoneIs
  <2>4. k \notin Stops(o, e, IdleSlot)
    <3>1. k \in Stops(o, e, IdleSlot) <=>
               /\ o[k] # IdleSlot
               /\ \/ e[o[k]] = "READY"
                  \/ /\ e[o[k]] \notin {"READY", "DEAD"}
                     /\ k > n - Cardinality(X)
      BY <1>1, <1>2, <1>3, <1>7, StopsAt
    <3>2. CASE ScanSkipIdle BY <2>1, <3>1, <3>2 DEF ScanSkipIdle
    <3>3. CASE ScanNext
      <4>1. status[next] # "READY" /\ ~(i + 1 > processCant)
        BY <3>3 DEF ScanNext, ScanOther, SeenAll
      <4>. QED BY <1>2, <1>6, <2>1, <3>1, <4>1
    <3>. QED BY <3>2, <3>3
  <2>5. \A m \in 1 .. n : m <= k => m \notin Stops(o, e, IdleSlot)
    <3>1. \A m \in 1 .. n : m <= k => m <= i \/ m = k BY <1>2, <1>3
    <3>. QED BY <1>6, <2>4, <3>1
  <2>6. Links(o, n, X, k, nextSlot) BY <1>6, <2>1 DEF Links
  <2>7. k \in 1 .. n /\ k # 0 /\ k # n + 1 /\ k \in 0 .. n + 1 BY <2>1
  <2>8. Gone(o, e, n, i)' = X BY <1>4, <2>3 DEF Gone
  <2>. QED BY <1>1, <1>4, <1>6, <2>1, <2>5, <2>6, <2>7, <2>8 DEF Scanning
<1>8. CASE i >= n
  <2>1. PICK b \in 1 .. n : b \notin X /\ o[b] = next /\ status[next] = e[next]
    <3>1. next \in Slot BY <1>5 DEF Ring
    <3>. QED BY <1>5, <3>1
  <2>2. processCant <= n BY <1>3, <1>6
  <2>3. SeenAll BY <1>3, <1>8, <2>2, <1>6 DEF SeenAll
  <2>4. ScanSkipIdle /\ next = IdleSlot BY <2>3 DEF ScanNext, ScanSkipIdle
  <2>5. i = n
    <3>1. SUFFICES ASSUME i # n PROVE FALSE OBVIOUS
    <3>2. newSlot = IdleSlot BY <1>3, <1>8, <3>1 DEF Scanning
    <3>3. nextSlot[IdleSlot] # IdleSlot
      <4>1. InitSlot \in Ring /\ IdleSlot \in Ring /\ InitSlot # IdleSlot
        BY SlotFacts DEF IInv, CurrentIsOnRing
      <4>2. IsOneCycle(Ring, nextSlot) BY DEF IInv, RingIsOneCycle
      <4>. QED BY <4>1, <4>2, PredecessorExists
    <3>. QED BY <2>4, <3>2, <3>3 DEF next
  <2>6. Gone(o, e, n, k) = X BY <1>1, <1>2, <1>3, <1>8, GoneIs
  <2>7. Links(o, n, X, k, nextSlot)
    <3>1. \A a \in 1 .. n : a # k BY <1>2, <2>5
    <3>. QED BY <1>6, <3>1 DEF Links
  <2>8. \A m \in 1 .. n : m <= k => m \notin Stops(o, e, IdleSlot) BY <1>3, <1>6, <2>5
  <2>9. Gone(o, e, n, i)' = X BY <1>4, <2>6 DEF Gone
  <2>10. k = n + 1 /\ k # 0 /\ k \notin 1 .. n /\ k \in 0 .. n + 1 BY <1>2, <1>3, <2>5
  <2>. QED BY <1>1, <1>4, <1>6, <2>4, <2>7, <2>8, <2>9, <2>10 DEF Scanning
<1>. QED BY <1>3, <1>7, <1>8

\* An iteration that unlinks one.
LEMMA ReapScans ==
    ASSUME IInv, NEW n \in Nat \ {0}, NEW o \in [1 .. n -> Slot],
           NEW e \in [Slot -> Status], Scanning(n, o, e),
           ScanReap, entry' = entry
    PROVE  Scanning(n, o, e)'
<1>1. PICK X : X = Gone(o, e, n, i) OBVIOUS
<1>2. PICK k : k = i + 1 OBVIOUS
<1>3. i \in 0 .. n + 1 /\ i \in Nat /\ n \in Nat BY DEF Scanning
<1>4. PICK p : p = findPrevSlot(next) OBVIOUS
<1>5. /\ newSlot' = next /\ i' = k /\ pc = "scan"
      /\ next # IdleSlot /\ status[next] = "DEAD"
      /\ nextSlot' = [nextSlot EXCEPT ![p] = nextSlot[next]]
      /\ status' = [status EXCEPT ![next] = "FREE"]
      /\ processCant' = processCant - 1
  BY <1>2, <1>4 DEF ScanReap, Advance
<1>6. /\ \A s \in Slot : s \in Ring <=> \E a \in 1 .. n : a \notin X /\ o[a] = s
      /\ \A a \in 1 .. n : a \notin X => status[o[a]] = e[o[a]]
      /\ i < n => next = o[k] /\ k \notin X /\ k \in 1 .. n
      /\ next \in Ring
  <2>1. pc = "scan" BY <1>5
  <2>2. /\ \A s \in Slot : s \in Ring <=> \E a \in 1 .. n : a \notin X /\ o[a] = s
        /\ \A a \in 1 .. n : a \notin X => status[o[a]] = e[o[a]]
        /\ i < n => next = o[i + 1] /\ i + 1 \notin X /\ i + 1 \in 1 .. n
        /\ next \in Ring
    BY <1>1, <2>1, ScanAt
  <2>. QED BY <1>2, <2>2
<1>7. /\ processCant = n - Cardinality(X) /\ Cardinality(X) \in Nat
      /\ Links(o, n, X, i, nextSlot)
      /\ \A m \in 1 .. n : m <= i => m \notin Stops(o, e, IdleSlot)
      /\ \A a, b \in 1 .. n : o[a] = o[b] => a = b
      /\ \A s \in Slot : e[s] # "FREE" <=> \E a \in 1 .. n : o[a] = s
      /\ \A s \in Slot : status[s] = IF \E j \in X : o[j] = s THEN "FREE" ELSE e[s]
      /\ X \in SUBSET (1 .. n)
  <2>1. Cardinality(X) \in Nat /\ X \in SUBSET (1 .. n) BY <1>1, <1>3, GoneIs
  <2>. QED BY <1>1, <2>1, Zenon DEF Scanning
<1>8. i < n
  <2>1. SUFFICES ASSUME i >= n PROVE FALSE BY <1>3
  <2>2. next \in Slot BY <1>6 DEF Ring
  <2>3. PICK b \in 1 .. n : b \notin X /\ o[b] = next BY <1>6, <2>2
  <2>4. IsDead(o[b], e, IdleSlot) BY <1>5, <1>6, <2>3 DEF IsDead
  <2>5. b <= i BY <1>3, <2>1
  <2>. QED BY <1>1, <2>3, <2>4, <2>5 DEF Gone
<1>9. next = o[k] /\ k \notin X /\ k \in 1 .. n /\ e[o[k]] = "DEAD" /\ o[k] # IdleSlot
  BY <1>5, <1>6, <1>8
<1>10. Gone(o, e, n, k) = X \cup {k} /\ Cardinality(X \cup {k}) = Cardinality(X) + 1
  <2>1. IsDead(o[k], e, IdleSlot) BY <1>9 DEF IsDead
  <2>. QED BY <1>1, <1>2, <1>3, <1>8, <2>1, GoneIs
<1>11. k \notin Stops(o, e, IdleSlot)
  BY <1>1, <1>2, <1>3, <1>8, <1>9, StopsAt
<1>12. \A m \in 1 .. n : m <= k => m \notin Stops(o, e, IdleSlot)
  <2>1. \A m \in 1 .. n : m <= k => m <= i \/ m = k BY <1>2, <1>3
  <2>. QED BY <1>7, <1>11, <2>1
<1>13. p \in Ring /\ nextSlot[p] = o[k] /\ p # o[k]
  <2>1. InitSlot \in Ring /\ status[InitSlot] # "DEAD" BY DEF IInv, CurrentIsOnRing
  <2>2. next # InitSlot /\ IsOneCycle(Ring, nextSlot) BY <1>5, <2>1 DEF IInv, RingIsOneCycle
  <2>3. PICK d \in Ring : d = next BY <1>6
  <2>4. (\E s \in Ring : nextSlot[s] = d) /\ nextSlot[d] # d
    BY <2>1, <2>2, <2>3, PredecessorExists
  <2>. QED BY <1>4, <1>9, <2>3, <2>4 DEF findPrevSlot
<1>14. PICK c \in 1 .. n : c \notin X /\ o[c] = p
  <2>1. p \in Slot BY <1>13 DEF Ring
  <2>. QED BY <1>6, <1>13, <2>1
<1>15. \A a \in 1 .. n : a \notin X /\ nextSlot[o[a]] = o[k] => a = c
  <2>. SUFFICES ASSUME NEW a \in 1 .. n, a \notin X, nextSlot[o[a]] = o[k] PROVE a = c
    OBVIOUS
  <2>1. o[a] \in Slot OBVIOUS
  <2>2. o[a] \in Ring BY <1>6, <2>1
  <2>3. \A x, y \in Ring : nextSlot[x] = nextSlot[y] => x = y
    BY DEF IInv, RingIsOneCycle, IsOneCycle
  <2>4. o[a] = p BY <1>13, <2>2, <2>3
  <2>. QED BY <1>7, <1>14, <2>4
<1>16. Links(o, n, X \cup {k}, k, nextSlot')
  <2>1. PICK f \in [Slot -> Slot] : f = nextSlot BY DEF IInv, TypeOK
  <2>2. PICK g : g = nextSlot' OBVIOUS
  <2>3. g = [f EXCEPT ![o[c]] = f[o[k]]] BY <1>5, <1>9, <1>14, <2>1, <2>2
  <2>4. \A a \in 1 .. n : g[o[a]] = IF a = c THEN f[o[k]] ELSE f[o[a]]
    <3>. SUFFICES ASSUME NEW a \in 1 .. n PROVE g[o[a]] = IF a = c THEN f[o[k]] ELSE f[o[a]]
      OBVIOUS
    <3>1. o[a] \in Slot /\ o[c] \in Slot /\ (o[a] = o[c] => a = c) BY <1>7
    <3>. QED BY <2>3, <3>1
  <2>5. Links(o, n, X, i, f) /\ f[o[c]] = o[k] BY <1>7, <1>13, <1>14, <2>1
  <2>6. \A a \in 1 .. n : a \notin X /\ f[o[a]] = o[k] => a = c BY <1>15, <2>1
  <2>7. Skips(o, n, X, k, c, f, g) BY <1>7, <1>9, <1>13, <1>14, <2>4, <2>5, <2>6 DEF Skips
  <2>8. n \in Nat /\ Links(o, n, X, i, f) BY <2>5
  <2>9. Links(o, n, X \cup {k}, k, g) BY <2>7, <2>8, UnlinkKeepsLinks, Zenon
  <2>. QED BY <2>2, <2>9
<1>17. \A s \in Slot :
          status'[s] = IF \E j \in X \cup {k} : o[j] = s THEN "FREE" ELSE e[s]
  <2>. SUFFICES ASSUME NEW s \in Slot
                PROVE  status'[s] = IF \E j \in X \cup {k} : o[j] = s THEN "FREE" ELSE e[s]
    OBVIOUS
  <2>1. status \in [Slot -> Status] BY DEF IInv, TypeOK
  <2>2. CASE s = o[k] BY <1>5, <1>9, <2>1, <2>2
  <2>3. CASE s # o[k]
    <3>1. status'[s] = status[s] BY <1>5, <1>9, <2>1, <2>3
    <3>2. (\E j \in X \cup {k} : o[j] = s) <=> \E j \in X : o[j] = s BY <2>3
    <3>. QED BY <1>7, <3>1, <3>2
  <2>. QED BY <2>2, <2>3
<1>18. Gone(o, e, n, i)' = X \cup {k} BY <1>5, <1>10 DEF Gone
<1>19. k # 0 /\ k # n + 1 /\ k \in 0 .. n + 1 BY <1>9
<1>20. processCant' = n - Cardinality(X \cup {k}) BY <1>5, <1>7, <1>10, <1>3
<1>21. entry' = [order |-> o, st |-> e] BY DEF Scanning
<1>. QED
  BY <1>5, <1>7, <1>9, <1>12, <1>16, <1>17, <1>18, <1>19, <1>20, <1>21 DEF Scanning

-----------------------------------------------------------------------------
(* Beginning and end.                                                      *)

\* What a step that begins a scan leaves alone.
LEMMA BeginFacts ==
    ASSUME IInv, pc # "scan", pc' = "scan", Next
    PROVE  /\ newSlot' = currentSlot /\ i' = 0 /\ nextSlot' = nextSlot
           /\ processCant' = processCant
           /\ \A s \in Slot : status'[s] # "FREE" <=> status[s] # "FREE"
<1>1. \A st \in [Slot -> Status] :
          StartScan(st) /\ (\A s \in Slot : st[s] # "FREE" <=> status[s] # "FREE")
          => /\ newSlot' = currentSlot /\ i' = 0 /\ nextSlot' = nextSlot
             /\ processCant' = processCant
             /\ \A s \in Slot : status'[s] # "FREE" <=> status[s] # "FREE"
  <2>. SUFFICES ASSUME NEW st \in [Slot -> Status], StartScan(st),
                       \A s \in Slot : st[s] # "FREE" <=> status[s] # "FREE"
                PROVE  /\ newSlot' = currentSlot /\ i' = 0 /\ nextSlot' = nextSlot
                       /\ processCant' = processCant
                       /\ \A s \in Slot : status'[s] # "FREE" <=> status[s] # "FREE"
    OBVIOUS
  <2>1. status' = IF st[currentSlot] = "RUNNING" THEN [st EXCEPT ![currentSlot] = "READY"] ELSE st
    BY DEF StartScan
  <2>2. \A s \in Slot : status'[s] # "FREE" <=> st[s] # "FREE" BY <2>1
  <2>. QED BY <2>2 DEF StartScan, FirstSlot
<1>2. status \in [Slot -> Status] /\ currentSlot \in Ring /\ Ring \subseteq Slot
  BY SlotFacts DEF IInv, TypeOK, CurrentIsOnRing
<1>3. CASE Timer
  <2>1. schedTicks \in [Slot -> Status] BY <1>2 DEF schedTicks, Status
  <2>2. \A s \in Slot : schedTicks[s] # "FREE" <=> status[s] # "FREE" BY DEF schedTicks
  <2>. QED BY <1>1, <1>3, <2>1, <2>2 DEF Timer
<1>4. CASE Yield BY <1>1, <1>2, <1>4 DEF Yield
<1>5. CASE Block
  <2>1. PICK st : st = [status EXCEPT ![currentSlot] = "BLOCKED"] OBVIOUS
  <2>2. st \in [Slot -> Status] BY <1>2, <2>1 DEF Status
  <2>3. status[currentSlot] # "FREE" BY <1>2 DEF Ring
  <2>4. \A s \in Slot : st[s] # "FREE" <=> status[s] # "FREE" BY <1>2, <2>1, <2>3
  <2>. QED BY <1>1, <1>5, <2>1, <2>2, <2>4 DEF Block
<1>6. ~schedSchedule
  BY DEF schedSchedule, ScanSkipIdle, ScanPick, ScanReap, ScanNext, ScanGiveUp
<1>7. ~(\/ Create \/ Exit
        \/ \E s \in Slot : Kill(s) \/ Wake(s)
        \/ \E ms \in SleepMs : Sleep(ms))
  BY DEF Create, Exit, Kill, Wake, Sleep, Caller
<1>. QED BY <1>3, <1>4, <1>5, <1>6, <1>7 DEF Next

LEMMA BeginScans ==
    ASSUME IInv, IInv', pc # "scan", pc' = "scan", Next,
           entry' = [order |-> Order, st |-> status']
    PROVE  ScanInv'
<1>1. /\ newSlot' = currentSlot /\ i' = 0 /\ nextSlot' = nextSlot
      /\ processCant' = processCant
      /\ \A s \in Slot : status'[s] # "FREE" <=> status[s] # "FREE"
  BY BeginFacts
<1>2. currentSlot \in Ring /\ Ring \in SUBSET Slot /\ IsFiniteSet(Ring)
      /\ nextSlot \in [Slot -> Slot] /\ IsOneCycle(Ring, nextSlot)
      /\ processCant = Cardinality(Ring)
  BY SlotFacts DEF IInv, TypeOK, CurrentIsOnRing, RingIsOneCycle, CountIsRingSize
<1>3. Cardinality(Ring) \in Nat \ {0}
      /\ Spells(Walk(nextSlot, currentSlot, Cardinality(Ring)), Cardinality(Ring), Ring,
                nextSlot, currentSlot)
  BY <1>2, WalkAround, Zenon
<1>4. PICK n \in Nat \ {0} : n = processCant BY <1>2, <1>3
<1>5. PICK o : o = Order OBVIOUS
<1>6. Spells(o, n, Ring, nextSlot, currentSlot) BY <1>2, <1>3, <1>4, <1>5 DEF Order
<1>7. /\ o \in [1 .. n -> Ring] /\ \A a, b \in 1 .. n : o[a] = o[b] => a = b
      /\ \A s \in Ring : \E a \in 1 .. n : o[a] = s
      /\ o[n] = currentSlot /\ o[1] = nextSlot[currentSlot]
      /\ \A a \in 1 .. n - 1 : o[a + 1] = nextSlot[o[a]]
  BY <1>6 DEF Spells
<1>8. PICK e \in [Slot -> Status] : e = status' BY DEF IInv, TypeOK
<1>9. \A s \in Slot : e[s] # "FREE" <=> \E a \in 1 .. n : o[a] = s
  BY <1>1, <1>7, <1>8 DEF Ring
<1>10. Gone(o, e, n, 0) = {} BY DEF Gone
<1>11. Gone(o, e, n, i)' = {} BY <1>1, <1>10 DEF Gone
<1>12. Links(o, n, {}, 0, nextSlot)
  <2>. SUFFICES ASSUME NEW a \in 1 .. n, NEW b \in 1 .. n, Follows({}, n, a, b)
                PROVE  nextSlot[o[a]] = o[b]
    BY DEF Links
  <2>1. CASE a < b
    <3>1. b = a + 1
      <4>1. SUFFICES ASSUME b # a + 1 PROVE FALSE OBVIOUS
      <4>2. a + 1 \in 1 .. n /\ a < a + 1 /\ a + 1 < b BY <2>1, <4>1
      <4>. QED BY <2>1, <4>2 DEF Follows
    <3>2. a \in 1 .. n - 1 BY <3>1
    <3>. QED BY <1>7, <3>1, <3>2
  <2>2. CASE b <= a
    <3>1. \A j \in 1 .. n : ~(a < j) /\ ~(j < b) BY <2>2 DEF Follows
    <3>2. a = n /\ b = 1
      <4>1. n \in 1 .. n /\ 1 \in 1 .. n OBVIOUS
      <4>. QED BY <3>1, <4>1
    <3>. QED BY <1>7, <3>2
  <2>. QED BY <2>1, <2>2
<1>13. Cardinality({}) = 0 BY FS_EmptySet
<1>14. /\ entry' = [order |-> o, st |-> e] /\ newSlot' = o[n]
       /\ processCant' = n - Cardinality({}) /\ 0 \in 0 .. n + 1 /\ 0 # n + 1
       /\ \A k \in 1 .. n : ~(k <= 0)
  BY <1>1, <1>4, <1>5, <1>7, <1>8, <1>13
<1>15. Scanning(n, o, e)'
  <2>1. \A s \in Slot : status'[s] = IF \E j \in {} : o[j] = s THEN "FREE" ELSE e[s] BY <1>8
  <2>2. /\ i' \in 0 .. n + 1 /\ i' \notin 1 .. n /\ i' # n + 1
        /\ \A m \in 1 .. n : m <= i' => m \notin Stops(o, e, IdleSlot)
    BY <1>1, <1>14
  <2>3. Links(o, n, {}, i', nextSlot') BY <1>1, <1>12
  <2>. QED BY <1>7, <1>9, <1>11, <1>14, <2>1, <2>2, <2>3 DEF Scanning
<1>16. o \in [1 .. n -> Slot] BY <1>2, <1>7
<1>. QED BY <1>15, <1>16 DEF ScanInv

\* At the end the list and the statuses are what RoundRobin says.
LEMMA ScanComputes ==
    ASSUME IInv, IInv', pc = "scan", NEW n \in Nat \ {0}, NEW o \in [1 .. n -> Slot],
           NEW e \in [Slot -> Status], Scanning(n, o, e),
           NEW k \in 0 .. n, k = IF i < n THEN i ELSE n, Scanned(o, e, IdleSlot) = k,
           NEW w \in Ring, w = Winner(o, e, IdleSlot),
           currentSlot' = w, status' = [status EXCEPT ![w] = "RUNNING"], pc' # "scan",
           nextSlot' = nextSlot, processCant' = processCant
    PROVE  /\ currentSlot' = Winner(o, e, IdleSlot)
           /\ Walk(nextSlot', currentSlot', processCant') = NextOrder(o, e, IdleSlot)
           /\ \A s \in Slot : status'[s] =
                 CASE s = currentSlot' -> "RUNNING"
                   [] s \in ToSet(Reaped(o, e, IdleSlot)) -> "FREE"
                   [] OTHER -> e[s]
<1>1. PICK X : X = Gone(o, e, n, i) OBVIOUS
<1>2. /\ \A s \in Slot : s \in Ring <=> \E a \in 1 .. n : a \notin X /\ o[a] = s
      /\ \A a \in 1 .. n : a \notin X => status[o[a]] = e[o[a]]
      /\ \A a \in X : e[o[a]] = "DEAD" /\ o[a] # IdleSlot /\ status[o[a]] = "FREE"
  BY <1>1, ScanAt
<1>3. /\ i \in Nat /\ X \in SUBSET (1 .. n) /\ n \in Nat
      /\ Links(o, n, X, i, nextSlot)
      /\ \A a, b \in 1 .. n : o[a] = o[b] => a = b
      /\ \A s \in Slot : status[s] = IF \E j \in X : o[j] = s THEN "FREE" ELSE e[s]
  <2>1. i \in Nat BY DEF Scanning
  <2>2. X \in SUBSET (1 .. n) BY <1>1, <2>1, GoneIs
  <2>3. n \in Nat OBVIOUS
  <2>. QED BY <1>1, <2>1, <2>2, <2>3, Zenon DEF Scanning
<1>4. Len(o) = n /\ o \in Seq(Slot) BY LenOf
<1>5. {j \in 1 .. k : IsDead(o[j], e, IdleSlot)} = X
  <2>1. \A j : j \in 1 .. k <=> j \in 1 .. n /\ j <= i BY <1>3
  <2>2. X = {j \in 1 .. n : j <= i /\ IsDead(o[j], e, IdleSlot)} BY <1>1 DEF Gone
  <2>. QED BY <2>1, <2>2
<1>6. Unlinked(o, e, IdleSlot) = {o[j] : j \in X} BY <1>5 DEF Unlinked
<1>7. PICK U : U = Unlinked(o, e, IdleSlot) OBVIOUS
<1>8. \A s \in Slot : s \in U <=> \E j \in X : o[j] = s BY <1>6, <1>7
<1>9. ToSet(Reaped(o, e, IdleSlot)) = U
  <2>1. PICK r : r = Only(o, U) OBVIOUS
  <2>2. Kept(o, U, Slot, n, n, r) BY <1>3, <2>1, OnlyKeeps
  <2>3. PICK m \in Nat : \E g \in [1 .. m -> 1 .. n] : Keeps(o, U, n, r, m, g) BY <2>2 DEF Kept
  <2>4. PICK g \in [1 .. m -> 1 .. n] : r \in Seq(Slot) /\ Keeps(o, U, n, r, m, g)
    BY <2>2, <2>3 DEF Kept
  <2>5. DOMAIN r = 1 .. m BY <2>4, LenProperties DEF Keeps
  <2>6. \A a \in 1 .. m : r[a] \in U BY <2>4 DEF Keeps
  <2>7. ASSUME NEW s \in U PROVE \E a \in 1 .. m : r[a] = s
    <3>1. PICK x \in 1 .. n : o[x] = s BY <1>3, <1>6, <1>7
    <3>2. PICK a \in 1 .. m : g[a] = x BY <2>4, <3>1 DEF Keeps
    <3>3. r[a] = o[x] BY <2>4, <3>2 DEF Keeps
    <3>. QED BY <3>1, <3>3
  <2>8. ToSet(r) = U BY <2>5, <2>6, <2>7 DEF ToSet
  <2>. QED BY <1>7, <2>1, <2>8 DEF Reaped
<1>10. PICK t \in 1 .. n : t \notin X /\ o[t] = w
  <2>1. w \in Slot BY DEF Ring
  <2>. QED BY <1>2, <2>1
<1>11. PICK q : q = [a \in 1 .. n |-> o[Turn(t, n, a)]] OBVIOUS
<1>12. ToSet(o) \ U = Ring
  <2>1. DOMAIN o = 1 .. n OBVIOUS
  <2>2. \A s : s \in ToSet(o) <=> \E a \in 1 .. n : o[a] = s BY <2>1 DEF ToSet
  <2>3. ASSUME NEW s \in Slot PROVE s \in ToSet(o) \ U <=> s \in Ring
    BY <1>2, <1>3, <1>8, <2>2
  <2>4. ToSet(o) \subseteq Slot /\ Ring \subseteq Slot BY <2>2 DEF Ring
  <2>. QED BY <2>3, <2>4
<1>13. NextOrder(o, e, IdleSlot) = Only(q, Ring)
  <2>. DEFINE at == CHOOSE a \in 1 .. Len(o) : o[a] = Winner(o, e, IdleSlot)
              turned == [a \in 1 .. Len(o) |->
                            o[IF a + at <= Len(o) THEN a + at ELSE a + at - Len(o)]]
  <2>1. NextOrder(o, e, IdleSlot) = Only(turned, ToSet(o) \ Unlinked(o, e, IdleSlot))
    BY Zenon DEF NextOrder
  <2>2. at = t
    <3>1. \E a \in 1 .. Len(o) : o[a] = Winner(o, e, IdleSlot) BY <1>4, <1>10
    <3>2. at \in 1 .. Len(o) /\ o[at] = Winner(o, e, IdleSlot) BY <3>1
    <3>. HIDE DEF at
    <3>. QED BY <1>3, <1>4, <1>10, <3>2
  <2>3. turned = q
    <3>. HIDE DEF at
    <3>. QED BY <1>4, <1>11, <2>2 DEF Turn
  <2>. HIDE DEF turned
  <2>. QED BY <1>7, <1>12, <2>1, <2>3
<1>14. PICK r : r = Only(q, Ring) OBVIOUS
<1>15. Kept(q, Ring, Slot, n, n, r)
  <2>1. \A a \in 1 .. n : Turn(t, n, a) \in 1 .. n BY <1>3, TurnIsBijective
  <2>2. q \in [1 .. n -> Slot] BY <1>11, <2>1
  <2>. QED BY <1>3, <1>14, <2>2, OnlyKeeps
<1>16. /\ Ring \in SUBSET Slot /\ IsFiniteSet(Ring) /\ nextSlot \in [Slot -> Slot]
       /\ IsOneCycle(Ring, nextSlot) /\ processCant = Cardinality(Ring)
  BY SlotFacts DEF IInv, TypeOK, RingIsOneCycle, CountIsRingSize
<1>17. Spells(r, Cardinality(Ring), Ring, nextSlot, w)
  <2>1. PICK R \in SUBSET Slot : R = Ring BY <1>16
  <2>2. PICK f : f = nextSlot OBVIOUS
  <2>3. /\ \A s \in Slot : s \in R <=> \E a \in 1 .. n : a \notin X /\ o[a] = s
        /\ IsFiniteSet(R) /\ Links(o, n, X, i, f) /\ Kept(q, R, Slot, n, n, r)
    BY <1>2, <1>3, <1>15, <1>16, <2>1, <2>2
  <2>4. \A a, b \in 1 .. n : o[a] = o[b] => a = b BY <1>3
  <2>5. Spells(r, Cardinality(R), R, f, o[t])
    <3>1. /\ n \in Nat /\ o \in [1 .. n -> Slot] /\ R \in SUBSET Slot /\ t \in 1 .. n
          /\ t \notin X /\ q = [a \in 1 .. n |-> o[Turn(t, n, a)]]
      BY <1>10, <1>11
    <3>. QED BY <2>3, <2>4, <3>1, TurnedSpells, Zenon
  <2>. QED BY <1>10, <2>1, <2>2, <2>5
<1>18. Cardinality(Ring) \in Nat
       /\ Spells(Walk(nextSlot, w, Cardinality(Ring)), Cardinality(Ring), Ring, nextSlot, w)
  <2>1. w \in Ring OBVIOUS
  <2>2. /\ Cardinality(Ring) \in Nat \ {0}
        /\ Spells(Walk(nextSlot, w, Cardinality(Ring)), Cardinality(Ring), Ring, nextSlot, w)
    BY <1>16, <2>1, WalkAround, Zenon
  <2>. QED BY <2>2
<1>19. Walk(nextSlot, w, Cardinality(Ring)) = r
  BY <1>17, <1>18, OneSpelling, Zenon
<1>20. Walk(nextSlot', currentSlot', processCant') = NextOrder(o, e, IdleSlot)
  BY <1>13, <1>14, <1>16, <1>19, Zenon
<1>21. ASSUME NEW s \in Slot
       PROVE  status'[s] = CASE s = w -> "RUNNING"
                             [] s \in U -> "FREE"
                             [] OTHER -> e[s]
  <2>1. status \in [Slot -> Status] BY DEF IInv, TypeOK
  <2>2. w \notin U
    <3>1. SUFFICES ASSUME w \in U PROVE FALSE OBVIOUS
    <3>2. PICK j \in X : o[j] = w BY <1>6, <1>7, <3>1
    <3>. QED BY <1>3, <1>10, <3>2
  <2>3. CASE s = w BY <2>1, <2>2, <2>3
  <2>4. CASE s # w
    <3>1. status'[s] = status[s] BY <2>1, <2>4
    <3>. QED BY <1>3, <1>8, <2>4, <3>1
  <2>. QED BY <2>3, <2>4
<1>. QED BY <1>9, <1>20, <1>21

Computes(o, e) ==
    /\ currentSlot' = Winner(o, e, IdleSlot)
    /\ Walk(nextSlot', currentSlot', processCant') = NextOrder(o, e, IdleSlot)
    /\ \A s \in Slot : status'[s] =
          CASE s = currentSlot' -> "RUNNING"
            [] s \in ToSet(Reaped(o, e, IdleSlot)) -> "FREE"
            [] OTHER -> e[s]

LEMMA EndComputes ==
    ASSUME IInv, IInv', ScanInv, ScanPick \/ ScanGiveUp
    PROVE  Computes(entry.order, entry.st)
<1>1. pc = "scan" /\ pc' # "scan" BY DEF ScanPick, ScanGiveUp, Dispatch
<1>2. PICK n \in Nat \ {0} : \E o \in [1 .. n -> Slot] : \E e \in [Slot -> Status] :
          Scanning(n, o, e)
  BY <1>1 DEF ScanInv
<1>3. PICK o \in [1 .. n -> Slot], e \in [Slot -> Status] : Scanning(n, o, e) BY <1>2
<1>4. entry.order = o /\ entry.st = e BY <1>3 DEF Scanning
<1>5. PICK X : X = Gone(o, e, n, i) OBVIOUS
<1>6. /\ \A s \in Slot : s \in Ring <=> \E a \in 1 .. n : a \notin X /\ o[a] = s
      /\ \A a \in 1 .. n : a \notin X => status[o[a]] = e[o[a]]
      /\ i < n => next = o[i + 1] /\ i + 1 \notin X /\ i + 1 \in 1 .. n
      /\ next \in Ring
  BY <1>1, <1>3, <1>5, ScanAt
<1>7. /\ i \in Nat /\ n \in Nat /\ processCant = n - Cardinality(X)
      /\ \A m \in 1 .. n : m <= i => m \notin Stops(o, e, IdleSlot)
  BY <1>3, <1>5 DEF Scanning
<1>8. PICK w : w = IF ScanPick THEN next ELSE IdleSlot OBVIOUS
<1>9. /\ currentSlot' = w /\ status' = [status EXCEPT ![w] = "RUNNING"]
      /\ nextSlot' = nextSlot /\ processCant' = processCant
  BY <1>8 DEF ScanPick, ScanGiveUp, Dispatch
<1>10. w \in Ring BY <1>6, <1>8 DEF IInv, CurrentIsOnRing
<1>11. PICK k \in 0 .. n : k = IF i < n THEN i ELSE n BY <1>7
<1>12. Scanned(o, e, IdleSlot) = k /\ w = Winner(o, e, IdleSlot)
  <2>1. CASE i < n
    <3>1. next = o[i + 1] /\ status[next] = e[o[i + 1]] BY <1>6, <2>1
    <3>2. i + 1 \in Stops(o, e, IdleSlot) <=>
               /\ o[i + 1] # IdleSlot
               /\ \/ e[o[i + 1]] = "READY"
                  \/ /\ e[o[i + 1]] \notin {"READY", "DEAD"}
                     /\ i + 1 > n - Cardinality(X)
      BY <1>3, <1>5, <1>7, <2>1, StopsAt
    <3>3. i + 1 \in Stops(o, e, IdleSlot)
      <4>1. CASE ScanPick BY <3>1, <3>2, <4>1 DEF ScanPick
      <4>2. CASE ScanGiveUp
        BY <1>7, <3>1, <3>2, <4>2 DEF ScanGiveUp, ScanOther, SeenAll
      <4>. QED BY <4>1, <4>2
    <3>4. /\ Scanned(o, e, IdleSlot) = i
          /\ Winner(o, e, IdleSlot) = IF Picks(o[i + 1], e, IdleSlot) THEN o[i + 1] ELSE IdleSlot
      BY <1>7, <2>1, <3>3, ScannedIs
    <3>5. ScanPick <=> Picks(o[i + 1], e, IdleSlot)
      BY <3>1 DEF ScanPick, ScanGiveUp, ScanOther, Picks
    <3>. QED BY <1>8, <1>11, <2>1, <3>1, <3>4, <3>5
  <2>2. CASE i >= n
    <3>1. Scanned(o, e, IdleSlot) = n /\ Winner(o, e, IdleSlot) = IdleSlot
      BY <1>7, <2>2, ScannedIs
    <3>2. ~ScanPick
      <4>1. SUFFICES ASSUME ScanPick PROVE FALSE OBVIOUS
      <4>2. next \in Slot BY <1>6 DEF Ring
      <4>3. PICK b \in 1 .. n : b \notin X /\ o[b] = next BY <1>6, <4>2
      <4>4. Picks(o[b], e, IdleSlot) BY <1>6, <4>1, <4>3 DEF ScanPick, Picks
      <4>5. Len(o) = n BY LenOf
      <4>6. b \in Stops(o, e, IdleSlot) BY <4>4, <4>5 DEF Stops
      <4>7. b <= i BY <1>7, <2>2
      <4>. QED BY <1>7, <4>6, <4>7
    <3>. QED BY <1>7, <1>8, <1>11, <2>2, <3>1, <3>2
  <2>. QED BY <1>7, <2>1, <2>2
<1>13. Computes(o, e)
  BY <1>1, <1>3, <1>9, <1>10, <1>11, <1>12, ScanComputes DEF Computes
<1>. QED BY <1>4, <1>13

LEMMA ScanInvKept == IInv /\ IInv' /\ ScanInv /\ [MCNext]_<<vars, entry>> => ScanInv'
<1>. SUFFICES ASSUME IInv, IInv', ScanInv, [MCNext]_<<vars, entry>> PROVE ScanInv'
  OBVIOUS
<1>1. CASE UNCHANGED <<vars, entry>>
  <2>1. /\ status' = status /\ nextSlot' = nextSlot /\ processCant' = processCant /\ pc' = pc
        /\ newSlot' = newSlot /\ i' = i /\ entry' = entry
    BY <1>1 DEF vars, table, scan
  <2>2. \A n, o, e : Scanning(n, o, e) => Scanning(n, o, e)'
    <3>. SUFFICES ASSUME NEW n, NEW o, NEW e, Scanning(n, o, e) PROVE Scanning(n, o, e)' OBVIOUS
    <3>1. Gone(o, e, n, i)' = Gone(o, e, n, i) BY <2>1, Zenon DEF Gone
    <3>. QED BY <2>1, <3>1 DEF Scanning
  <2>. QED BY <2>1, <2>2, Zenon DEF ScanInv
<1>2. CASE MCNext /\ pc' # "scan" BY <1>2 DEF ScanInv
<1>3. CASE MCNext /\ pc # "scan" /\ pc' = "scan"
  <2>1. Next /\ entry' = [order |-> Order, st |-> status'] BY <1>3 DEF MCNext
  <2>. QED BY <1>3, <2>1, BeginScans
<1>4. CASE MCNext /\ pc = "scan" /\ pc' = "scan"
  <2>1. Next /\ entry' = entry BY <1>4 DEF MCNext
  <2>2. ScanSkipIdle \/ ScanNext \/ ScanReap
    BY <1>4, <2>1 DEF Next, Timer, Yield, Block, Create, Exit, Kill, Wake, Sleep, Caller,
                      schedSchedule, ScanPick, ScanGiveUp, Dispatch
  <2>3. PICK n \in Nat \ {0} : \E o \in [1 .. n -> Slot] : \E e \in [Slot -> Status] :
            Scanning(n, o, e)
    BY <1>4 DEF ScanInv
  <2>4. PICK o \in [1 .. n -> Slot], e \in [Slot -> Status] : Scanning(n, o, e) BY <2>3
  <2>5. Scanning(n, o, e)' BY <1>4, <2>1, <2>2, <2>4, AdvanceScans, ReapScans
  <2>. QED BY <2>5 DEF ScanInv
<1>. QED BY <1>1, <1>2, <1>3, <1>4

LEMMA MCInvariance == MCSpec => [](IInv /\ ScanInv)
<1>1. MCInit => IInv /\ ScanInv BY InitIInv DEF MCInit, Init, ScanInv
<1>2. IInv /\ [MCNext]_<<vars, entry>> => IInv' BY NextIInv DEF MCNext
<1>. QED BY <1>1, <1>2, ScanInvKept, PTL DEF MCSpec

\* Outside the scan a walk along nextSlot from behind the current slot (schedTicks,
\* findSlot) meets every slot in use once and ends at the current one.
THEOREM WalksCorrect == MCSpec => []WalkMeetsEverySlot
<1>1. IInv => WalkMeetsEverySlot
  <2>. SUFFICES ASSUME IInv, pc # "scan" PROVE ToSet(Order) = Ring /\ Last(Order) = currentSlot
    BY DEF WalkMeetsEverySlot
  <2>1. currentSlot \in Ring /\ Ring \in SUBSET Slot /\ IsFiniteSet(Ring)
        /\ nextSlot \in [Slot -> Slot] /\ IsOneCycle(Ring, nextSlot)
        /\ processCant = Cardinality(Ring)
    BY SlotFacts DEF IInv, TypeOK, CurrentIsOnRing, RingIsOneCycle, CountIsRingSize
  <2>2. Cardinality(Ring) \in Nat \ {0}
        /\ Spells(Walk(nextSlot, currentSlot, Cardinality(Ring)), Cardinality(Ring), Ring,
                  nextSlot, currentSlot)
    BY <2>1, WalkAround, Zenon
  <2>3. PICK n \in Nat : n = processCant BY <2>1, <2>2
  <2>4. PICK o : o = Order OBVIOUS
  <2>5. Spells(o, n, Ring, nextSlot, currentSlot) BY <2>1, <2>2, <2>3, <2>4 DEF Order
  <2>6. /\ o \in [1 .. n -> Ring] /\ \A s \in Ring : \E a \in 1 .. n : o[a] = s
        /\ o[n] = currentSlot
    BY <2>5 DEF Spells
  <2>7. Len(o) = n BY <2>6, LenOf
  <2>8. ToSet(o) = Ring BY <2>6 DEF ToSet
  <2>. QED BY <2>4, <2>6, <2>7, <2>8 DEF Last
<1>. QED BY <1>1, MCInvariance, PTL

\* The loop of schedSchedule, which follows and changes nextSlot as it goes, gives
\* the processor to whom RoundRobin says, and leaves the list and statuses it says.
THEOREM ScanCorrect == MCSpec => ScanIsRoundRobin
<1>1. IInv /\ IInv' /\ ScanInv /\ [MCNext]_<<vars, entry>> =>
        [pc = "scan" /\ pc' # "scan" => Computes(entry.order, entry.st)]_<<vars, entry>>
  <2>. SUFFICES ASSUME IInv, IInv', ScanInv, MCNext, pc = "scan", pc' # "scan"
                PROVE  Computes(entry.order, entry.st)
    OBVIOUS
  <2>1. ScanPick \/ ScanGiveUp
    BY DEF MCNext, Next, Timer, Yield, Block, Create, Exit, Kill, Wake, Sleep, Caller,
           schedSchedule, ScanSkipIdle, ScanNext, ScanReap
  <2>. QED BY <2>1, EndComputes
<1>2. (pc = "scan" /\ pc' # "scan" => Computes(entry.order, entry.st)) <=>
      (pc = "scan" /\ pc' # "scan" =>
        /\ currentSlot' = Winner(entry.order, entry.st, IdleSlot)
        /\ Walk(nextSlot', currentSlot', processCant')
              = NextOrder(entry.order, entry.st, IdleSlot)
        /\ \A s \in Slot : status'[s] =
              CASE s = currentSlot' -> "RUNNING"
                [] s \in ToSet(Reaped(entry.order, entry.st, IdleSlot)) -> "FREE"
                [] OTHER -> entry.st[s])
  BY Zenon DEF Computes
<1>. QED BY <1>1, <1>2, MCInvariance, PTL DEF MCSpec, ScanIsRoundRobin
=============================================================================
