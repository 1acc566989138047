----------------------------- MODULE Semaphore -----------------------------
(***************************************************************************)
(* One semaphore of semaphore.c: a counter and a circular array of the     *)
(* pids asleep on it, of which one place stays empty.                      *)
(*                                                                         *)
(* semDec looks whether the array is full before it disables interrupts:   *)
(* the actions Test and Dec.  sysread calls it with interrupts enabled, so *)
(* that anything may happen in between; waitpid has them disabled.  The    *)
(* other operations are not interrupted.  Processes that are asleep, or    *)
(* preempted after the test, may be killed; their pids stay in the array.  *)
(* A pid is never used again: who left the scheduler's list stays GONE.    *)
(***************************************************************************)
EXTENDS Integers, FiniteSets

CONSTANTS Proc,      \* the pids that use the semaphore
          NoPid,     \* what an unused place holds
          MaxPids,   \* MAX_PIDS (10)
          InterruptsOff,   \* TRUE: the callers of semDec have disabled them
          MaxValue   \* bound: wakes counted

ASSUME MaxPidsAssumption == MaxPids \in Nat /\ MaxPids >= 2
ASSUME InterruptsOffAssumption == InterruptsOff \in BOOLEAN
ASSUME MaxValueAssumption == MaxValue \in Nat
ASSUME ProcAssumption == IsFiniteSet(Proc) /\ NoPid \notin Proc

VARIABLES value, pids, first, last,   \* the semaphore
          status,   \* sched.c's status; GONE: no longer on its list
          pc,       \* "user", "tested" (semDec has seen a free place), "asleep"
          balance   \* history: calls of semInc less wakes used up

sem == <<value, pids, first, last>>
vars == <<sem, status, pc, balance>>

Place == 0 .. MaxPids - 1

Init ==
    /\ value = 0
    /\ pids = [x \in Place |-> NoPid]
    /\ first = 0 /\ last = 0
    /\ status = [p \in Proc |-> "READY"]
    /\ pc = [p \in Proc |-> "user"]
    /\ balance = 0

-----------------------------------------------------------------------------
\* mutation: the index is not taken around the end of the array.
Succ_NoWrap(x) == x + 1

Succ(x) == IF x = MaxPids - 1 THEN 0 ELSE x + 1

isEmpty == first = last
\* mutation: the last place is used too, and full looks like empty.
isFull_LastPlace == FALSE

isFull == Succ(last) = first

\* The places from f up to l, around the end of the array.
Window(f, l) == IF f <= l THEN f .. l - 1 ELSE (f .. MaxPids - 1) \union (0 .. l - 1)
Occupied == Window(first, last)
Queued == {pids[x] : x \in Occupied}

\* Nothing happens between Test and Dec with interrupts disabled.
Interruptible == InterruptsOff => \A p \in Proc : pc[p] # "tested"

\* semDec up to disableInts: with a full array it returns 0.
Test(p) ==
    /\ Interruptible
    /\ status[p] = "READY" /\ pc[p] = "user"
    /\ ~isFull
    /\ pc' = [pc EXCEPT ![p] = "tested"]
    /\ UNCHANGED <<sem, status, balance>>

addPid(p) ==
    /\ pids' = [pids EXCEPT ![last] = p]
    /\ last' = Succ(last)

\* mutation: with the wakes at 0 the process goes on.
Sleep_Passes(p) ==
    /\ value <= 0
    /\ pc' = [pc EXCEPT ![p] = "user"]
    /\ balance' = balance - 1
    /\ UNCHANGED <<sem, status>>

Sleep(p) ==
    /\ value <= 0
    /\ addPid(p)
    /\ status' = [status EXCEPT ![p] = "BLOCKED"]
    /\ pc' = [pc EXCEPT ![p] = "asleep"]
    /\ UNCHANGED <<value, first, balance>>

Take(p) ==
    /\ value > 0
    /\ value' = value - 1
    /\ pc' = [pc EXCEPT ![p] = "user"]
    /\ balance' = balance - 1
    /\ UNCHANGED <<pids, first, last, status>>

\* The rest of semDec.
Dec(p) == status[p] = "READY" /\ pc[p] = "tested" /\ (Sleep(p) \/ Take(p))

\* A process woken returns from semDec.
Return(p) ==
    /\ Interruptible
    /\ status[p] = "READY" /\ pc[p] = "asleep"
    /\ pc' = [pc EXCEPT ![p] = "user"]
    /\ balance' = balance - 1
    /\ UNCHANGED <<sem, status>>

\* semInc: getPid until schedChangeStatus finds the pid on its list, at place
\* x, whatever its status there is; with nobody left the wake is counted.
Listed(x) == status[pids[x]] # "GONE"

\* mutation: the pid that came last is woken first.
WakeAt_Last(x) ==
    /\ x \in Occupied
    /\ Listed(x)
    /\ Succ(x) = last
    /\ status' = [status EXCEPT ![pids[x]] = "READY"]
    /\ first' = first
    /\ UNCHANGED value

\* mutation: the pid stays in the array.
WakeAt_NotRemoved(x) ==
    /\ x \in Occupied
    /\ Listed(x)
    /\ \A y \in Window(first, x) : ~Listed(y)
    /\ status' = [status EXCEPT ![pids[x]] = "READY"]
    /\ UNCHANGED <<first, value>>

WakeAt(x) ==
    /\ x \in Occupied
    /\ Listed(x)
    /\ \A y \in Window(first, x) : ~Listed(y)
    /\ status' = [status EXCEPT ![pids[x]] = "READY"]
    /\ first' = Succ(x)
    /\ UNCHANGED value

\* mutation: a wake is counted whoever sleeps.
Count_Always ==
    /\ value' = value + 1
    /\ UNCHANGED <<first, status>>

Count ==
    /\ \A y \in Occupied : ~Listed(y)
    /\ first' = last
    /\ value' = value + 1
    /\ UNCHANGED status

semInc ==
    /\ Interruptible
    /\ value < MaxValue
    /\ Count \/ \E x \in Place : WakeAt(x)
    /\ balance' = balance + 1
    /\ UNCHANGED <<pids, last, pc>>

semConsume ==
    /\ Interruptible
    /\ value > 0
    /\ value' = value - 1
    /\ balance' = balance - 1
    /\ UNCHANGED <<pids, first, last, status, pc>>

\* schedRemove, and the scheduler that takes the dead off its list.
Kill(p) ==
    /\ Interruptible
    /\ status[p] \in {"READY", "BLOCKED"}
    /\ status' = [status EXCEPT ![p] = "DEAD"]
    /\ UNCHANGED <<sem, pc, balance>>

Reap(p) ==
    /\ Interruptible
    /\ status[p] = "DEAD"
    /\ status' = [status EXCEPT ![p] = "GONE"]
    /\ UNCHANGED <<sem, pc, balance>>

-----------------------------------------------------------------------------
Next ==
    \/ \E p \in Proc : Test(p) \/ Dec(p) \/ Return(p) \/ Kill(p) \/ Reap(p)
    \/ semInc
    \/ semConsume

Spec == Init /\ [][Next]_vars

-----------------------------------------------------------------------------
\* The indices of the array stay inside it and its places hold pids.
TypeOK ==
    /\ value \in Nat
    /\ pids \in [Place -> Proc \union {NoPid}]
    /\ first \in Place /\ last \in Place
    /\ status \in [Proc -> {"READY", "BLOCKED", "DEAD", "GONE"}]
    /\ pc \in [Proc -> {"user", "tested", "asleep"}]
    /\ balance \in Int

\* Nobody sleeps while wakes are counted: no wake is stored that a process
\* already asleep needed.
NoWakeMissed == value > 0 => isEmpty

\* Who sleeps can be woken: its pid is in the array, or the wake came and the
\* process only has to run.
SleepersQueued ==
    \A p \in Proc : status[p] = "BLOCKED" => p \in Queued

\* A pid is in the array once.
QueuedOnce ==
    \A x, y \in Occupied : pids[x] = pids[y] => x = y

\* No more calls of semDec return than semInc was called (and the wake not
\* consumed): what is counted and who was woken is covered by calls.
NobodyPassesFree ==
    balance >= value + Cardinality({p \in Proc : pc[p] = "asleep" /\ status[p] = "READY"})

-----------------------------------------------------------------------------
\* The sequence of pids the array holds, and the promise of semaphore.h.
Length == IF first <= last THEN last - first ELSE last - first + MaxPids
At(k) == IF first + k < MaxPids THEN first + k ELSE first + k - MaxPids
Queue == [k \in 1 .. Length |-> pids[At(k - 1)]]

Abstract == INSTANCE SemaphoreFifo WITH queue <- Queue
Fifo == Abstract!FifoSpec
=============================================================================
