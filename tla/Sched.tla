------------------------------- MODULE Sched -------------------------------
(***************************************************************************)
(* The round-robin scheduler, sched.c: a table of MAX_PROCESS slots whose  *)
(* used entries form a circular list through nextSlot.  The scan of        *)
(* schedSchedule is one action per iteration; it runs inside an interrupt  *)
(* handler with interrupts disabled (pc = "scan"), so nothing interleaves  *)
(* with it.  Every other operation is one action: its callers disable      *)
(* interrupts around it.                                                   *)
(*                                                                         *)
(* The callers (process.c, semaphore.c, the system calls) are present only *)
(* through the calls they make: Create, Kill, Exit, Block, Wake, Sleep.    *)
(* A process is named by its slot: a pid is in at most one slot, so        *)
(* findSlot(pid) gives the slot or nothing.                                *)
(***************************************************************************)
EXTENDS Integers, FiniteSets

CONSTANTS MaxProcess,   \* MAX_PROCESS, the slots of the table (71 in the code)
          MaxCreated,   \* bound: the processes created after INIT and IDLE
          SleepMs       \* the arguments processes pass to sleep()

ASSUME MaxProcessAssumption == MaxProcess \in Nat /\ MaxProcess >= 2
ASSUME MaxCreatedAssumption == MaxCreated \in Nat
ASSUME SleepMsAssumption == SleepMs \subseteq Nat

VARIABLES status, waitingTicks, nextSlot,    \* sched[MAX_PROCESS]
          currentSlot, processCant,
          pc,          \* "user", "yield" (a system call about to yield) or "scan"
          newSlot, i,  \* the locals of schedSchedule; oldSlot is currentSlot
          reaped,      \* history: slots the scan in progress has unlinked
          created,     \* the calls of procCreate so far
          asleep       \* the slots whose pid sits in a semaphore's queue

table == <<status, waitingTicks, nextSlot>>
scan == <<newSlot, i, reaped>>
callers == <<created, asleep>>
vars == <<table, currentSlot, processCant, pc, scan, callers>>

Slot == 0 .. MaxProcess - 1
InitSlot == 0         \* INIT_PROCESS
IdleSlot == 1         \* idle_slot, set by procSetup
Status == {"WAITING", "BLOCKED", "READY", "RUNNING", "DEAD", "FREE"}

\* The slots on the circular list.  The code reaches them by following
\* nextSlot from the current one; RingIsOneCycle says that this is the same.
Ring == {s \in Slot : status[s] # "FREE"}

-----------------------------------------------------------------------------
\* procSetup: INIT runs in slot 0 and has inserted IDLE after itself.
Init ==
    /\ status = [s \in Slot |-> IF s = InitSlot THEN "RUNNING"
                                ELSE IF s = IdleSlot THEN "READY" ELSE "FREE"]
    /\ waitingTicks = [s \in Slot |-> 0]
    /\ nextSlot = [s \in Slot |-> IF s = InitSlot THEN IdleSlot ELSE InitSlot]
    /\ currentSlot = InitSlot
    /\ processCant = 2
    /\ pc = "user"
    /\ newSlot = InitSlot /\ i = 0 /\ reaped = 0
    /\ created = 0
    /\ asleep = {}

-----------------------------------------------------------------------------
\* Sleeping slots after one tick of the clock: the last tick makes them READY.
schedTicks ==
    [s \in Slot |-> IF status[s] = "WAITING" /\ waitingTicks[s] = 1
                    THEN "READY" ELSE status[s]]

\* The scan starts behind the current slot.
FirstSlot_FromInit == InitSlot      \* mutation: always behind INIT
FirstSlot == currentSlot

\* Entry of schedSchedule in the state whose statuses are st.
StartScan(st) ==
    /\ status' = IF st[currentSlot] = "RUNNING"
                 THEN [st EXCEPT ![currentSlot] = "READY"] ELSE st
    /\ pc' = "scan"
    /\ newSlot' = FirstSlot
    /\ i' = 0
    /\ reaped' = 0
    /\ UNCHANGED <<nextSlot, currentSlot, processCant, created>>

\* mutation: the interrupt handler forgets schedTicks
Timer_NoTicks ==
    /\ pc # "scan"
    /\ StartScan(status)
    /\ UNCHANGED <<waitingTicks, asleep>>

\* int 08: the timer interrupt, taken whenever interrupts are enabled.
Timer ==
    /\ pc # "scan"
    /\ waitingTicks' = [s \in Slot |-> IF status[s] = "WAITING"
                                       THEN waitingTicks[s] - 1
                                       ELSE waitingTicks[s]]
    /\ StartScan(schedTicks)
    /\ UNCHANGED asleep

\* int 7F: the running process gives the processor up.  IDLE only halts.
Yield ==
    /\ pc # "scan"
    /\ currentSlot # IdleSlot
    /\ StartScan(status)
    /\ UNCHANGED <<waitingTicks, asleep>>

\* The loop stops at slot s, which runs from now on; the locals are gone.
Dispatch(s) ==
    /\ currentSlot' = s
    /\ status' = [status EXCEPT ![s] = "RUNNING"]
    /\ pc' = "user"
    /\ newSlot' = InitSlot /\ i' = 0 /\ reaped' = 0

next == nextSlot[newSlot]

Advance == newSlot' = next /\ i' = i + 1

\* mutation: the loop forgets to step
ScanSkipIdle_Stuck == pc = "scan" /\ next = IdleSlot /\ UNCHANGED vars

\* The loop steps over the idle process without any other test.
ScanSkipIdle ==
    /\ pc = "scan"
    /\ next = IdleSlot
    /\ Advance
    /\ UNCHANGED <<table, currentSlot, processCant, pc, reaped, callers>>

ScanPick ==
    /\ pc = "scan"
    /\ next # IdleSlot /\ status[next] = "READY"
    /\ Dispatch(next)
    /\ UNCHANGED <<waitingTicks, nextSlot, processCant, callers>>

findPrevSlot(slot) == CHOOSE s \in Ring : nextSlot[s] = slot

\* A dead process is taken off the list and its slot freed.  A pid still in
\* a semaphore's queue is not found any more: schedChangeStatus returns 0.
ScanReap ==
    /\ pc = "scan"
    /\ next # IdleSlot /\ status[next] = "DEAD"
    /\ Advance
    /\ nextSlot' = [nextSlot EXCEPT ![findPrevSlot(next)] = nextSlot[next]]
    /\ status' = [status EXCEPT ![next] = "FREE"]
    /\ processCant' = processCant - 1
    /\ reaped' = reaped + 1
    /\ asleep' = asleep \ {next}
    /\ UNCHANGED <<waitingTicks, currentSlot, pc, created>>

\* A slot that can neither run nor be reaped: the only place where the number
\* of iterations is compared with the number of processes.
ScanOther(s) == s # IdleSlot /\ status[s] \notin {"READY", "DEAD"}
SeenAll_OneEarly == i + 1 >= processCant \* mutation: off by one
SeenAll == i + 1 > processCant

ScanNext ==
    /\ pc = "scan"
    /\ ScanOther(next) /\ ~SeenAll
    /\ Advance
    /\ UNCHANGED <<table, currentSlot, processCant, pc, reaped, callers>>

ScanGiveUp ==
    /\ pc = "scan"
    /\ ScanOther(next) /\ SeenAll
    /\ Dispatch(IdleSlot)
    /\ UNCHANGED <<waitingTicks, nextSlot, processCant, callers>>

schedSchedule == ScanSkipIdle \/ ScanPick \/ ScanReap \/ ScanNext \/ ScanGiveUp

-----------------------------------------------------------------------------
\* The running process is in user code and makes a system call.
Caller == pc = "user" /\ currentSlot # IdleSlot

FreeSlots_OrDead ==                     \* mutation: reuses a slot on the list
    {s \in Slot : status[s] \in {"FREE", "DEAD"}}
FreeSlots == {s \in Slot : status[s] = "FREE"}
getFreeSlot == CHOOSE s \in FreeSlots : \A t \in FreeSlots : s <= t

\* Slot n goes on the list behind slot c.
LinkAfter_Swapped(c, n) ==              \* mutation: the assignments swapped
    [nextSlot EXCEPT ![c] = n, ![n] = n]
LinkAfter(c, n) == [nextSlot EXCEPT ![n] = nextSlot[c], ![c] = n]

\* procCreate's last two calls: schedAdd inserts the slot after the current
\* one, schedContinue makes it READY.
Create ==
    /\ Caller
    /\ created < MaxCreated
    /\ created' = created + 1
    /\ IF FreeSlots = {}
       THEN UNCHANGED <<table, processCant>>
       ELSE /\ nextSlot' = LinkAfter(currentSlot, getFreeSlot)
            /\ status' = [status EXCEPT ![getFreeSlot] = "READY"]
            /\ processCant' = processCant + 1
            /\ UNCHANGED waitingTicks
    /\ UNCHANGED <<currentSlot, pc, scan, asleep>>

\* procKill refuses INIT and IDLE; a process may kill itself and goes on
\* running until the next tick.
schedRemove_Any(s) ==                   \* mutation: nobody is refused
    /\ s \in Ring
    /\ status' = [status EXCEPT ![s] = "DEAD"]

schedRemove(s) ==
    /\ s \in Ring \ {InitSlot, IdleSlot}
    /\ status' = [status EXCEPT ![s] = "DEAD"]

Kill(s) ==
    /\ Caller
    /\ schedRemove(s)
    /\ UNCHANGED <<waitingTicks, nextSlot, currentSlot, processCant, pc,
                   scan, callers>>

\* sysfExit: procEnd removes the caller, then the system call yields.
Exit ==
    /\ Caller
    /\ schedRemove(currentSlot)
    /\ pc' = "yield"
    /\ UNCHANGED <<waitingTicks, nextSlot, currentSlot, processCant, scan,
                   callers>>

\* schedSleep: the number of ticks, in the integer division of the code.
TicksOf_Floor(ms) == (182 * ((ms + 1) \div 1000)) \div 10   \* mutation: no + 1
TicksOf(ms) == (182 * ((ms + 1) \div 1000)) \div 10 + 1

Sleep(ms) ==
    /\ Caller
    /\ IF ms > 0
       THEN /\ status' = [status EXCEPT ![currentSlot] = "WAITING"]
            /\ waitingTicks' = [waitingTicks EXCEPT ![currentSlot] = TicksOf(ms)]
       ELSE UNCHANGED <<status, waitingTicks>>
    /\ pc' = "yield"
    /\ UNCHANGED <<nextSlot, currentSlot, processCant, scan, callers>>

\* semDec on a semaphore at 0: BLOCKED and yield with interrupts disabled.
\* INIT waits with O_NOWAIT and never blocks.
Block ==
    /\ Caller
    /\ currentSlot # InitSlot
    /\ asleep' = asleep \union {currentSlot}
    /\ StartScan([status EXCEPT ![currentSlot] = "BLOCKED"])
    /\ UNCHANGED waitingTicks

\* semInc, from the running process or from an interrupt handler: the slot
\* becomes READY whatever its status is.
Wake(s) ==
    /\ pc # "scan"
    /\ s \in asleep
    /\ asleep' = asleep \ {s}
    /\ status' = [status EXCEPT ![s] = "READY"]
    /\ UNCHANGED <<waitingTicks, nextSlot, currentSlot, processCant, pc,
                   scan, created>>

-----------------------------------------------------------------------------
Next ==
    \/ Timer
    \/ Yield
    \/ schedSchedule
    \/ Create
    \/ Exit
    \/ Block
    \/ \E s \in Slot : Kill(s) \/ Wake(s)
    \/ \E ms \in SleepMs : Sleep(ms)

Spec == Init /\ [][Next]_vars

\* The loop of schedSchedule runs to its end, and a pending timer interrupt
\* is taken once interrupts are enabled: the interrupt controller keeps it.
Fairness == WF_vars(schedSchedule) /\ SF_vars(Timer)

FairSpec == Spec /\ Fairness

-----------------------------------------------------------------------------
\* The table, the current slot and the locals of the scan keep their types; the
\* indices stay inside sched[MAX_PROCESS].
TypeOK ==
    /\ status \in [Slot -> Status]
    /\ waitingTicks \in [Slot -> Nat]
    /\ nextSlot \in [Slot -> Slot]
    /\ currentSlot \in Slot
    /\ processCant \in Nat
    /\ pc \in {"user", "yield", "scan"}
    /\ newSlot \in Slot /\ i \in Nat /\ reaped \in Nat
    /\ created \in Nat
    /\ asleep \subseteq Slot

\* f links the elements of R in one cycle: a nonempty part of R that f does
\* not leave is all of R.
IsOneCycle(R, f) ==
    /\ \A s \in R : f[s] \in R
    /\ \A s, t \in R : f[s] = f[t] => s = t
    /\ \A S \in SUBSET R : S # {} /\ (\A s \in S : f[s] \in S) => S = R

\* The list is one cycle through exactly the slots in use, whatever was
\* inserted, unlinked or resurrected: every walk from the current slot
\* (schedTicks, findSlot, schedSchedule) meets all of them and comes back.
RingIsOneCycle == IsOneCycle(Ring, nextSlot)

\* processCant, which decides when the scan gives up, is the length of the list.
CountIsRingSize == processCant = Cardinality(Ring)

\* Outside the scan the current slot is on the list and no other is RUNNING;
\* INIT and IDLE can always be reached and are never dead.
CurrentIsOnRing ==
    /\ {InitSlot, IdleSlot} \subseteq Ring
    /\ status[InitSlot] # "DEAD"
    /\ status[IdleSlot] \in {"READY", "RUNNING"}
    /\ pc # "scan" => currentSlot \in Ring
    /\ \A s \in Slot : status[s] = "RUNNING" => s = currentSlot /\ pc # "scan"

\* A sleeping process has ticks left: at 0 the decrement of schedTicks would
\* go negative and it would sleep (almost) for ever, the case the comment
\* of sysfSleep fears (sys.c).
SleepersHaveTicks ==
    \A s \in Slot : status[s] = "WAITING" => waitingTicks[s] >= 1

\* What the comment of schedSchedule says of the IDLE process: it runs only
\* when nobody on the list is ready.  It is so when the scan has unlinked at
\* most one dead process; with two it gives up too early.
IdleOnlyWhenNobodyReadyIfFewDied ==
    [][ScanGiveUp /\ reaped <= 1
          => \A s \in Ring \ {IdleSlot} : status[s] # "READY"]_vars

\* A process that is ready gets the processor, or is killed, in spite of the
\* processes inserted in front of it.
ReadyRuns ==
    \A s \in Slot \ {IdleSlot} : status[s] = "READY" ~> status[s] # "READY"

\* A sleeping process is woken (or killed).
SleeperWakes ==
    \A s \in Slot \ {IdleSlot} : status[s] = "WAITING" ~> status[s] # "WAITING"

\* Every scan ends.
ScanEnds == pc = "scan" ~> pc # "scan"
=============================================================================
