------------------------------- MODULE Process -------------------------------
(***************************************************************************)
(* The process table (process.c) with what it drives: the scheduler's      *)
(* list, the semaphores parents and children meet on, and the stack page   *)
(* of each process.  The system calls exit, kill, waitpid and sleep and    *)
(* the faults run with interrupts disabled and are one step each; the      *)
(* timer may come between any two steps of the creation of a process and   *)
(* of INIT's loop, which the shell and INIT run with interrupts enabled.   *)
(*                                                                         *)
(* A function of the C code is an operator on the kernel's tables,         *)
(*     k = [proc, st, sems, stack, present],                               *)
(* so that an action is the composition of the calls its handler makes.    *)
(***************************************************************************)
EXTENDS Integers, Sequences, FiniteSets, SequencesExt, RoundRobin, TLC

CONSTANTS MaxProcess,     \* MAX_PROCESS (71)
          MaxSemaphores,  \* MAX_SEMAPHORES less the keyboards' eight (62)
          MaxPages,       \* pages for stacks (some 1000)
          Shells,         \* what the boot starts: shells (three, and top)
          MaxCreated,     \* bound: processes created by the programs
          MaxDead,        \* bound: zombies and the ends told of, together
          AnyProgram      \* TRUE: programs make any call at any time;
                          \* FALSE: they follow the pattern of the shell

ASSUME /\ MaxProcess \in Nat /\ MaxProcess >= 3
       /\ MaxSemaphores \in Nat /\ MaxSemaphores >= 2 * MaxProcess
       /\ Shells \in Nat /\ Shells + 2 <= MaxProcess
       /\ MaxPages \in Nat /\ MaxPages > Shells
       /\ MaxCreated \in Nat /\ MaxDead \in Nat
       /\ AnyProgram \in BOOLEAN

Slot == 0 .. MaxProcess - 1
Sem == 0 .. MaxSemaphores - 1
Page == 1 .. MaxPages
INIT == 0                          \* INIT_PROCESS
IDLE == 1                          \* IDLE_PROCCES
NoPage == 0                        \* INIT runs on the boot stack
slotOf(pid) == pid % MaxProcess

VARIABLES
    proc,      \* proc[MAX_PROCESS]
    st,        \* the scheduler's status of each pid on its list
    sems,      \* the semaphores
    stack,     \* the free pages, the next one first
    present,   \* the pages whose present bit is set
    ring,      \* the scheduler's list from behind the current process, see RoundRobin
    inWait,    \* pid |-> the slot it waits for (-1: any), for who sleeps in waitpid
    making,    \* pid |-> its place in contextCreate, the page and the slot it found
    initLoop,  \* INIT's place in its loop and in procWaitPid
    created,   \* processes created so far
    reported,  \* history: the pids some waitpid has returned
    again,     \* history: some waitpid returned a pid for the second time
    crossed    \* history: the ways in which steps have crossed, see Crossing

told == <<reported, again>>
vars == <<proc, st, sems, stack, present, ring, inWait, making, initLoop, created,
          told, crossed>>

K == [proc |-> proc, st |-> st, sems |-> sems, stack |-> stack, present |-> present]
Becomes(k) == /\ proc' = k.proc /\ st' = k.st /\ sems' = k.sems
              /\ stack' = k.stack /\ present' = k.present

current == Last(ring)
pidOf(s) == proc[s].pid
childrenOf(k, pid) == {s \in Slot : k.proc[s].ppid = pid}

-----------------------------------------------------------------------------
(* semaphore.c and sched.c, as process.c uses them                         *)

schedChangeStatus(k, pid, v) ==
    IF pid \in DOMAIN k.st THEN [k EXCEPT !.st[pid] = v] ELSE k

schedRemove(k, pid) ==
    IF pid = INIT THEN k ELSE schedChangeStatus(k, pid, "DEAD")

\* The first sleeper still on the scheduler's list gets READY; pids of
\* processes that left it are dropped; with nobody to wake the wake is counted.
semInc(k, id) ==
    LET q == k.sems[id].queue
        found == {n \in 1 .. Len(q) : q[n] \in DOMAIN k.st}
    IN  IF found = {}
        THEN [k EXCEPT !.sems[id].queue = <<>>, !.sems[id].value = @ + 1]
        ELSE LET n == Before(found)
             IN  schedChangeStatus(
                     [k EXCEPT !.sems[id].queue = SubSeq(q, n + 1, Len(q))],
                     q[n], "READY")

semConsume(k, id) ==
    IF k.sems[id].value > 0 THEN [k EXCEPT !.sems[id].value = @ - 1] ELSE k

semRetID(k, id) == [k EXCEPT !.sems[id].inUse = FALSE]

freeSems == {id \in Sem : ~sems[id].inUse}
newSem == [inUse |-> TRUE, value |-> 0, queue |-> <<>>]

-----------------------------------------------------------------------------
(* process.c                                                               *)

\* mmu.c's freePage refuses a page whose present bit is clear.
freePage(k, p) ==
    IF p \in k.present
    THEN [k EXCEPT !.present = @ \ {p}, !.stack = <<p>> \o @] ELSE k

deallocProcess(k, pid) ==
    LET s == slotOf(pid)
        k1 == semRetID(semRetID(k, k.proc[s].semChild), k.proc[s].semFather)
    IN  [freePage(k1, k.proc[s].page) EXCEPT !.proc[s].status = "FREE"]

\* mutation: INIT's count does not grow with the children it inherits.
inheritChildren_NotCounted(k, pid) ==
    [k EXCEPT !.proc = [s \in Slot |->
        IF k.proc[s].ppid = pid /\ k.proc[s].status # "FREE"
        THEN [k.proc[s] EXCEPT !.ppid = INIT] ELSE k.proc[s]]]

\* The first call of the two (the scheduler's and the parent's) marks the
\* process and gives its children to INIT; the second frees it.
inheritChildren(k, pid) ==
    LET orphans == {s \in childrenOf(k, pid) : k.proc[s].status # "FREE"}
    IN  [k EXCEPT !.proc = [s \in Slot |->
            IF s = INIT
            THEN [@[s] EXCEPT !.childCount = @ + Cardinality(orphans)]
            ELSE IF s \in orphans THEN [@[s] EXCEPT !.ppid = INIT] ELSE @[s]]]

removeProcess(k, pid) ==
    deallocProcess([k EXCEPT !.proc[slotOf(k.proc[slotOf(pid)].ppid)].childCount = @ - 1], pid)

\* mutation: the parent is told at once, before the second call.
procReadyToRemove_AtOnce(k, pid) == removeProcess(inheritChildren(k, pid), pid)

procReadyToRemove(k, pid) ==
    IF k.proc[slotOf(pid)].readyToRemove
    THEN removeProcess(k, pid)
    ELSE inheritChildren([k EXCEPT !.proc[slotOf(pid)].readyToRemove = TRUE], pid)

\* mutation: the process signals only those who wait for it by its pid.
signalEnd_OwnOnly(k, s) == semInc(k, k.proc[s].semFather)

\* A process that ended wakes its parent on the parent's semaphore and on its own.
signalEnd(k, s) ==
    semInc(semInc(k, k.proc[slotOf(k.proc[s].ppid)].semChild), k.proc[s].semFather)

procEnd(k, pid) ==
    LET k1 == [k EXCEPT !.proc[slotOf(pid)].status = "ZOMBIE",
                        !.proc[slotOf(pid)].readyToRemove = FALSE]
    IN  schedRemove(signalEnd(k1, slotOf(pid)), pid)

\* tagDescendants: pid and, by levels, every slot whose ppid was tagged.
tagDescendants(k, pid) ==
    LET Tagged[d \in 0 .. MaxProcess] ==
            IF d = 0 THEN {slotOf(pid)}
            ELSE LET above == Tagged[d - 1]
                 IN  above \union {s \in Slot : \E t \in above : k.proc[s].ppid = k.proc[t].pid}
    IN  Tagged[MaxProcess]

\* removeTagged, one slot of it.
removeSlot(k, s) ==
    LET k1 == schedRemove([k EXCEPT !.proc[s].readyToRemove = FALSE], k.proc[s].pid)
    IN  signalEnd([k1 EXCEPT !.proc[s].status = "ZOMBIE"], s)

removeTagged(k, tagged) == FoldLeft(removeSlot, k, SetToSortSeq(tagged, <))

mayBeKilled(pid) ==
    pid \notin {INIT, IDLE} /\ pidOf(slotOf(pid)) = pid /\ proc[slotOf(pid)].status = "READY"

procKill(pid) ==
    IF mayBeKilled(pid) THEN removeTagged(K, tagDescendants(K, pid)) ELSE K

-----------------------------------------------------------------------------
(* schedSchedule: the list, the dead it unlinks, and the memory it         *)
(* disables and enables.                                                   *)

runs(k) == IF k.st[current] = "RUNNING" THEN [k.st EXCEPT ![current] = "READY"] ELSE k.st

\* mutation: the new process's page is left as it was.
switchMemory_NoEnable(k, old, new) ==
    IF old \in {INIT, new} THEN k
    ELSE [k EXCEPT !.present = @ \ {k.proc[slotOf(old)].page}]


switchMemory(k, old, new) ==
    LET off == IF old = INIT THEN k.present
               ELSE k.present \ {k.proc[slotOf(old)].page}
        on == IF new = INIT THEN off ELSE off \union {k.proc[slotOf(new)].page}
    IN  IF old = new THEN k ELSE [k EXCEPT !.present = on]

Schedule(k0) ==
    LET k == [k0 EXCEPT !.st = runs(k0)]
        winner == Winner(ring, k.st, IDLE)
        left == NextOrder(ring, k.st, IDLE)
        k1 == FoldLeft(procReadyToRemove, k, Reaped(ring, k.st, IDLE))
        k2 == switchMemory(k1, current, winner)
    IN  /\ Becomes([k2 EXCEPT !.st = [p \in ToSet(left) |->
                       IF p = winner THEN "RUNNING" ELSE k.st[p]]])
        /\ ring' = left

\* The place of a process in a call is gone with it.
Keep(f) == [p \in (DOMAIN f) \intersect ToSet(ring') |-> f[p]]
Switch(k, w) == Schedule(k) /\ inWait' = Keep(w) /\ making' = Keep(making)

-----------------------------------------------------------------------------
\* The machine after the boot of kernel.c.
slot0 == [pid |-> INIT, ppid |-> INIT, status |-> "RUNNING", readyToRemove |-> FALSE,
          semChild |-> 0, semFather |-> 0, childCount |-> Shells + 1, page |-> NoPage]
booted(s) == [pid |-> s, ppid |-> INIT, status |-> "READY", readyToRemove |-> FALSE,
              semChild |-> 2 * s - 1, semFather |-> 2 * s, childCount |-> 0, page |-> s]
unused(s) == [pid |-> s - MaxProcess, ppid |-> INIT, status |-> "FREE",
              readyToRemove |-> FALSE, semChild |-> 0, semFather |-> 0,
              childCount |-> 0, page |-> NoPage]

Asleep == [at |-> "sleep", slot |-> -1, pid |-> -1, i |-> 0,
           cell |-> <<"none", 0>>, by |-> 0, n |-> 0, then |-> "sleep"]

Init ==
    /\ proc = [s \in Slot |-> IF s = INIT THEN slot0
                              ELSE IF s <= Shells + 1 THEN booted(s) ELSE unused(s)]
    /\ st = [p \in 0 .. Shells + 1 |-> IF p = INIT THEN "RUNNING" ELSE "READY"]
    /\ sems = [id \in Sem |-> [newSem EXCEPT !.inUse = id <= 2 * (Shells + 1)]]
    /\ stack = [n \in 1 .. MaxPages - Shells - 1 |-> n + Shells + 1]
    /\ present = 1 .. Shells + 1
    /\ ring = [n \in 1 .. Shells + 2 |-> Shells + 2 - n]
    /\ inWait = << >> /\ making = << >>
    /\ initLoop = Asleep
    /\ created = 0
    /\ reported = {} /\ again = FALSE /\ crossed = {}

-----------------------------------------------------------------------------
(* The system calls of the running program.                                *)

User == current \notin {INIT, IDLE} \union DOMAIN inWait \union DOMAIN making

freeSlots == {s \in Slot : proc[s].status = "FREE"}
getFreeSlot == Before(freeSlots)

\* procCreate from its first semGetID on, which disables interrupts; schedAdd
\* finds no place when the scheduler's table is full of processes not
\* unlinked yet.
procCreate(s, p) ==
    LET child == Before(freeSems)
        father == Before(freeSems \ {child})
        pid == proc[s].pid + MaxProcess
        k == [K EXCEPT
                !.sems[child] = newSem, !.sems[father] = newSem,
                !.proc[slotOf(current)].childCount = @ + 1,
                !.proc[s] = [@ EXCEPT !.pid = pid, !.ppid = current,
                                      !.status = "READY", !.childCount = 0,
                                      !.semChild = child, !.semFather = father,
                                      !.page = p]]
    IN  IF Len(ring) = MaxProcess
        THEN Becomes(k) /\ UNCHANGED ring
        ELSE /\ Becomes([k EXCEPT !.st = (pid :> "READY") @@ @])
             /\ ring' = <<pid>> \o ring

\* The children that no waitpid has returned yet.
uncollected(pid) ==
    {s \in childrenOf(K, pid) : proc[s].status # "FREE" /\ pidOf(s) \notin reported}

\* The pattern of shell.c's commands: a shell creates one process, then waits
\* for it (or polls for its pid); the commands create nothing.  Anybody may
\* fail, exit or kill anybody at any time.
PatternCreates == current <= Shells + 1 /\ uncollected(current) = {}
PatternWaits(w) == uncollected(current) # {} /\ w \in {-1} \union uncollected(current)
PatternPolls(w) == PatternWaits(w) /\ w # -1

\* contextCreate, which the shell calls without a gate: with interrupts enabled.
MakingAt(place) == current \in DOMAIN making /\ making[current].at = place
Made == making' = [p \in DOMAIN making \ {current} |-> making[p]]
othersUnchanged == UNCHANGED <<inWait, initLoop, told>>

\* getPage: pop reads the top of the stack of free pages ...
CreatePop ==
    /\ User /\ (AnyProgram \/ PatternCreates)
    /\ stack # << >>
    /\ created < MaxCreated /\ created' = created + 1
    /\ making' = (current :> [at |-> "pop", page |-> Head(stack), left |-> Tail(stack),
                              slot |-> -1]) @@ making
    /\ UNCHANGED <<proc, st, sems, stack, present, ring>> /\ othersUnchanged

\* ... and moves it; without a page whose bit is clear nothing is created ...
CreateTake ==
    /\ MakingAt("pop")
    /\ stack' = making[current].left
    /\ IF making[current].page \in present THEN Made
       ELSE making' = [making EXCEPT ![current].at = "page", ![current].left = << >>]
    /\ UNCHANGED <<proc, st, sems, present, ring, created>> /\ othersUnchanged

\* ... and sets the bit.  getFreeSlot then returns a slot that was free when
\* it looked.  What the code does without a slot or a semaphore is undefined
\* (index -1) and not modelled.
CreateSlot ==
    /\ MakingAt("page")
    /\ freeSlots # {}
    /\ present' = present \union {making[current].page}
    /\ making' = [making EXCEPT ![current].at = "slot", ![current].slot = getFreeSlot]
    /\ UNCHANGED <<proc, st, sems, stack, ring, created>> /\ othersUnchanged

CreateRest ==
    /\ MakingAt("slot")
    /\ Cardinality(freeSems) >= 2
    /\ procCreate(making[current].slot, making[current].page)
    /\ Made
    /\ UNCHANGED created /\ othersUnchanged

Create == CreatePop \/ CreateTake \/ CreateSlot \/ CreateRest

\* sysfExit: procEnd and yield.
Exit ==
    /\ User
    /\ Switch(procEnd(K, current), inWait)
    /\ UNCHANGED <<initLoop, created, told>>

\* sysfKill.  A process that kills itself runs on until the next tick.
Kill(pid) ==
    /\ User
    /\ mayBeKilled(pid)
    /\ Becomes(procKill(pid))
    /\ UNCHANGED <<ring, inWait, making, initLoop, created, told>>

\* exceptions.c: the process that fails is killed and yields.
Fault ==
    /\ User
    /\ Switch(procKill(current), inWait)
    /\ UNCHANGED <<initLoop, created, told>>

Sleep ==
    /\ User
    /\ Switch([K EXCEPT !.st[current] = "WAITING"], inWait)
    /\ UNCHANGED <<initLoop, created, told>>

\* int 08: the sleeping processes in W have no ticks left.
Tick(W) ==
    /\ current \notin DOMAIN inWait
    /\ Switch([K EXCEPT !.st = [p \in DOMAIN st |-> IF p \in W THEN "READY" ELSE st[p]]], inWait)
    /\ UNCHANGED <<initLoop, created, told>>

Sleeping == {p \in DOMAIN st : st[p] = "WAITING"}
Timer == \E W \in SUBSET Sleeping : Tick(W)

-----------------------------------------------------------------------------
(* procWaitPid.  "any" is -1.                                              *)

any == -1
zombiesOf(pid) == {s \in childrenOf(K, pid) : proc[s].status = "ZOMBIE"}

\* The slot to collect, or -1: the first zombie child, or the slot asked
\* for, whoever is in it by now.
toCollect(pid, w) ==
    IF w # any THEN w
    ELSE IF zombiesOf(pid) = {} THEN -1 ELSE Before(zombiesOf(pid))

Report(pid) == reported' = reported \union {pid} /\ again' = (again \/ pid \in reported)

\* mutation: the wakes nobody slept for are left on the semaphores.
collect_KeepsWakes(k, pid, w, nowait) ==
    LET s == toCollect(pid, w)
    IN  IF s = -1 \/ s \notin zombiesOf(pid)
        THEN Becomes(k) /\ UNCHANGED told
        ELSE /\ Becomes(procReadyToRemove(k, pidOf(s)))
             /\ Report(pidOf(s))

\* The end of procWaitPid: procRetVal, then the wakes that were not slept for.
collect(k, pid, w, nowait) ==
    LET s == toCollect(pid, w)
        k1 == procReadyToRemove(k, pidOf(s))
        mine == k1.proc[slotOf(pid)].semChild
        his == k1.proc[s].semFather
    IN  IF s = -1 \/ s \notin zombiesOf(pid)
        THEN Becomes(k) /\ UNCHANGED told
        ELSE /\ Becomes(CASE nowait -> semConsume(semConsume(k1, mine), his)
                           [] ~nowait /\ w = any -> semConsume(k1, his)
                           [] OTHER -> semConsume(k1, mine))
             /\ Report(pidOf(s))

\* The checks at the entry: with none of them met waitpid returns -1.
MayWait(w) ==
    /\ proc[slotOf(current)].childCount # 0
    /\ w # any => w \in childrenOf(K, current) /\ proc[w].status # "FREE"

semOf(w) == IF w = any THEN proc[slotOf(current)].semChild ELSE proc[w].semFather

\* waitpid(pid, O_NOWAIT)
PollPid(w) ==
    /\ User /\ (AnyProgram \/ PatternPolls(w))
    /\ MayWait(w)
    /\ collect(K, current, w, TRUE)
    /\ UNCHANGED <<ring, inWait, making, initLoop, created>>

\* waitpid(pid, 0): semDec, which sleeps if the wake did not come yet.
WaitPid(w) ==
    /\ User /\ (AnyProgram \/ PatternWaits(w))
    /\ MayWait(w)
    /\ IF sems[semOf(w)].value > 0
       THEN /\ collect([K EXCEPT !.sems[semOf(w)].value = @ - 1], current, w, FALSE)
            /\ UNCHANGED <<ring, inWait, making>>
       ELSE /\ Switch([K EXCEPT !.sems[semOf(w)].queue = Append(@, current),
                                !.st[current] = "BLOCKED"], (current :> w) @@ inWait)
            /\ UNCHANGED told
    /\ UNCHANGED <<initLoop, created>>

\* A process that slept in semDec goes on, interrupts still disabled.
WaitReturn ==
    /\ current \in DOMAIN inWait
    /\ collect(K, current, inWait[current], FALSE)
    /\ inWait' = [p \in DOMAIN inWait \ {current} |-> inWait[p]]
    /\ UNCHANGED <<ring, making, initLoop, created>>

-----------------------------------------------------------------------------
(* INIT: sleep, then procWaitPid(-1, O_NOWAIT) called without disabling    *)
(* interrupts, so that a tick may fall between any two of its steps.       *)

InitAt(place) == current = INIT /\ initLoop.at = place
Goes(place) == initLoop' = IF place = "sleep" THEN Asleep ELSE [initLoop EXCEPT !.at = place]
kernelUnchanged == UNCHANGED <<proc, st, sems, stack, present>>
restUnchanged == UNCHANGED <<ring, inWait, making, created>>

InitSleep ==
    /\ InitAt("sleep")
    /\ Switch([K EXCEPT !.st[INIT] = "WAITING"], inWait)
    /\ Goes("poll")
    /\ UNCHANGED <<created, told>>

\* The loop of lines 712-717, at its end, with procRetVal's checks, which read
\* the same again; where they fail nothing was done.  A zombie INIT has
\* inherited remains one until it is collected, so of several the loop finds
\* the first or, when that one ended behind it, another.  childCount cannot
\* have been 0 at the entry: IDLE is INIT's child.
InitPoll ==
    /\ InitAt("poll")
    /\ \/ (proc[INIT].childCount = 0 \/ zombiesOf(INIT) = {}) /\ Goes("sleep")
       \/ /\ proc[INIT].childCount # 0
          /\ \E s \in zombiesOf(INIT) :
                initLoop' = [initLoop EXCEPT !.at = "flag", !.slot = s]
    /\ kernelUnchanged /\ restUnchanged /\ UNCHANGED told

\* "counter++" and "counter--" are a load and a store.  A load that follows
\* another reading is one step with it: what comes between them might as well
\* come before both.
counter(c) == IF c[1] = "wakes" THEN sems[c[2]].value ELSE proc[c[2]].childCount
Loads(c, by, next) ==
    initLoop' = [initLoop EXCEPT !.at = "store", !.cell = c, !.n = counter(c),
                                 !.by = by, !.then = next]

\* The values to return, and procReadyToRemove's test.
InitFlag ==
    /\ InitAt("flag")
    /\ LET s == initLoop.slot
       IN  /\ Report(pidOf(s))
           /\ IF proc[s].readyToRemove
              THEN Loads(<<"children", slotOf(proc[s].ppid)>>, -1, "child")
              ELSE initLoop' = [initLoop EXCEPT !.at = "mark", !.pid = pidOf(s)]
    /\ kernelUnchanged /\ restUnchanged

InitStore ==
    /\ InitAt("store")
    /\ LET id == initLoop.cell[2]
           v == initLoop.n + initLoop.by
       IN  IF initLoop.cell[1] = "wakes"
           THEN sems' = [sems EXCEPT ![id].value = v] /\ UNCHANGED proc
           ELSE proc' = [proc EXCEPT ![id].childCount = v] /\ UNCHANGED sems
    /\ initLoop' = IF initLoop.then = "sleep" THEN Asleep
                   ELSE [initLoop EXCEPT !.at = initLoop.then, !.cell = Asleep.cell,
                                         !.n = 0, !.by = 0, !.then = "sleep"]
    /\ UNCHANGED <<st, stack, present, told>> /\ restUnchanged

InitMark ==
    /\ InitAt("mark")
    /\ proc' = [proc EXCEPT ![initLoop.slot].readyToRemove = TRUE]
    /\ Goes("heir")
    /\ UNCHANGED <<st, sems, stack, present, told>> /\ restUnchanged

\* The children INIT inherits, the first slot first: the test, the new ppid,
\* the count.  A dead process gets no more children, so the slots between
\* them need no step.
heirs == {s \in childrenOf(K, initLoop.pid) : s >= initLoop.i /\ proc[s].status # "FREE"}

InitHeir ==
    /\ InitAt("heir")
    /\ initLoop' = IF heirs = {} THEN [initLoop EXCEPT !.at = "wakes", !.i = 0]
                   ELSE [initLoop EXCEPT !.at = "adopt", !.i = Before(heirs)]
    /\ kernelUnchanged /\ restUnchanged /\ UNCHANGED told

InitAdopt ==
    /\ InitAt("adopt")
    /\ proc' = [proc EXCEPT ![initLoop.i].ppid = INIT]
    /\ initLoop' = [initLoop EXCEPT !.at = "count", !.i = @ + 1]
    /\ UNCHANGED <<st, sems, stack, present, told>> /\ restUnchanged

InitCount ==
    /\ InitAt("count")
    /\ Loads(<<"children", INIT>>, 1, "heir")
    /\ kernelUnchanged /\ restUnchanged /\ UNCHANGED told

\* deallocProcess, call by call.
InitDealloc ==
    LET s == initLoop.slot
    IN  /\ \/ InitAt("child") /\ Becomes(semRetID(K, proc[s].semChild)) /\ Goes("father")
           \/ InitAt("father") /\ Becomes(semRetID(K, proc[s].semFather)) /\ Goes("page")
           \/ InitAt("page") /\ Becomes(freePage(K, proc[s].page)) /\ Goes("free")
           \/ InitAt("free") /\ Becomes([K EXCEPT !.proc[s].status = "FREE"]) /\ Goes("wakes")
        /\ restUnchanged /\ UNCHANGED told

\* The two semConsume of procWaitPid.  Nobody sees how the value of INIT's own
\* semaphore gets lower, since INIT never sleeps on it; the other semaphore may
\* by now be another's.
InitWakes ==
    /\ InitAt("wakes")
    /\ Becomes(semConsume(K, proc[INIT].semChild))
    /\ LET id == proc[initLoop.slot].semFather
       IN  IF sems[id].value > 0 THEN Loads(<<"wakes", id>>, -1, "sleep") ELSE Goes("sleep")
    /\ restUnchanged /\ UNCHANGED told

InitStep ==
    \/ InitSleep \/ InitPoll \/ InitFlag \/ InitStore
    \/ InitMark \/ InitHeir \/ InitAdopt \/ InitCount
    \/ InitDealloc \/ InitWakes

-----------------------------------------------------------------------------
(* The ways in which two steps of the code get in each other's way, seen   *)
(* at the step that does it.  "crossed" remembers those that happened.     *)

byAnother == initLoop' = initLoop
collecting == initLoop.at \notin {"sleep", "poll", "flag"}

\* The flag INIT has tested is set before INIT sets it (process.c:387, 395).
MarksTested ==
    byAnother /\ initLoop.at = "mark" /\ proc'[initLoop.slot] # proc[initLoop.slot]

\* The slot, or the semaphore, of the process INIT collects gets a new owner
\* before INIT consumed the wake (process.c:726, 731).
ReusesCollected ==
    /\ byAnother /\ collecting
    /\ LET s == initLoop.slot
           f == proc[s].semFather
       IN  proc'[s].pid # pidOf(s) \/ (sems'[f].inUse /\ ~sems[f].inUse)

\* The child INIT has tested changes before INIT adopts it (process.c:399, 400).
ChangesAdopted ==
    byAnother /\ initLoop.at = "adopt" /\ proc'[initLoop.i] # proc[initLoop.i]

\* A counter is written between INIT's load and its store (process.c:391, 401,
\* semaphore.c:58).
WritesLoaded ==
    byAnother /\ initLoop.at = "store" /\ counter(initLoop.cell)' # counter(initLoop.cell)

\* A page is popped between another's reading of the top and its store
\* (stack.c:57).
PopsPopped ==
    /\ stack' # stack
    /\ \E p \in DOMAIN making \ {current} : making[p].at = "pop"

\* A kill tags a slot for the ppid left in it when it was freed (process.c:649).
KillsFree == \E s \in Slot : proc[s].status = "FREE" /\ proc'[s].status = "ZOMBIE"

\* ... or clears the flag of a dead descendant (process.c:333), so that the
\* scheduler does not free it when it unlinks it, in the same step or later.
ClearsFlag ==
    \E s \in Slot :
        /\ proc[s].status = "ZOMBIE" /\ proc'[s].status = "ZOMBIE"
        /\ proc[s].readyToRemove
        /\ ~proc'[s].readyToRemove \/ pidOf(s) \in DOMAIN st \ DOMAIN st'

\* A creation writes over a slot another has taken since getFreeSlot looked
\* (process.c:200, 208).
TakesTaken == \E s \in Slot : proc[s].status # "FREE" /\ proc'[s].pid # pidOf(s)

\* A process that was killed goes on: until the next tick when it killed
\* itself, or because a wake made it READY (semaphore.c:105).
Undead == proc[slotOf(current)].status = "ZOMBIE"

Crossing(call) ==
    crossed' = crossed \union {w \in {"marks"} : MarksTested}
                       \union {w \in {"reuses"} : ReusesCollected}
                       \union {w \in {"adopts"} : ChangesAdopted}
                       \union {w \in {"counts"} : WritesLoaded}
                       \union {w \in {"pops"} : PopsPopped}
                       \union {w \in {"takes"} : TakesTaken}
                       \union {w \in {"tags"} : KillsFree}
                       \union {w \in {"clears"} : ClearsFlag}
                       \union {w \in {"undead"} : call /\ Undead}

Calls ==
    \/ Create
    \/ Exit
    \/ \E pid \in DOMAIN st : Kill(pid)
    \/ Fault
    \/ Sleep
    \/ \E w \in Slot \union {any} : WaitPid(w) \/ PollPid(w)
    \/ WaitReturn
    \/ InitStep

Next ==
    \/ Timer /\ Crossing(FALSE)
    \/ Calls /\ Crossing(TRUE)

Spec == Init /\ [][Next]_vars

-----------------------------------------------------------------------------
\* The tables keep their types: slots and pages are in range, childCount is
\* never negative, and the list holds each pid of the scheduler's table once.
TypeOK ==
    /\ proc \in [Slot -> [pid : Int, ppid : Int,
                          status : {"RUNNING", "READY", "ZOMBIE", "FREE"},
                          readyToRemove : BOOLEAN, semChild : Sem, semFather : Sem,
                          childCount : Int, page : Page \union {NoPage}]]
    /\ ToSet(ring) = DOMAIN st /\ Len(ring) = Cardinality(DOMAIN st)
    /\ \A p \in DOMAIN st : st[p] \in {"WAITING", "BLOCKED", "READY", "RUNNING", "DEAD"}
    /\ sems \in [Sem -> [inUse : BOOLEAN, value : Int, queue : Seq(Int)]]
    /\ stack \in Seq(Page) /\ present \subseteq Page
    /\ DOMAIN inWait \union DOMAIN making \subseteq DOMAIN st
    /\ created \in 0 .. MaxCreated

\* Nobody a kill (an exit, a fault) ends is runnable when it is over: semInc
\* tries the next pid when the one to wake is dead.
KilledAreDead ==
    [][\A s \in Slot :
        /\ proc[s].status = "READY" /\ proc'[s].status = "ZOMBIE"
        /\ pidOf(s) \in DOMAIN st'
        => st'[pidOf(s)] = "DEAD"]_vars

\* No two steps have crossed (but a kill may have cleared a flag) and nobody
\* was told twice of one end.
Undisturbed == crossed \subseteq {"clears"} /\ ~again

\* The states a run goes on from.
WithinBounds ==
    /\ Undisturbed
    /\ Cardinality({s \in Slot : proc[s].status = "ZOMBIE"}) + Cardinality(reported) <= MaxDead

\* childCount, which decides whether waitpid may sleep, counts the children
\* (INIT's, when INIT is not just about to count one).
ChildCountRight ==
    Undisturbed =>
        \A s \in Slot :
            /\ proc[s].status \in {"READY", "RUNNING"}
            /\ s = INIT => initLoop.at \notin {"count", "store", "child", "father", "page", "free"}
            => proc[s].childCount =
                 Cardinality({c \in childrenOf(K, pidOf(s)) \ {INIT} : proc[c].status # "FREE"})

\* A slot is free only when its process has left the scheduler's list and
\* its end was returned to the parent: the two things procReadyToRemove waits for.
FreedLast ==
    Undisturbed =>
        \A s \in Slot : proc[s].status = "FREE" =>
            pidOf(s) \notin DOMAIN st /\ (pidOf(s) >= 0 => pidOf(s) \in reported)

\* ... and it is free as soon as both have happened and INIT has gone through
\* its call; else INIT or the parent would be told again of a process that has
\* ended once.
FreedAtOnce ==
    crossed \intersect {"tags", "clears"} = {} => \A s \in Slot : proc[s].status # "FREE" =>
        \/ pidOf(s) \in DOMAIN st \/ pidOf(s) \notin reported
        \/ initLoop.at # "sleep" /\ initLoop.slot = s

\* Nobody sleeps in waitpid without a child that is still to end: no end
\* is lost between the tests of procWaitPid and the wakes of procEnd and procKill.
WaiterHasLiveChild ==
    Undisturbed =>
        \A p \in DOMAIN inWait : st[p] = "BLOCKED" =>
            \E c \in childrenOf(K, p) :
                proc[c].status = "READY" /\ inWait[p] \in {any, c}

\* The wakes on a program's semaphore are its dead children not collected yet:
\* what semConsume is for.  A later waitpid then sleeps if and only if it must.
WakesAreZombies ==
    Undisturbed =>
        \A s \in Slot \ {INIT, IDLE} :
            proc[s].status = "READY" /\ pidOf(s) \notin DOMAIN inWait =>
                sems[proc[s].semChild].value =
                  Cardinality({c \in zombiesOf(pidOf(s)) : pidOf(c) \notin reported})

\* The stack of the process that runs is mapped.
RunningStackPresent ==
    "pops" \notin crossed /\ current # INIT => proc[slotOf(current)].page \in present
=============================================================================
