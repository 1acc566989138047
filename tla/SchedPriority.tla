--------------------------- MODULE SchedPriority ---------------------------
(***************************************************************************)
(* The priority scheduler, schedpriority.c, which the Makefile offers in   *)
(* place of sched.c (line 28, commented out).  It keeps its slots in five  *)
(* structures at once, all linked through the slots themselves: a stack of *)
(* free slots, an array sorted by pid, a ring of ready processes for each  *)
(* priority and a list of sleepers whose times are relative to the one     *)
(* before.                                                                 *)
(*                                                                         *)
(* The statics of the file are one record, t; each C function is an        *)
(* operator from records to records, and an action is what a caller        *)
(* (process.c, semaphore.c, sys.c, sys.asm) does with them.  A loop that   *)
(* cannot end, the "cli; hlt" of a failed check and the use of a null      *)
(* pointer set t.stuck, and the model stops there.                         *)
(***************************************************************************)
EXTENDS Integers, Sequences, FiniteSets, SequencesExt

CONSTANTS MaxProcess,      \* MAX_PROCESS, the slots of the table
          CantPriorities,  \* CANT_PRIORITIES; 0 is the highest
          Pids,            \* the pids of the processes created after IDLE
          SleepMs          \* the arguments processes pass to sleep()

ASSUME SizeAssumption == MaxProcess \in Nat /\ MaxProcess >= 2
ASSUME PriorityAssumption == CantPriorities \in Nat /\ CantPriorities >= 1
ASSUME PidsAssumption == Pids \subseteq Nat \ {0, 1}
ASSUME SleepAssumption == SleepMs \subseteq Nat

VARIABLES t,       \* the statics of schedpriority.c
          pc,      \* "user"; or the caller's yield is still to come:
                   \* "sleep" (interrupts enabled), "block", "dead"
          asleep,  \* the pids in the semaphores' queues
          due      \* history: the ticks each sleeper is still to sleep

vars == <<t, pc, asleep, due>>

Slot == 1 .. MaxProcess
NULL == 0
Priority == 0 .. CantPriorities - 1
InitPid == 0
IdlePid == 1
Status == {"WAITING", "BLOCKED", "READY", "RUNNING", "DEAD", "FREE"}

Stuck(u) == [u EXCEPT !.stuck = TRUE]

-----------------------------------------------------------------------------
(* The array of pointers, sorted by pid.                                   *)

\* One pass of the shell sort: each element from inc + 1 on moves down in
\* steps of inc over those with a greater pid.
Sift(u, v, j, inc) ==
    LET passed == {k \in 1 .. j : /\ (j - k) % inc = 0
                                  /\ \A m \in k .. j - 1 :
                                        (j - m) % inc = 0 => u.pid[v[m]] > u.pid[v[j]]}
        to == Min(passed)
    IN  [k \in DOMAIN v |-> IF k = to THEN v[j]
                            ELSE IF k \in passed THEN v[k - inc] ELSE v[k]]

ShellPass(u, v, inc) ==
    LET sifted[j \in 0 .. Len(v)] ==
            IF j = 0 THEN v
            ELSE IF j <= inc THEN sifted[j - 1] ELSE Sift(u, sifted[j - 1], j, inc)
    IN  sifted[Len(v)]

\* inc is size/2, size/4, ..., 1, then 0.
Gap_TwoOnly(n) == IF n \div 2 = 1 THEN 0 ELSE n \div 2   \* mutation: stops before 1
Gap(n) == n \div 2

orderIndexes(u) ==
    LET size == Len(u.indexes)
        inc[k \in 0 .. size] == IF k = 0 THEN size ELSE Gap(inc[k - 1])
        ordered[k \in 0 .. size] ==
            IF k = 0 THEN u.indexes
            ELSE IF inc[k] = 0 THEN ordered[k - 1] ELSE ShellPass(u, ordered[k - 1], inc[k])
    IN  [u EXCEPT !.indexes = ordered[size]]

addToIndexes(u, slot) ==
    orderIndexes([u EXCEPT !.indexes = Append(@, slot)])

\* The bisection; low and high as in the code, which counts from 0.
Lowest(u, pid) ==
    LET narrow[n \in 0 .. MaxProcess] ==
            IF n = 0 THEN <<0, Len(u.indexes)>>
            ELSE LET w == narrow[n - 1]
                     mid == w[1] + (w[2] - w[1]) \div 2
                 IN  IF w[1] >= w[2] THEN w
                     ELSE IF u.pid[u.indexes[mid + 1]] < pid THEN <<mid + 1, w[2]>>
                     ELSE <<w[1], mid>>
    IN  narrow[MaxProcess][1]

\* The place of pid in indexes, or 0.
PlaceOf(u, pid) ==
    LET low == Lowest(u, pid)
    IN  IF low < Len(u.indexes) /\ u.pid[u.indexes[low + 1]] = pid THEN low + 1 ELSE 0

getByPid(u, pid) ==
    IF PlaceOf(u, pid) = 0 THEN NULL ELSE u.indexes[PlaceOf(u, pid)]

removeFromIndexes(u, place) == [u EXCEPT !.indexes = RemoveAt(@, place)]

-----------------------------------------------------------------------------
(* The stack of free slots.                                                *)

\* schedAdd writes the fields of a slot it takes: those of a free slot are of
\* no account and have one value here.
addToFreeSlots(u, slot) ==
    [u EXCEPT !.freeList = <<slot>> \o @,
              !.pid[slot] = 0, !.priority[slot] = 0, !.nextInPriority[slot] = NULL]

-----------------------------------------------------------------------------
(* The rings of ready processes.                                           *)

\* A process joins behind the first of its ring.
addToReadyList(u, slot) ==
    LET p == u.priority[slot]
        first == u.priorities[p]
    IN  IF first = NULL
        THEN [u EXCEPT !.priorities[p] = slot, !.nextInPriority[slot] = slot]
        ELSE [u EXCEPT !.nextInPriority[slot] = u.nextInPriority[first],
                       !.nextInPriority[first] = slot]

\* The slots met from the first of ring p on, in their order; NULL stays.
Walk(u, p) ==
    LET at[n \in 0 .. MaxProcess] ==
            IF n = 0 THEN u.priorities[p]
            ELSE LET s == at[n - 1] IN IF s = NULL THEN NULL ELSE u.nextInPriority[s]
    IN  at

\* How far to walk for the one before slot: nowhere if it is not found, and
\* the loop of the code does not end then, or stops at its check for NULL.
getPrevReadySlot(u, slot) ==
    LET at == Walk(u, u.priority[slot])
    IN  {at[n] : n \in {k \in 0 .. MaxProcess - 1 :
                          /\ at[k] # NULL /\ at[k + 1] = slot
                          /\ \A m \in 0 .. k - 1 : at[m + 1] # slot}}

\* mutation: the pointer to the first of the ring is not moved on
removeFromReadyList_KeepsFirst(u, slot) ==
    IF u.nextInPriority[slot] = slot
    THEN [u EXCEPT !.priorities[u.priority[slot]] = NULL]
    ELSE IF getPrevReadySlot(u, slot) = {} THEN Stuck(u)
    ELSE LET prev == CHOOSE s \in getPrevReadySlot(u, slot) : TRUE
         IN  [u EXCEPT !.nextInPriority[prev] = u.nextInPriority[slot]]

\* A slot that is its own successor is taken for the only one of its ring,
\* whether it is on the ring or was when it left.
removeFromReadyList(u, slot) ==
    LET p == u.priority[slot]
        next == u.nextInPriority[slot]
    IN  IF next = slot
        THEN [u EXCEPT !.priorities[p] = NULL]
        ELSE IF getPrevReadySlot(u, slot) = {} THEN Stuck(u)
        ELSE LET prev == CHOOSE s \in getPrevReadySlot(u, slot) : TRUE
             IN  [u EXCEPT !.nextInPriority[prev] = next,
                           !.priorities[p] = IF u.priorities[p] = slot THEN next
                                         ELSE u.priorities[p]]

-----------------------------------------------------------------------------
(* The list of sleepers.                                                   *)

SleepTicks(ms) == (ms + 1) \div 55

\* The time of the n-th sleeper: the times are relative to the one before.
TimeOf(u, n) ==
    LET time[m \in 0 .. Len(u.waitingList)] ==
            IF m = 0 THEN 0 ELSE time[m - 1] + u.waitingTicks[u.waitingList[m]]
    IN  time[n]

\* How many sleepers wake before one that is to sleep ticks.
Earlier(u, ticks) ==
    Min({n \in 0 .. Len(u.waitingList) :
            n < Len(u.waitingList) => ticks <= TimeOf(u, n + 1)})

\* mutation: the one behind keeps its time, which is then counted twice
enqueTicks_NoOffset(u, slot, ticks) ==
    LET earlier == Earlier(u, ticks)
    IN  [u EXCEPT !.waitingList = InsertAt(@, earlier + 1, slot),
                  !.waitingTicks[slot] = ticks - TimeOf(u, earlier)]

\* A sleeper goes behind those who wake before it; its time and the one of
\* the sleeper behind it become relative to the one before them.
enqueTicks(u, slot, ticks) ==
    LET list == u.waitingList
        earlier == Earlier(u, ticks)
        rest == ticks - TimeOf(u, earlier)
    IN  [u EXCEPT !.waitingList = InsertAt(@, earlier + 1, slot),
                  !.waitingTicks = [s \in Slot |->
                      IF s = slot THEN rest
                      ELSE IF earlier < Len(list) /\ s = list[earlier + 1]
                           THEN u.waitingTicks[s] - rest
                      ELSE u.waitingTicks[s]]]

-----------------------------------------------------------------------------
(* The functions other files call.                                         *)

schedAdd(u, pid, priority) ==
    LET slot == Head(u.freeList)
    IN  addToIndexes([u EXCEPT !.freeList = Tail(@),
                               !.pid[slot] = pid, !.priority[slot] = priority,
                               !.nextInPriority[slot] = NULL,
                               !.status[slot] = "BLOCKED",
                               !.waitingTicks[slot] = 0], slot)

\* The guard of the code is false for every slot there is, and reads
\* through a null pointer for a pid that is not there.
schedContinue(u, pid) ==
    LET slot == getByPid(u, pid)
    IN  IF slot = NULL THEN Stuck(u)
        ELSE addToReadyList([u EXCEPT !.status[slot] = "READY"], slot)

schedBlock(u, pid) ==
    LET slot == getByPid(u, pid)
    IN  IF slot = NULL \/ u.status[slot] \notin {"READY", "RUNNING"} THEN u
        ELSE LET v == removeFromReadyList(u, slot)
             IN  [v EXCEPT !.status[slot] = "BLOCKED"]

schedChangeStatus(u, pid, status) ==
    IF getByPid(u, pid) = NULL THEN u
    ELSE IF status = "BLOCKED" THEN schedBlock(u, pid)
    ELSE schedContinue(u, pid)

\* The current process sleeps ticks; for none it goes on at once.
schedSleep(u, ticks) ==
    IF ticks < 1 THEN u
    ELSE LET v == removeFromReadyList(u, u.currentProcess)
         IN  enqueTicks([v EXCEPT !.status[u.currentProcess] = "WAITING"],
                        u.currentProcess, ticks)

\* mutation: only one of those whose time is over wakes
schedTicks_WakesOne(u) ==
    IF u.waitingList = <<>> THEN u
    ELSE LET first == u.waitingList[1]
             v == [u EXCEPT !.waitingTicks[first] = u.waitingTicks[first] - 1]
         IN  IF v.waitingTicks[first] # 0 THEN v
             ELSE schedContinue([v EXCEPT !.waitingList = Tail(@)], v.pid[first])

\* One tick: only the first of the sleepers counts, and all whose time is
\* over then wake with it.
schedTicks(u) ==
    IF u.waitingList = <<>> THEN u
    ELSE LET list == u.waitingList
             v == [u EXCEPT !.waitingTicks[list[1]] = u.waitingTicks[list[1]] - 1]
             over == Min({n \in 0 .. Len(list) :
                             n < Len(list) => v.waitingTicks[list[n + 1]] # 0})
             woken[n \in 0 .. over] ==
                 IF n = 0 THEN [v EXCEPT !.waitingList = SubSeq(list, over + 1, Len(list))]
                 ELSE schedContinue(woken[n - 1], u.pid[list[n]])
         IN  woken[over]

schedSetPriority(u, pid, priority) ==
    LET slot == getByPid(u, pid)
        v == removeFromReadyList(u, slot)
        w == [v EXCEPT !.priority[slot] = priority]
    IN  IF slot = NULL THEN u
        ELSE IF w.status[slot] \in {"READY", "RUNNING"} THEN addToReadyList(w, slot) ELSE w

\* A process that is not running is evicted at once, the current one by the
\* next schedSchedule.  The list of sleepers is not looked at.
schedRemove(u, pid) ==
    LET slot == getByPid(u, pid)
        v == removeFromIndexes(removeFromReadyList(u, slot), PlaceOf(u, pid))
    IN  IF slot = NULL THEN u
        ELSE IF slot = u.currentProcess THEN [v EXCEPT !.status[slot] = "DEAD"]
        ELSE addToFreeSlots([v EXCEPT !.status[slot] = "FREE"], slot)

Levels(u) == {p \in Priority : u.priorities[p] # NULL}

\* The first ring that is not empty gives the next process: behind the
\* current one if that has its priority, else the first.  A dead process is
\* taken off its ring, where it has not been since schedRemove.
schedSchedule(u) ==
    LET current == u.currentProcess
        level == CHOOSE p \in Levels(u) : \A q \in Levels(u) : p <= q
        same == u.priority[current] = level
        next == IF same THEN u.nextInPriority[current] ELSE u.priorities[level]
        v == [u EXCEPT !.priorities[level] = next,
                       !.status[current] = IF u.status[current] = "RUNNING" THEN "READY"
                                           ELSE u.status[current]]
        w == IF v.status[current] # "DEAD" THEN v
             ELSE addToFreeSlots(removeFromReadyList([v EXCEPT !.status[current] = "FREE"],
                                                     current), current)
    IN  IF Levels(u) = {} \/ next = NULL THEN Stuck(u)
        ELSE [w EXCEPT !.currentProcess = next]

-----------------------------------------------------------------------------
(* What the callers do.                                                    *)

Current == t.currentProcess
CurrentPid == t.pid[Current]
Listed == {t.pid[t.indexes[n]] : n \in DOMAIN t.indexes}

\* The rings hold the ready processes of their priority, each once, and the
\* list of sleepers those that wait.  What the code does once this is no
\* longer so is not modelled further.
RingWhole(p) ==
    LET members == {s \in Slot : t.status[s] \in {"READY", "RUNNING"} /\ t.priority[s] = p}
        at == Walk(t, p)
    IN  IF members = {} THEN t.priorities[p] = NULL
        ELSE /\ {at[n] : n \in 0 .. Cardinality(members) - 1} = members
             /\ at[Cardinality(members)] = at[0]

Whole ==
    /\ ~t.stuck
    /\ \A p \in Priority : RingWhole(p)
    /\ ToSet(t.waitingList) = {s \in Slot : t.status[s] = "WAITING"}
    /\ pc \in {"user", "block"} => t.status[Current] = (IF pc = "user" THEN "READY" ELSE "BLOCKED")

\* The statics before schedSetUp.
Blank == [pid |-> [s \in Slot |-> 0], priority |-> [s \in Slot |-> 0],
          status |-> [s \in Slot |-> "FREE"],
          nextInPriority |-> [s \in Slot |-> NULL],
          waitingTicks |-> [s \in Slot |-> 0],
          indexes |-> <<>>, currentProcess |-> NULL,
          waitingList |-> <<>>, freeList |-> <<>>,
          priorities |-> [p \in Priority |-> NULL], stuck |-> FALSE]

schedSetUp ==
    LET freed[s \in 0 .. MaxProcess] ==
            IF s = 0 THEN Blank ELSE addToFreeSlots(freed[s - 1], s)
    IN  freed[MaxProcess]

schedSetUpInit(u) == schedContinue(schedAdd(u, InitPid, 0), InitPid)

schedStart(u) ==
    LET level == CHOOSE p \in Levels(u) : \A q \in Levels(u) : p <= q
    IN  [u EXCEPT !.currentProcess = u.priorities[level]]

\* procSetup: INIT runs and has created IDLE, with the lowest priority.
Init ==
    /\ t = schedContinue(schedAdd(schedStart(schedSetUpInit(schedSetUp)),
                                  IdlePid, CantPriorities - 1), IdlePid)
    /\ pc = "user"
    /\ asleep = {}
    /\ due = [s \in Slot |-> 0]

\* procCreate.  The process table has as many slots and no pid twice.
Create(pid, priority) ==
    /\ pc = "user" /\ CurrentPid # IdlePid
    /\ t.freeList # <<>> /\ pid \notin Listed
    /\ t' = schedContinue(schedAdd(t, pid, priority), pid)
    /\ UNCHANGED <<pc, asleep, due>>

\* semDec of a semaphore that is down; interrupts are disabled until the
\* yield.  INIT never does it.
Block ==
    /\ pc = "user" /\ CurrentPid \notin {InitPid, IdlePid}
    /\ t' = schedChangeStatus(t, CurrentPid, "BLOCKED")
    /\ asleep' = asleep \cup {CurrentPid}
    /\ pc' = "block"
    /\ UNCHANGED due

\* semInc, called by a process or by an interrupt handler.
Wake(pid) ==
    /\ pc # "block"
    /\ pid \in asleep
    /\ t' = schedChangeStatus(t, pid, "READY")
    /\ asleep' = asleep \ {pid}
    /\ UNCHANGED <<pc, due>>

\* sysfSleep: interrupts are enabled again before the yield.
Sleep(ms) ==
    /\ pc = "user" /\ CurrentPid # IdlePid
    /\ t' = schedSleep(t, SleepTicks(ms))
    /\ due' = [due EXCEPT ![Current] = SleepTicks(ms)]
    /\ pc' = "sleep"
    /\ UNCHANGED asleep

\* procEnd, and procKill once for each process it tags: with the current one
\* among them the others follow before its yield.
Kill(pid) ==
    /\ pc \in {"user", "dead"} /\ (pc = "user" => CurrentPid # IdlePid)
    /\ pid \in Listed \ {InitPid, IdlePid}
    /\ t' = schedRemove(t, pid)
    /\ asleep' = asleep \ {pid}
    /\ due' = [due EXCEPT ![getByPid(t, pid)] = 0]
    /\ pc' = IF pid = CurrentPid THEN "dead" ELSE pc

SetPriority(pid, priority) ==
    /\ pc = "user" /\ CurrentPid # IdlePid
    /\ pid \in Listed \ {IdlePid}
    /\ t' = schedSetPriority(t, pid, priority)
    /\ UNCHANGED <<pc, asleep, due>>

\* int 08
Timer ==
    /\ pc # "block"
    /\ t' = schedSchedule(schedTicks(t))
    /\ due' = [s \in Slot |-> IF due[s] > 0 THEN due[s] - 1 ELSE 0]
    /\ pc' = "user"
    /\ UNCHANGED asleep

\* int 7F
Yield ==
    /\ CurrentPid # IdlePid
    /\ t' = schedSchedule(t)
    /\ pc' = "user"
    /\ UNCHANGED <<asleep, due>>

Next ==
    /\ Whole
    /\ \/ \E pid \in Pids, p \in Priority : Create(pid, p)
       \/ Block
       \/ \E pid \in Pids : Wake(pid)
       \/ \E ms \in SleepMs : Sleep(ms)
       \/ \E pid \in Pids : Kill(pid)
       \/ \E pid \in Pids \cup {InitPid}, p \in Priority : SetPriority(pid, p)
       \/ Timer
       \/ Yield

Spec == Init /\ [][Next]_vars

-----------------------------------------------------------------------------
(* Properties.                                                             *)

SlotOrNull == Slot \cup {NULL}

\* The five structures hold slots, and no sleeper's ticks go below zero.
TypeOK ==
    /\ t.status \in [Slot -> Status] /\ t.priority \in [Slot -> Priority]
    /\ t.nextInPriority \in [Slot -> SlotOrNull] /\ t.priorities \in [Priority -> SlotOrNull]
    /\ t.waitingTicks \in [Slot -> Nat] /\ due \in [Slot -> Nat]
    /\ t.currentProcess \in Slot /\ t.stuck \in BOOLEAN
    /\ pc \in {"user", "sleep", "block", "dead"} /\ asleep \subseteq Pids
    /\ \A list \in {t.indexes, t.waitingList, t.freeList} : ToSet(list) \subseteq Slot

\* getByPid: the bisection of the array that the shell sort left finds every
\* process in its slot and no other pid, and each slot is either in the
\* array, on the stack of free slots, or that of the dead process which is
\* still current.
SlotsAreFound ==
    /\ \A n \in DOMAIN t.indexes : getByPid(t, t.pid[t.indexes[n]]) = t.indexes[n]
    /\ \A pid \in Pids \ Listed : getByPid(t, pid) = NULL
    /\ Len(t.indexes) + Len(t.freeList)
          = MaxProcess - Cardinality({s \in Slot : t.status[s] = "DEAD"})
    /\ ToSet(t.freeList) = {s \in Slot : t.status[s] = "FREE"}

\* enqueTicks, schedTicks: with the times of the list relative to each other,
\* each sleeper's own time is what it asked for less the ticks since.
SleepersOnTime ==
    Whole => \A n \in DOMAIN t.waitingList :
                 TimeOf(t, n) = due[t.waitingList[n]] /\ due[t.waitingList[n]] > 0

\* schedSchedule, removeFromReadyList: only these steps break a ring or do
\* not end: a process that is not ready is removed or gets another priority;
\* a dead process is evicted that was not alone on its ring, or whose ring
\* another has joined since; a sleeping one that was alone yields after
\* another has joined its ring.
OffRing(pid) == t.status[getByPid(t, pid)] \in {"WAITING", "BLOCKED"}
WasAlone == t.nextInPriority[Current] = Current
Joined == \E s \in Slot : t'.priority[s] = t.priority[Current] /\ t'.status[s] = "READY"
Treacherous ==
    \/ \E pid \in Pids : Kill(pid) /\ OffRing(pid)
    \/ \E pid \in Pids \cup {InitPid}, p \in Priority : SetPriority(pid, p) /\ OffRing(pid)
    \/ /\ Timer \/ Yield
       /\ t.status[Current] = "DEAD" => ~WasAlone \/ Joined
       /\ t.status[Current] # "DEAD" => t.status[Current] # "READY" /\ WasAlone /\ Joined

BrokenOnlyOffRing == [][Whole' \/ Treacherous]_vars
=============================================================================
