# Damocles: a verification development

Damocles is a small x86 kernel in C and assembler (`src/Damocles`): pre-emptive
processes, a round-robin scheduler, semaphores, terminals with circular input
buffers, a file system in memory and a shell on each of three terminals.  This
directory holds TLA+ modules of its core, the TLC configurations that check
them on small instances, and theorems about them checked with TLAPS.

The code runs on one processor.  What makes it hard is that

* the timer, the keyboard and the mouse interrupt a process between any two
  instructions while interrupts are enabled.  System calls (`sys.asm`, int 80)
  enable them on entry, so "in the kernel" is no protection; some functions
  disable them again (`disableInts`), many do not;
* processes are created, killed and collected in any order, their slots, pages
  and semaphores are used again, and three tables (the process table, the
  scheduler's list, the arrays of sleepers) learn of an end at different times;
* arrays are small and circular (10 sleepers, 70 semaphores, 71 slots, 3000
  characters), and most limits are not tested for.

## Inventory

| component (source) | state | operations | with whom it interacts | what makes it correct | modules |
|---|---|---|---|---|---|
| scheduler (`sched.c`) | `sched[71]`: status, ticks, `nextSlot`; `currentSlot`, `processCant` | `schedSchedule`, `schedTicks`, `schedAdd`, `schedRemove`, `schedChangeStatus`, `schedSleep` | called from the timer (`sys.asm`), `yield`, `process.c`, `semaphore.c`; calls `procReadyToRemove` and the memory switch | the list is one cycle; the scan ends, takes the next ready process, starves nobody | `Sched`, `RoundRobin`, `SchedProofs` |
| semaphores (`semaphore.c`) | counter, circular array of sleepers; a pool of 70 | `semDec`, `semInc`, `semConsume`, `semGetID`, `semRetID` | `waitpid`, `sysread`, the keyboard interrupt; `schedChangeStatus` | no wake lost, no sleeper lost, first in first out | `Semaphore`, `SemaphoreFifo`, `SemaphoreProofs` |
| process table (`process.c`, `sys.c`, `exceptions.c`) | `proc[71]`: pid, parent, status, `readyToRemove`, two semaphores, child count, stack page | create, exit, kill (with descendants), fault, waitpid, sleep | scheduler, semaphores, pages, INIT | an end is told once and to the right parent; nothing is freed early, twice or never; a waiting parent is woken | `Process` |
| pages (`mmu.c`, `lib/stack.c`) | stack of free pages, present bits | `getPage`, `freePage`, `enablePage`, `disablePage` | process stacks, file system | one owner for each page, none lost | `Process`, `FileSystem` |
| INIT and boot (`kernel.c`) | - | sets everything up; collects orphans for ever | `procWaitPid` with interrupts enabled | the same as for the process table | `Process` |
| input (`IO.c`, `keyboard.c`, `ttys.c`, `clipboard.c`, `mouse.c`) | a circular buffer and semaphore for each terminal, the active terminal, control key, clipboard | `bufferAdd`, `sysread`, `ttySetActive`, `clipboardPaste` | interrupts produce, readers consume | keys are read in order, once, and by the terminal they were typed at | `KeyInput`, `KeyInputProofs` |
| output (`IO.c`, `drivers/video/crtc6845.c`, `lib/video.c`, `sysvideo.c`) | a buffer for each terminal; the pages of the screen, a position in each, the marks of lines to redraw, the page shown | `syswrite`, `bufferFlush`, `sysflush`, `_vtflush`, `_vtcflush`, `rerenderVideo`, `_vsetpage` | processes write with interrupts enabled; the keyboard interrupt changes the page, the mouse interrupt redraws it; all pages share the marks | what was written is shown; a terminal writes to its own page | `Screen`, `ScreenProofs` |
| file system (`filesystem.c`, `process/mkdir.c`, `open.c`, `rm.c`, `write.c`, ...) | pages with a header and entries | make, open, look up, remove, write | pages; several shells at once, no lock | the pages are a tree of names; no page lost or shared | `FileSystem`, `FileTree`, `FileSystemProofs` |
| priority scheduler (`schedpriority.c`) | the slots of the table, linked in five ways: free slots, an array sorted by pid, a ring of ready processes for each priority, sleepers by time | the same functions as `sched.c` (which it replaces if the Makefile says so), `schedSetPriority` | the same callers as `sched.c` | every process is found; rings stay whole; sleepers wake in time | `SchedPriority`, `SchedPriorityProofs` |
| shell (`shell/shell.c`), execution contexts (`process.c`) | one line and its index, the words found in it, history, working directory and ten contexts, shared by the three shells | reads keys into the line, takes it apart, fills a context, creates a process, waits for it | terminals; `getContext`, `contextAddArg`, `contextCreate`, called directly with interrupts enabled | the command that runs is the one that was typed; contexts are not used up; the history stays in its array | `Shell`, `ShellProofs`; its pattern of calls in `Process` |
| library, clock, demonstration programs, tests, boot loader | - | - | - | - | not modelled |

`PROJECT.json` lists the same components with their files, and under "hazards"
every place where this code is hard to test, with the properties that watch it.

## The modules

### `Sched` and `RoundRobin`: the scheduler

State: the table as the functions `status`, `waitingTicks` and `nextSlot`,
`currentSlot`, `processCant`, and the two locals `newSlot` and `i` of the loop of
`schedSchedule`.  `pc` says whether the loop is under way; `pc = "yield"` is a
system call that has changed its own status and is about to yield.

The loop is one action per iteration (`ScanSkipIdle`, `ScanPick`, `ScanReap`,
`ScanNext`, `ScanGiveUp`, in the order of its tests); it runs inside an interrupt
handler with interrupts disabled, so nothing interleaves with it.  `Timer` is
`int_08_handler` (`schedTicks`, then the loop), `Yield` is `int_7F_handler`.
`Create`, `Kill`, `Exit`, `Sleep`, `Block` and `Wake` are the calls the rest of
the kernel makes on the table.  `asleep` holds the slots whose pid sits in a
semaphore's array, so that `Wake` reaches exactly those: also one that is DEAD
but still listed, which it makes READY (see *Disagreements*).

`RoundRobin` says what the loop should compute, as a function of the list
written as a sequence; `MCSched` maps the pointers to that sequence and states
that the loop computes it (`ScanIsRoundRobin`), which is checked and proved.
`Process` schedules with `RoundRobin`, which is thereby justified for every table.

Left out: names, priorities, tick statistics.  A process is its slot.

### `SchedPriority`: the scheduler with priorities

The statics of `schedpriority.c` are one record `t`; each of its functions is an
operator from records to records (`addToReadyList`, `removeFromReadyList`,
`enqueTicks`, `orderIndexes`, `getByPid`, `schedSchedule`, ...) and the actions
are its callers: `Create`, `Block`, `Wake`, `Sleep`, `Kill`, `SetPriority`, `Timer`,
`Yield`.  `pc` marks a system call that has changed its status and has yet to
yield; in `sysfSleep` interrupts are enabled in between, so a tick may come first.
The shell sort and the bisection are computed as the code does, not by a
declarative sort.  `due` remembers the ticks each sleeper asked for.

The file does not work as it stands: `schedSchedule` takes a dead process off its
ring although `schedRemove` has done so, and `schedRemove` and
`schedSetPriority` take off a ring what is on none.  The walk for the
predecessor then never ends, or the ring of another is lost.
`BrokenOnlyOffRing` names the steps that do this and shows that no other
does; the model does not go on behind them (`Whole`), so `SlotsAreFound` and
`SleepersOnTime` speak of the runs until then.  Left out: names and tick
statistics.

### `Semaphore` and `SemaphoreFifo`

One semaphore with its array of `MaxPids` places (one stays empty), `first`,
`last` and `value`.  `Test` is the test for room `semDec` makes before it
disables interrupts, `Dec` the rest of it, `Return` its end after a wake;
`semInc` wakes the first pid still on the scheduler's list, dropping those that
are not; `semConsume` takes a counted wake.  `Kill` and `Reap` are the death of
a user of the semaphore and its unlinking.  With `InterruptsOff` the test and
the rest cannot be separated, as in `waitpid`.  `SemaphoreFifo` is the
specification of `semaphore.h`: a counter and a sequence of sleepers.
`Fifo` states that the array implements it (`queue <- Queue`).

A wake given to a pid that is DEAD but still listed is spent on it, as in the code.
The error return of `semDec` on a full array is not used by its callers.

### `Process`

The kernel's tables as one record `k`; each C function is an operator from
tables to tables and each system call an action that composes them, in the
order of the calls: `Exit`, `Kill(pid)` with the tagging of descendants, `Fault`
(`exceptions.c`), `Sleep`, `WaitPid`/`PollPid`/`WaitReturn` (`procWaitPid` up to its
sleep and after it), `Timer`.  These system calls disable interrupts around their
work (`sys.c`) and are one step each.  The memory switch, which clears and sets the
present bit of stack pages, is part of every dispatch.

Two calls run with interrupts enabled, and the timer may come between any two of
their steps:

* the shell calls `contextCreate` directly.  `Create` is `CreatePop` (`getPage` reads
  the top of the stack of pages), `CreateTake` (it moves the top and looks at the present
  bit), `CreateSlot` (it sets the bit; `getFreeSlot`) and `CreateRest` (the rest of
  `procCreate`, from the first `semGetID` on, which disables interrupts).  `making` keeps
  what each process in it has found so far.
* INIT calls `procWaitPid`.  Its loop goes on at `initLoop.at`, access by access to
  what others write: the search and the checks (`InitPoll`), the flag
  (`InitFlag`, `InitMark`), the orphans one by one (`InitHeir`, `InitAdopt`, `InitCount`), the
  four calls of `deallocProcess` (`InitDealloc`), the wakes (`InitWakes`);
  an increment is a load and a store (`InitStore`).  What is not a step of its own is
  said at the definition, with the reason: `InitPoll` is the end of a loop that only
  reads.

With `AnyProgram = FALSE` creating and waiting follow the pattern of the shell's
commands: a shell creates a process and waits for it or polls for it, and the commands
create nothing.  Anybody may fail, exit or kill anybody at any time; with
`TRUE` any call is made at any time.

Steps that cross do break the tables.  `Crossing` names the ways, at the step that does
it, and `crossed` remembers them:

| name | what crosses | source |
|---|---|---|
| `marks` | the flag INIT has tested is set before INIT sets it | `process.c:387, 395` |
| `reuses` | slot or semaphore of the process INIT collects has a new owner before INIT takes the wake | `process.c:726, 731` |
| `adopts` | the child INIT has tested changes before INIT adopts it | `process.c:399, 400` |
| `counts` | a counter changes between INIT's load and store of it | `process.c:391, 401`, `semaphore.c:58` |
| `pops` | a page is popped between another's reading of the top and its store | `stack.c:57` |
| `takes` | a creation writes over a slot that another took meanwhile | `process.c:200` |
| `tags` | a kill tags a slot for the ppid left in it when it was freed | `process.c:649` |
| `clears` | a kill clears the flag of a descendant that is dead already | `process.c:333` |
| `undead` | a killed process makes a call: it killed itself and no tick came yet, or a wake made it READY | `semaphore.c:105` |

`again` remembers that some end was told of twice.  `Undisturbed` (none of these but `clears`)
is the condition of `ChildCountRight`, `FreedLast`, `WaiterHasLiveChild` and
`WakesAreZombies`: they say that these are all the ways, that whatever else falls
between the steps does no harm.  Each of them is real; `process_removal` shows `marks`, and
with `reuses` a parent sleeps for ever, its child's wake eaten by INIT.
`RunningStackPresent` depends on `pops` only, `FreedAtOnce` on `tags` and `clears`.

### `KeyInput`

`term[t]` is the input descriptor of terminal t, its semaphore and its one
reader; the n-th key typed at a terminal is the number n.  `keyboardRoutine`,
`specialKey`, `ttySetActive` and the paste run to their ends (interrupt
handlers); the paste is a step for each character and excludes everything else until
it is over.  The reader is cut into `SemDec`, `Load` (the load of the character)
and `Return` (the new head and the return), between which interrupts fall.
Left out: what a scan code means; more than one reader at a terminal; `flush` on
the input descriptor, which no program of the repository calls.

### `FileSystem` and `FileTree`

Pages hold `items` (the header) and `entry` (the elements, also the stale ones
behind the header's count).  `mkdir` and `open` are six steps: look up (`Begin`),
`getPage`, `insertEntry` in three (`CopyHeader`, `WriteEntry`, `WriteHeader`) and
the new page's header (`MakeHeader`).  `mkdir` takes any name, as `makeDir` does not look
whether it exists; `open` creates only what it does not find.  `removeFile` and
`removeDir` are one action each.  A look-up passes through files too: a file's header
begins with `nextBlock`, 0, which reads as a directory without items; the model does the
same, and it finds the first element of a name.

`FileTree` is the promise: a set of elements, each with its directory, its place
there, its name and its kind.  A name may be there twice; a path means the first
of its elements, the next appears when that one is removed, and `rm -r` takes all
below the one it found, hidden elements included.  `IsATree` maps the pages to it:
the elements that can be reached from the root by pages, whether or not a name finds
them.  An entry whose page still has its old header is not yet part of the tree.

Bounds (`WithinBounds`): commands start only while there are pages left and room for
`MaxItems` elements; the code looks for neither.  Left out: contents of files; `.` and `..`.

### `Screen`: from `write` to the video memory

`out[p]` is the buffer of the terminal of process p; `proc[p]` says how far its call
is and holds the driver's local variables.  `videopages` are the pages one behind the
other, as in the array: a tab may run over from one into the next.  The driver runs with
interrupts enabled and without a lock, so each access to a variable that processes share is
a step, in the order in which the code, compiled as its Makefile says (without
optimisation), makes them: a scroll cell by cell and then its position and flag
(`Move`, `ZeroPos`, `Flag`); `_vtflush` with its mark, the load and the store of
`linepos[page]++`, the character, the tests of the position of the page shown
(`TakeTty` to `ZeroShown`); `_vtcflush` (`TakeCursor`, `PutCursor`); `rerenderVideo` and
`copyLine` line by line and byte by byte, each byte a load and a store (`TestScrolled` to
`ClearFlag`).  `_vresetpage` (`clearScreen`) is a scroll that blanks all.  `SetPage` (the
keyboard's interrupt) and `ResetSelection` (the mouse's) run to their end and redraw
everything.

`ScreenIsPage` treats the marks as what they are, a record of what the screen
does not show yet: unless `spoilt`, every line that differs from the page shown is marked, or
about to be, or being drawn, by the process that writes it.  `spoilt` says that since the
last full redraw something was lost in one of five ways: a mark is cleared that another
relies on (`LosesMark`), or the flag of a scroll (`LosesFlag`); a character is written when
its mark is gone already (`WritesUnmarked`); a process that is not shown runs over into the
page that is (`RunsOver`); a byte is stored on the screen that its page does not hold any
more, as when the page was changed since its load (`StoresStale`).  Rewriting the byte repairs
some of them; the property makes no use of that.

`OnlyUnseenTabsRunOver` says who writes into another page's memory: only a process in a tab one of
whose tests for the end of the line looked at another page, since it tests the position of the page shown
(`crtc6845.c:258`).  By the time the character lands its own page may be the one shown.

Two pairs of accesses are one step: a byte is read with the page to read it from, and a
scroll moves a character at once.  Left out: attributes, the light pen, the hardware
cursor, several writers at one terminal.

### `Shell`: three shells over one set of statics

`pc[s]` is where shell s is; all other variables of the code are shared by the shells.
The steps end at each key and between the routines that read a line
(`Key`, `EndLine`), put it into the history (`commitCommand`, `Save`, `Wrap`), take
it apart (`getCommandFromPrompt`, `getFlagsFromPrompt`, `getParamsFromPrompt`),
choose a command (`executeCommand`) and fill and use a context (`getContext`,
`initContext`, `contextAddArg`, `contextCreate`, `Wait`).  Characters are model
values; the commands are one letter each, which stand for the three lists of
arguments the commands of the repository have.  A context's arguments are
pointers; `contextCreate` copies what they point to.

`RunsWhatWasTyped` compares the process with what the user of the terminal
typed, edited by the meaning of the keys, for lines that the parser can take
(`WellFormed`: it counts the leading blanks as letters, and copies parameters
only behind flags that a blank ends) and as long as no other shell has touched the
line, the directory or the context (`alone`).

Left out: the commands the shell runs itself, what the history holds (`fetchCommand`
never shows it), interrupts inside one of the routines, the limits of 40
characters.  A shell that finds no context (`getContext` returns NULL) goes on
in undefined behaviour; the model stops it (`lost`).

## The runs

| run | what it shows | bounds, and why they are enough |
|---|---|---|
| `sched` | the safety of the list, the scan's result, and the liveness of ready and sleeping processes | 5 slots: INIT, IDLE and three more, so that the current process, the one inserted behind it and one further on are different; 3 creations, which reuse slots; sleeps of one and of no tick |
| `semaphore` | the array with its callers' interrupts disabled implements the queue | 4 processes for 3 places (2 usable), so that it is full, wraps around, and a process is refused; at most 2 wakes counted; symmetric in the processes; may stop when all are dead |
| `process` | the tables agree, nobody is freed early or twice, no wake is lost, no parent waits for nobody, unless steps crossed in a named way | 5 slots: INIT, IDLE, two shells that create at once and one slot more, so that a slot, its semaphores and its page are wanted by two and used again (`MaxCreated` 2); 5 pages, so that each creation finds one; at most 3 zombies and ends told of together (`MaxDead`), so that INIT has to choose between two and a slot is used again behind an orphan; explored up to the first crossing (`WithinBounds`) |
| `key_input` | keys are read in order, each once, and all of them | 2 terminals, a buffer of 3 places (2 usable) with 4 keys, so that it wraps around, and fills; pastes of 1 and 2 |
| `file_system` | the pages implement the tree and are all accounted for | 1 shell, 4 pages, 2 elements in a directory, four paths down to depth 3, so that `rm -r` meets grandchildren, a name is taken twice and pages are used again as the other kind; stops when the directories are full |
| `sched_priority` | the five structures agree, sleepers are woken in the tick they asked for, only the named steps break a ring | 4 slots (INIT, IDLE and two more) and 2 priorities, so that a process is alone on its ring, shares it with INIT or with another; sleeps of 0 to 3 ticks, at the edges of the rounding; may stop where a ring is broken |
| `screen` | the screen shows the page but for the named losses; only a tab whose test looked elsewhere leaves its page | 2 pages of 2 lines of 2 characters, tabs of 2: every tab and every second letter fills a line and every second line scrolls; buffers of 2; 4 calls, so that both processes flush, or one twice |
| `shell` | the command that runs is the one typed, contexts leak only by failures, the history is left only by two at once | a line of 6, all 6-key sessions at one shell, and sessions of two and three shells chosen so that lines, words, contexts and the history collide; 2 contexts, 2 lines of history, 1 failed creation; stops when all has been typed |
| `semaphore_full`, `process_dead`, `process_removal`, `file_system_race` | one disagreement each, below | the smallest instance in which it appears |

Each property of a passing run has a mutant (an operator named
`<definition>_<change>` next to the definition) that breaks it.

### Fairness

* `Sched`: weak fairness of the loop of `schedSchedule`, which runs with
  interrupts disabled; strong fairness of `Timer`: interrupts are enabled again
  and again, and the interrupt controller keeps the pending tick.
* `KeyInput`: weak fairness of the paste (inside an interrupt handler); strong
  fairness of each reader's next step: the shell's loop keeps calling
  `getchar`, a ready process gets the processor (`ReadyRuns`), and a paste
  interrupts it only for a while.
* The other modules are checked for safety only.  That nobody waits for ever in
  `Process` is stated as the invariant `WaiterHasLiveChild`, because the
  temporal form was too slow to check.

`ReadyRuns` holds with boundedly many creations.  With a program that creates and kills
processes for ever, two dead in each scan, the early end of the scan (*Known limits*)
could keep a process from its turn.

## Disagreements with comments and headers

| run | what happens |
|---|---|
| `semaphore_full` | the test for room precedes the disabling of interrupts; the array can be filled to look empty, and its sleepers are lost |
| `process_dead` | a process killed while it sleeps on a semaphore is resurrected by the next wake if it is still listed |
| `process_removal` | INIT and the scheduler both see the other's work undone; a zombie stays and is reported again |
| `file_system_race` | two shells that create in one directory write the same entry |

## Proofs

`SchedProofs` proves, for every table size, every bound on creations and every
set of sleeping times, that `TypeOK`, `RingIsOneCycle`, `CountIsRingSize`,
`CurrentIsOnRing` and `SleepersHaveTicks` hold in every reachable state of `Spec`.
The invariant `IInv` is their conjunction with two more: `ScanIsOnRing` (during the
scan its position and the current slot are where an unlinking needs them) and
`AsleepOnRing` (whoever is in a semaphore's array and can be woken is in a used slot).
They are needed because a scan unlinks slots it stands next to, and because a
wake writes a status without looking.  The heart are two lemmas on cycles,
`InsertKeepsCycle` and `UnlinkKeepsCycle`: "one cycle" is stated as "no nonempty
proper part is closed under `nextSlot`", which needs no induction.
`IdleCorrect` adds `IdleOnlyWhenNobodyReadyIfFewDied`.  It needs to know what the scan has
seen: a set `V` of listed slots, none of them ready, in which every slot is followed by
another of `V` or by the one looked at next (`Saw`).  `V` has one slot for each iteration
but those that unlinked one, until the scan comes round; then it is closed under
`nextSlot`, hence the whole list.

`ScanCorrect` is about the whole scan: for every table size the loop, which follows
pointers and changes them as it goes, computes `RoundRobin` (the action property
`ScanIsRoundRobin`).  `WalkAround` turns the cycle into a sequence: a walk along `nextSlot`
in one cycle meets everybody before it comes back (`Spells`).  From this `WalksCorrect`
follows, that the walks of `findSlot` and `schedTicks` miss nobody.  `OnlyKeeps` says
what a filter leaves of a sequence, `Unlinked` being what the filter of `RoundRobin` drops.
The invariant of the loop, `ScanInv`, says that there are a list `o` and statuses `e`,
those found at the entry, such that

    Scanning(n, o, e)

holds: the slots behind the places `Gone` so far are `FREE`, every other slot has the
status of the entry, and `nextSlot` leads from each place that is left, and from where the
scan stands, to the next place that is left (`Links`).  The place the scan stands on may itself
be gone, which is why its link needs saying.  `UnlinkKeepsLinks` is the step that
unlinks a slot in front of the scan, and at the end the walk along `nextSlot` and `NextOrder`
spell the same cycle from the same slot, so that they are equal (`OneSpelling`).

The assumptions are those of `Sched`: at least two slots.

`SemaphoreProofs` proves `NoWakeMissed`, `SleepersQueued`, `QueuedOnce`,
`NobodyPassesFree` and the refinement `Fifo` for any number of processes and
places, under `Discipline`: the callers have interrupts disabled, or there are
fewer processes than places.  `semaphore_full` shows that the assumption is
needed.  The invariant adds that who is in the array and on the scheduler's list
is asleep, and that at most as many have tested for room as there is room for.
The refinement goes through the sequence the window of the array holds:
sleeping appends to it, a wake takes a prefix off.

`SchedPriorityProofs` proves `TypeOK`, `SlotsAreFound` and `SleepersOnTime` for every
number of slots and priorities, every set of pids and of sleeping times.  Three
algorithms are proved on the way.  `OrderSorts`: the shell sort of `orderIndexes`
leaves the array sorted by pid and keeps its slots, whatever the size; the rounds
of its inner loop keep the part before the gap sorted in steps of the gap, and
the last gap is 1.  `GetByPidFinds`: the bisection of `getByPid` finds a pid exactly if
a slot of the array has it.  And the relative times of `enqueTicks` and `schedTicks`:
what stands before a sleeper in the list adds up to the ticks it has still to wait
(`OnTime`).  The invariant is

    IInv == Typed /\ Kept(t) /\ PidsKept(t) /\ (Whole => OnTime(t, due))

`Kept` says that the array holds the slots in use, each once and sorted, that the
stack holds exactly the others, and that a DEAD slot is the current process's.
`SlotsAreFound` alone is not inductive: the search is right only in a sorted
array, and the array stays sorted only if what is taken out is found.  `OnTime` is claimed
only while rings and list are whole, because `removeFromReadyList` on a broken ring
may stop anywhere; `SleepersOnTime` is not claimed there either.

`RingsCorrect` is the fourth result, the action property `BrokenOnlyOffRing`: a step that is none
of the named ones keeps every ring, whatever the number of slots, priorities and pids.  Like
`RingIsOneCycle`, a ring is described without paths (`Circle`): `nextInPriority` maps
its slots to themselves, and no nonempty proper part of them is closed under it.  `RingIsWhole` shows that
this is what `RingWhole` says with its walk from the first slot on (`WalkAround`: a walk in a circle
meets everybody before it comes back), so that `Whole` is `Sound` (rings) with `Sleepers` (the list) in every
table (`WholeIsSound`).  `AddRings` and `RemoveRings` are the two functions that change links;
`PrevFound` that the walk of `getPrevReadySlot` ends at the predecessor of whoever is on a ring.
The invariant is `IInv` with `Callers`, which holds in broken tables too:

    Callers == NoneRuns(t) /\ HasIdle(t) /\ AreBlocked(t, asleep) /\ Parked(t, pc)

No status is `RUNNING`, so that leaving and joining a ring go with `READY` alone;
IDLE is `READY`, so that `schedSchedule` finds a ring; who sleeps on a semaphore is `BLOCKED`, hence on no
ring when `schedContinue` puts it on one; and a caller that is still to yield is where its
call has left it, its link leading to itself or to a ready process of its priority (`Rests`),
through which `schedSchedule` may still take it for a member.  `MayPass` is when that does no harm,
and the last disjunct of `Treacherous` is its negation.

`KeyInputProofs` proves `TypeOK`, `WakesAreKeys` and `KeysInOrder` for any number of
terminals, any buffer size from 2 on, any keys and pastes.  The invariant (`Queue`)
describes the buffer of a terminal that has dropped nothing: from `head` on it holds the
keys read + 1 to typed, in that order, and there are as many of them as the
semaphore and a reader on its way count together.

`ScreenProofs` proves `TypeOK`, `ScreenIsPage` and the action property
`OnlyUnseenTabsRunOver` for any number of pages, rows and columns, any tab and
buffer size, with a lemma for each action of the driver.  The invariant is
`IInv == Typed /\ Cover`.  `Typed` adds to the types what is true of the local variables of a
process where it is in the driver (`Sound`): how far the position of its page may be over the
line, counted in the blanks of the tab done so far (`Reach`), that it is not over the line at
all before the next blank of a process none of whose tests looked elsewhere, and that the buffers have room
for what is still to be written (`Room`).  `Cover` is `ScreenIsPage` for each place of
the screen instead of each line: who draws a line is in the middle of it.  `StepCovers` is the
lemma the steps share: a place that differs behind a step is to be drawn by who made the step, or
it differed before and who was to draw it still is, and else the step is one that spoils.

`ShellProofs` proves `TypeOK`, `ContextsLeakOnlyByFailure` and `HistoryLeftOnlyTogether`
for any number of shells, contexts and lines.  For the types the question is whether
`index` stays in the line: a shell that has tested it may be overtaken by
another, so a line of `MaxComm` may be passed by as many characters as there are other
shells; `FullLine` counts the readers that may still add one.  The contexts
are inductive with the shape of the variables (`LeakInv`): every step leaves the
set of leaked contexts as it is or
smaller, but for a failed creation, which adds one; two shells on one context do
not matter, since its use ends with the first of them that creates a process
and begins again with the one that still fills it.  The history needs that behind the last line
stands only a shell about to test (`HistoryInv`).

`FileSystemProofs` proves `OnePageOneOwner`, `PagesAccounted` and the refinement
`IsATree` for any number of pages, names, entries of a directory and any depth of
paths, if there is one shell (`OneShell`).  With several the properties are false:
two commands that fill the same entry lose a page (`file_system_race`), and a directory
removed under a command is written to after its page was used again.  That entries stay
within `MaxItems` is the bound's doing and claimed for the runs only.

The invariant names the tree that the pages hold: the set `T` of its pages and how deep each lies.

    IInv == TypeOK /\ \E T, depth : Holding(T, depth)

`Holding` says that `T` is a tree (`TreeOf`: the elements of each directory lead to pages of
`T` one deeper, no two elements to one page, and every page but the root is entered
somewhere), that every page is in `T`, on the stack, held by the command or leaked
(`Owned`), and what the command has found out so far (`AtWork`).  None of the three
properties is inductive: that no two elements share a page says nothing of stale entries
behind `items`, which become elements when the count grows.  `under`, what is reached
from a page, is defined without paths, as the least set closed under the elements' pages, so
that elements hidden behind others of their name count; `UnderRoot` shows that it is `T`.
`LookUp` says that `getElementFromPath` and `find` of `FileTree`, both loops over the
names, meet the same element.  `RemovalKeeps` shows that what is left behind `rm` and `rm -r` is a
tree again, and `BelowIs` that it lost what `FileTree` takes away; `UnderSplit` divides what lies below a
directory among its elements, from which it follows which pages are freed and which leak.

`Iteration` holds what loops need.  The library's induction theorems take an
operator, which the provers cannot instantiate; `RoundByRound` states
induction over the rounds of a loop as a fact about a set, and `LoopRuns` that a
variable assigned in each round has a value behind every round.  Both rest on
`SmallestExists`, the well-foundedness of the natural numbers.  With them a loop written as
a recursive function (`orderIndexes`, the bisection, the scroll, the walk down a path) is proved about
like any other definition.

The assumptions are the named ones of the modules: sizes of at least one or two
(`MaxProcess >= 2`, `BufferSize >= 2`, `BSize >= 2`: a circular array keeps one place
empty), pids of user processes other than those of INIT and IDLE, finitely many
shells, inputs that are sequences of keys; page 1 the root's, finitely many pages, at least
one name, and with a path the one above it.

Only model-checked, and why:

* liveness (`ScanEnds`, `ReadyRuns`, `SleeperWakes`, `KeyIsRead`): out of the
  prover's reach;
* `RunsWhatWasTyped` of `Shell`: a parser of sequences built by recursion and folds, whose values
  would need induction over data;
* `MadeIsThere` of `FileSystem` and whatever several shells do to it;
* `Process`: an inductive invariant would have to describe each place of INIT's loop and of each
  creation together with the tables; its properties are claimed for the instance checked.
* that a directory stays within its page: nothing in the code sees to it (`filesystem.c:82`), and
  `TypeOK` of `FileSystem` says it of the bounded runs.

## Known limits of what is checked

* `IdleOnlyWhenNobodyReadyIfFewDied` does not hold for a scan that unlinks two dead
  processes: the scan compares its iterations with `processCant`, which the
  unlinking decrements (`sched.c:127`), and runs IDLE while somebody is ready.
* `WakesAreKeys`, `KeysInOrder` and `KeyIsRead` hold until a terminal's buffer
  overflows.  A dropped key still increments the semaphore (`IO.c:244`): its
  reader reads a place already read and the terminal stays out of step.
* The stack page of every process that ended is lost: the scheduler has cleared
  its present bit when `freePage` looks at it (`process.c:593`, `mmu.c:142`).  The
  model loses it too.
* `HistoryLeftOnlyTogether` is a condition: two shells at once do leave the history,
  and no later test brings the index back (`shell.c:926-930`).
* `FreedLast` and what depends on it are claimed until somebody is told twice of one end (`again`).  It
  happens where enough end in one turn: the scan that unlinks them gives up
  early (`sched.c:127`) and runs IDLE with dead processes still listed in front of INIT.  If INIT, woken
  by them, has collected one of these and looks again at its next turn, before the
  scheduler has come to it, `procReadyToRemove` takes the flag of INIT's own first call
  for the scheduler's (`process.c:387`) and frees the process; the scheduler removes it, or whoever has its slot
  by then, once more.  The five slots of the run leave no room for this case, which takes a scan that
  unlinks several and a process that INIT collects behind them.
* The properties of `Process` are claimed until steps cross in one of the ways of the table in its section;
  what the tables look like behind that is not followed.  Behind a kill that clears a flag (`clears`) the
  slot of the dead process is never free again (`process.c:333`).
* A creation without a free slot or semaphore writes to index -1 (`process.c:200`, `semaphore.c:53`); the model
  stops it there.
* `FreedLast`, `WaiterHasLiveChild` and `WakesAreZombies` hold for programs of the
  shell's pattern.  A program that waits twice for any child before the
  scheduler has run is told of the same zombie twice.
* `semGetID` leaves interrupts disabled until the next yield; the model treats
  them as enabled at the end of each system call, which allows more interleavings.
* `NobodyPassesFree` does not count calls of `semDec` refused on a full array.
* `SleeperWakes` is checked with sleeps of one tick and of none; counting down several is in
  `SchedPriority` only.
* Removing files while other shells work on the same directory is not checked
  beyond `file_system_race`.

## Not modelled

The string, arithmetic and printing libraries (no state), the clock and the
screen saver of an earlier version, the demonstration programs, the boot
loader and the set-up of paging and interrupt tables (machine detail).  Of the
mouse, the decoding of packets and the selection of text.  `populateCommands` leaves two
entries of its table unwritten and `shell.c:553` writes parameters without a
limit: both depend on what lies in memory.

## Plan

1. Contents of files in `FileSystem`: `writeToFile` at the beginning keeps the old
   length (`filesystem.c:346`), a write to a directory of the name, `cat`.
2. Several processes of one terminal: two readers that share `head`
   (`IO.c:182`), two writers that flush one buffer (`IO.c:251`).
3. The decoder of mouse packets, which drops a byte equal to an acknowledgement
   (`mouse.c:140`) and is then out of step.
4. The pool of semaphores and the table at their limits (`semaphore.c:53`).
5. `Process`: the double removal behind a scan that gives up early (*Known limits*), as a run of
   a scenario with twelve slots, and proofs of the parts that do not depend on INIT.
