------------------------------ MODULE KeyInput ------------------------------
(***************************************************************************)
(* What is typed on its way to the program that reads it: the keyboard     *)
(* interrupt (keyboard.c), the active terminal (ttys.c), the paste of the  *)
(* mouse (clipboard.c), and IO.c's circular buffer and semaphore of each   *)
(* terminal's input descriptor.                                            *)
(*                                                                         *)
(* The interrupt handlers run to their end.  sysread runs with interrupts  *)
(* enabled, so that they may fall between any two of its steps.  Each      *)
(* terminal has one reader, the shell or the command it waits for, with    *)
(* IN_0 + terminal as its STDIN; the semaphore is that of Semaphore.tla    *)
(* for one process.  What a scan code is translated to (shift, caps, the   *)
(* tables) is left out: the n-th key typed at a terminal is n.             *)
(***************************************************************************)
EXTENDS Integers, Sequences

CONSTANTS Tty,          \* the terminals
          BufferSize,   \* BUFFER_SIZE (3000)
          MaxKeys,      \* bound: keys typed at a terminal
          MaxPaste      \* bound: the size of the clipboard (4160)

ASSUME KeyInputAssumption ==
    /\ 0 \in Tty
    /\ BufferSize \in Nat /\ BufferSize >= 2
    /\ MaxKeys \in Nat /\ MaxPaste \in Nat

VARIABLES
    term,      \* the input descriptor of each terminal and its reader
    active,    \* activeTTY
    control,   \* whether the control key is down
    pasting,   \* characters clipboardPaste has still to add
    typed,     \* history: keys typed at each terminal
    dropped,   \* history: whether a key found the buffer full
    got        \* history: the keys each reader was given

history == <<typed, dropped, got>>
vars == <<term, active, control, pasting, history>>

Index == 0 .. BufferSize - 1
WorkPage == 0                    \* WORK_PAGE
Nothing == 0                     \* what an index never written holds

\* The descriptor as fdTableInit leaves it, and its reader outside sysread.
\* "granted": semDec has returned; "loaded": bufferRead has the key, not yet
\* the new head.
opened == [buffer |-> [x \in Index |-> Nothing], head |-> 0, tail |-> 0,
           value |-> 0, reader |-> "user", key |-> Nothing]

Init ==
    /\ term = [t \in Tty |-> opened]
    /\ active = WorkPage
    /\ control = FALSE
    /\ pasting = 0
    /\ typed = [t \in Tty |-> 0]
    /\ dropped = [t \in Tty |-> FALSE]
    /\ got = [t \in Tty |-> << >>]

-----------------------------------------------------------------------------
Succ_NoWrap(x) == x + 1          \* mutation: the index is not taken around
Succ(x) == IF x = BufferSize - 1 THEN 0 ELSE x + 1

isBufferFull(b) == Succ(b.tail) = b.head

\* mutation: semInc always counts, as if nobody slept.
semInc_Counts(b) == [b EXCEPT !.value = @ + 1]

semInc(b) == IF b.reader = "asleep" THEN [b EXCEPT !.reader = "granted"]
             ELSE [b EXCEPT !.value = @ + 1]

\* mutation: the key is stored where the previous one is.
store_AtHead(b, k) == [b EXCEPT !.buffer[b.head] = k, !.tail = Succ(@)]
store(b, k) == [b EXCEPT !.buffer[b.tail] = k, !.tail = Succ(@)]

\* mutation: the semaphore is incremented only for the first key stored.
bufferAdd_WakesOnEmpty(b, k) ==
    IF isBufferFull(b) THEN b
    ELSE IF b.head = b.tail THEN semInc(store(b, k)) ELSE store(b, k)

\* A key that finds the buffer full is dropped; the semaphore is incremented
\* all the same.
bufferAdd(b, k) == semInc(IF isBufferFull(b) THEN b ELSE store(b, k))

\* The next key of the active terminal.
Add ==
    /\ typed[active] < MaxKeys
    /\ typed' = [typed EXCEPT ![active] = @ + 1]
    /\ term' = [term EXCEPT ![active] = bufferAdd(@, typed[active] + 1)]
    /\ dropped' = [dropped EXCEPT ![active] = @ \/ isBufferFull(term[active])]
    /\ UNCHANGED got

-----------------------------------------------------------------------------
(* The interrupts.  A paste is the only one of several steps; no other     *)
(* action falls between them.                                              *)

Idle == pasting = 0

\* The control key goes down (again, while it is held) or up.
specialKey(pressed) ==
    Idle /\ control' = pressed /\ UNCHANGED <<term, active, pasting, history>>

\* Control and a function key: ttySetActive.
ttySetActive(t) ==
    /\ Idle /\ control
    /\ active' = t
    /\ UNCHANGED <<term, control, pasting, history>>

\* Any other key that stands for a character.
keyboardRoutine == Idle /\ Add /\ UNCHANGED <<active, control, pasting>>

\* The right button of the mouse: the clipboard, n characters.
RightClick(n) == Idle /\ pasting' = n /\ UNCHANGED <<term, active, control, history>>

clipboardPaste ==
    /\ pasting > 0 /\ pasting' = pasting - 1
    /\ IF typed[active] < MaxKeys THEN Add ELSE UNCHANGED <<term, history>>
    /\ UNCHANGED <<active, control>>

-----------------------------------------------------------------------------
(* sysread, one character of it.                                           *)

SemDec(t) ==
    /\ Idle /\ term[t].reader = "user"
    /\ term' = [term EXCEPT ![t] =
           IF @.value > 0
           THEN [@ EXCEPT !.value = term[t].value - 1, !.reader = "granted"]
           ELSE [@ EXCEPT !.reader = "asleep"]]
    /\ UNCHANGED <<active, control, pasting, history>>

\* bufferRead up to the assignment of the new head: nothing looks whether the
\* buffer is empty.
Load(t) ==
    /\ Idle /\ term[t].reader = "granted"
    /\ term' = [term EXCEPT ![t] = [@ EXCEPT !.key = term[t].buffer[term[t].head],
                                              !.reader = "loaded"]]
    /\ UNCHANGED <<active, control, pasting, history>>

advance(b) == [b EXCEPT !.head = Succ(@)]

Return(t) ==
    /\ Idle /\ term[t].reader = "loaded"
    /\ term' = [term EXCEPT ![t] = [advance(@) EXCEPT !.reader = "user", !.key = Nothing]]
    /\ got' = [got EXCEPT ![t] = Append(@, term[t].key)]
    /\ UNCHANGED <<active, control, pasting, typed, dropped>>

sysread(t) == SemDec(t) \/ Load(t) \/ Return(t)

-----------------------------------------------------------------------------
Next ==
    \/ \E pressed \in BOOLEAN : specialKey(pressed)
    \/ keyboardRoutine
    \/ \E n \in 1 .. MaxPaste : RightClick(n)
    \/ clipboardPaste
    \/ \E t \in Tty : ttySetActive(t) \/ sysread(t)

Spec == Init /\ [][Next]_vars

\* The readers keep reading, as the shell does, and every ready process runs
\* (ReadyRuns of Sched).
FairSpec == Spec /\ WF_vars(clipboardPaste) /\ \A t \in Tty : SF_vars(sysread(t))

-----------------------------------------------------------------------------
\* The indices of each buffer stay inside it, whoever moves them.
TypeOK ==
    /\ term \in [Tty -> [buffer : [Index -> Nat], head : Index, tail : Index,
                         value : Nat, reader : {"user", "asleep", "granted", "loaded"},
                         key : Nat]]
    /\ active \in Tty /\ control \in BOOLEAN /\ pasting \in 0 .. MaxPaste
    /\ typed \in [Tty -> 0 .. MaxKeys]
    /\ dropped \in [Tty -> BOOLEAN]
    /\ got \in [Tty -> Seq(Nat)]

\* Keys in the buffer, and the reader that has a wake and not yet its key.
pending(t) == (term[t].tail + BufferSize - term[t].head) % BufferSize
owed(t) == IF term[t].reader \in {"granted", "loaded"} THEN 1 ELSE 0

\* The semaphore counts the keys in the buffer, so that sysread need not look
\* whether it is empty: no reader is let through to an empty buffer and none
\* sleeps beside a key.  It holds until the buffer overflows.
WakesAreKeys ==
    \A t \in Tty : ~dropped[t] => pending(t) = term[t].value + owed(t)

\* The keys are read as they were typed, none lost, repeated or exchanged,
\* whatever interrupts fall into sysread; until the buffer overflows.
KeysInOrder ==
    \A t \in Tty : ~dropped[t] => \A n \in DOMAIN got[t] : got[t][n] = n

\* A key that was typed is read.
KeyIsRead ==
    \A t \in Tty : \A n \in 1 .. MaxKeys :
        typed[t] >= n ~> Len(got[t]) >= n \/ dropped[t]
=============================================================================
