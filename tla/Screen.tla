------------------------------- MODULE Screen -------------------------------
(***************************************************************************)
(* What a process writes on its way to the screen: the output buffer of    *)
(* its terminal (IO.c) and the pages, the video memory and the marks of    *)
(* lines to draw (crtc6845.c).  A terminal has a page; one page is shown.  *)
(*                                                                         *)
(* The driver has no lock and runs with interrupts enabled: each access to *)
(* what processes share is a step of its own, in the order of the code.    *)
(* Two pairs are one step: a byte is read together with the page to read   *)
(* it from, and a scroll moves a character in one step.  The handlers of   *)
(* the interrupts run to their end: the keyboard's shows another page, the *)
(* mouse's draws again.                                                    *)
(*                                                                         *)
(* The marks are the driver's record of what the screen does not show yet, *)
(* as in a cache; whoever draws his own page clears those of all.          *)
(***************************************************************************)
EXTENDS Integers, Sequences, Functions

CONSTANTS Procs,       \* the processes that write, one for each terminal
          PageOf,      \* procAttachedTTY, the page of the process's terminal
          FdType,      \* what the process writes to: "TTY" or "TTY_CURSOR"
          CantPages,   \* CANT_PAGES
          Rows, Cols,  \* VIDEO_ROWS, VIDEO_COLS
          TabSpace,    \* TAB_SPACE
          BSize,       \* bsize of a terminal's buffer, one place stays empty
          Chars,       \* the characters: "NL", "CR", "TAB" and letters
          Writes,      \* those that each process writes
          MaxCalls     \* bound: the calls the processes make

Page == 0 .. CantPages - 1
Row == 0 .. Rows - 1
Col == 0 .. Cols - 1
PageCells == Rows * Cols
Cell == 0 .. CantPages * PageCells - 1
Coord == Row \X Col

ASSUME ScreenAssumption ==
    /\ {CantPages, Rows, Cols, TabSpace, MaxCalls} \subseteq Nat \ {0}
    /\ BSize \in Nat /\ BSize >= 2
ASSUME ProcsAssumption ==
    /\ PageOf \in [Procs -> Page] /\ IsInjective(PageOf)
    /\ FdType \in [Procs -> {"TTY", "TTY_CURSOR"}]
    /\ Writes \in [Procs -> SUBSET Chars]

VARIABLES videopages,  \* the pages, one behind the other
          video,       \* the characters of the video memory
          activePage, linepos, cursor,
          renderline, scrolled,
          out,         \* out[p]: the output buffer of p's terminal
          proc,        \* proc[p]: how far p's call is, and its local variables
          calls,       \* the calls made so far
          unseen,      \* history: who is in a tab one of whose tests looked
                       \* at another page
          spoilt       \* history: since the last full redraw something was
                       \* lost, in one of the ways below

memory == <<videopages, linepos, renderline, scrolled>>
vars == <<memory, video, activePage, cursor, out, proc, calls, unseen, spoilt>>

\* at is what p does next.  buf are the characters of the flush, c is the one
\* in hand, left the blanks of a tab to come; coord is the copy of the cursor;
\* row and col are the indices of the loops; pos, page and all are what was
\* read of linepos, activePage and scrolled; then is the character for which
\* syswrite made room, ret where a scroll returns to.
Idle == [at |-> "idle", buf |-> <<>>, c |-> " ", left |-> 0, coord |-> <<0, 0>>,
         row |-> 0, col |-> 0, pos |-> 0, page |-> 0, all |-> FALSE, then |-> <<>>,
         ret |-> "idle"]

CellAt(page, row, col) == page * PageCells + row * Cols + col

Init ==
    /\ videopages = [c \in Cell |-> " "]
    /\ video = [c \in 0 .. PageCells - 1 |-> " "]
    /\ activePage = 0
    /\ linepos = [p \in Page |-> 0]
    /\ cursor = [p \in Page |-> <<0, 0>>]
    /\ renderline = [r \in Row |-> FALSE]
    /\ scrolled = FALSE
    /\ out = [p \in Procs |-> <<>>]
    /\ proc = [p \in Procs |-> Idle]
    /\ calls = 0
    /\ unseen = {}
    /\ spoilt = FALSE

-----------------------------------------------------------------------------
(* What is lost.                                                           *)

Shown(p) == PageOf[p] = activePage

Scrolling == {"move", "blank", "zero", "flag"}
Drawing == {"row", "load byte", "store byte", "unmark"}
Writing == {"next", "mark", "load", "store", "put", "look", "test", "wrap", "look zero",
            "zero shown", "drawn"}

\* Who shows what he writes relies on scrolled till he has read it, and on the
\* marks unless he draws all lines.
NeedsFlag(q) == Shown(q) /\ proc[q].at \in Writing
NeedsMarks(q) == Shown(q) /\ (proc[q].at \in Writing \/ (proc[q].at \in Drawing /\ ~proc[q].all))

\* p clears a mark, or scrolled, that another relies on ...
LosesMark(p, row) == renderline[row] /\ \E q \in Procs \ {p} : NeedsMarks(q)
LosesFlag(p) == scrolled /\ \E q \in Procs \ {p} : NeedsFlag(q)

\* ... p writes what it has marked, but the mark is gone again ...
WritesUnmarked(p, row) == Shown(p) /\ ~renderline[row] /\ ~scrolled

\* ... p, that is not shown, runs over the end of its page into the one shown ...
CellsOf(page) == {CellAt(page, row, col) : row \in Row, col \in Col}
RunsOver(p, cell) == ~Shown(p) /\ cell \in CellsOf(activePage)

\* ... or puts a byte on the screen that the page shown does not hold any more.
StoresStale(p) == proc[p].c # videopages[CellAt(activePage, proc[p].row, proc[p].col)]

-----------------------------------------------------------------------------
(* The write path of IO.c.                                                 *)

At(p, at) == proc[p].at = at
Becomes(p, new) == proc' = [proc EXCEPT ![p] = new]
Goto(p, at) == Becomes(p, [proc[p] EXCEPT !.at = at])

\* A process calls write, flush, clearScreen or setCursor.
Call(p) ==
    /\ proc[p].at = "idle"
    /\ calls < MaxCalls
    /\ calls' = calls + 1

isBufferFull(p) == Len(out[p]) = BSize - 1

\* bufferFlush empties the buffer and hands its contents to the driver.
bufferFlush(p, then) ==
    /\ out' = [out EXCEPT ![p] = <<>>]
    /\ Becomes(p, [Idle EXCEPT !.at = "next", !.buf = out[p], !.then = then,
                               !.coord = cursor[PageOf[p]]])

\* syswrite of one character: a new line flushes what is before it.
SysWrite(p, c) ==
    /\ Call(p)
    /\ IF c = "NL" \/ isBufferFull(p) THEN bufferFlush(p, <<c>>)
       ELSE out' = [out EXCEPT ![p] = Append(@, c)] /\ UNCHANGED proc
    /\ UNCHANGED <<memory, video, activePage, cursor, unseen, spoilt>>

SysFlush(p) ==
    /\ Call(p)
    /\ bufferFlush(p, <<>>)
    /\ UNCHANGED <<memory, video, activePage, cursor, unseen, spoilt>>

\* clearScreen is _vresetpage.
ClearScreen(p) ==
    /\ Call(p)
    /\ Becomes(p, [Idle EXCEPT !.at = "blank", !.ret = "next"])
    /\ UNCHANGED <<memory, video, activePage, cursor, out, unseen, spoilt>>

\* setCursor; the program's position is ignored outside of the screen.
SetCursor(p, coord) ==
    /\ Call(p)
    /\ coord \in Coord
    /\ cursor' = [cursor EXCEPT ![PageOf[p]] = coord]
    /\ UNCHANGED <<memory, video, activePage, out, proc, unseen, spoilt>>

-----------------------------------------------------------------------------
(* pageScroll and _vresetpage: the characters, the position, the flag.     *)

\* The lines move up; what clears the page clears the last line, too.
Moved(p, row, col) ==
    IF At(p, "move") /\ row < Rows - 1 THEN videopages[CellAt(PageOf[p], row + 1, col)] ELSE " "

Move(p) ==
    /\ At(p, "move") \/ At(p, "blank")
    /\ LET row == proc[p].row  col == proc[p].col IN
       /\ videopages' = [videopages EXCEPT ![CellAt(PageOf[p], row, col)] = Moved(p, row, col)]
       /\ Becomes(p, IF col < Cols - 1 THEN [proc[p] EXCEPT !.col = col + 1]
                     ELSE IF row < Rows - 1 THEN [proc[p] EXCEPT !.row = row + 1, !.col = 0]
                     ELSE [proc[p] EXCEPT !.row = 0, !.col = 0, !.at = "zero"])
    /\ UNCHANGED <<video, activePage, linepos, cursor, renderline, scrolled, out, calls, unseen,
                   spoilt>>

ZeroPos(p) ==
    /\ At(p, "zero")
    /\ linepos' = [linepos EXCEPT ![PageOf[p]] = 0]
    /\ Goto(p, "flag")
    /\ UNCHANGED <<videopages, video, activePage, cursor, renderline, scrolled, out, calls, unseen,
                   spoilt>>

Flag(p) ==
    /\ At(p, "flag")
    /\ scrolled' = TRUE
    /\ Becomes(p, [proc[p] EXCEPT !.at = proc[p].ret, !.ret = "idle"])
    /\ UNCHANGED <<videopages, video, activePage, linepos, cursor, renderline, out, calls, unseen,
                   spoilt>>

-----------------------------------------------------------------------------
(* _vtflush: characters go to the last line, at linepos.  A new line, or a *)
(* full one, resets the position of the page shown, whose ever it is, and  *)
(* that is where a tab looks for the end of the line.                      *)

Tty(p) == FdType[p] = "TTY"

TakeTty(p) ==
    /\ At(p, "next") /\ proc[p].buf # <<>> /\ Tty(p)
    /\ LET c == Head(proc[p].buf)  now == [proc[p] EXCEPT !.buf = Tail(@)] IN
       Becomes(p, CASE c = "NL" -> [now EXCEPT !.at = "move", !.ret = "look zero", !.c = c]
                    [] c = "TAB" -> [now EXCEPT !.at = "load", !.left = TabSpace]
                    [] OTHER -> [now EXCEPT !.at = "mark", !.c = c])
    /\ unseen' = unseen \ {p}
    /\ UNCHANGED <<memory, video, activePage, cursor, out, calls, spoilt>>

LineOf(p) == IF Tty(p) THEN Rows - 1 ELSE proc[p].coord[1]

\* A letter is marked before it is written, a blank of _vtflush behind it.
Mark(p) ==
    /\ At(p, "mark")
    /\ renderline' = [renderline EXCEPT ![LineOf(p)] = TRUE]
    /\ Goto(p, IF ~Tty(p) THEN "put" ELSE IF proc[p].left = 0 THEN "load" ELSE "look")
    /\ UNCHANGED <<videopages, video, activePage, linepos, cursor, scrolled, out, calls, unseen,
                   spoilt>>

\* linepos[page]++ ...
LoadPos(p) ==
    /\ At(p, "load")
    /\ Becomes(p, [proc[p] EXCEPT !.at = "store", !.pos = linepos[PageOf[p]]])
    /\ UNCHANGED <<memory, video, activePage, cursor, out, calls, unseen, spoilt>>

StorePos(p) ==
    /\ At(p, "store")
    /\ linepos' = [linepos EXCEPT ![PageOf[p]] = proc[p].pos + 1]
    /\ Goto(p, "put")
    /\ UNCHANGED <<videopages, video, activePage, cursor, renderline, scrolled, out, calls, unseen,
                   spoilt>>

\* ... and the character at the position before.  What is behind the last page
\* is other memory.
PutTty(p) ==
    /\ At(p, "put") /\ Tty(p)
    /\ LET cell == CellAt(PageOf[p], Rows - 1, proc[p].pos) IN
       /\ videopages' = IF cell \in Cell THEN [videopages EXCEPT ![cell] = proc[p].c]
                        ELSE videopages
       /\ spoilt' = \/ spoilt \/ RunsOver(p, cell)
                    \/ proc[p].left = 0 /\ WritesUnmarked(p, Rows - 1)
    /\ Becomes(p, [proc[p] EXCEPT !.at = IF proc[p].left = 0 THEN "wrap" ELSE "mark", !.pos = 0])
    /\ UNCHANGED <<video, activePage, linepos, cursor, renderline, scrolled, out, calls, unseen>>

LookShown(p) ==
    /\ At(p, "look") \/ At(p, "look zero")
    /\ Becomes(p, [proc[p] EXCEPT !.at = IF @ = "look" THEN "test" ELSE "zero shown",
                                  !.page = activePage])
    /\ UNCHANGED <<memory, video, activePage, cursor, out, calls, unseen, spoilt>>

\* mutation: the end of the line is found one column too late.
LineFull_OneLate(page) == linepos[page] > Cols
LineFull(page) == linepos[page] >= Cols

\* The end of a blank.  What the code does behind the scroll, to set the
\* position of the page to 0, the scroll has done.
Test(p) ==
    /\ At(p, "test")
    /\ LET then == IF proc[p].left > 1 THEN "load" ELSE "wrap"
           now == [proc[p] EXCEPT !.left = @ - 1, !.page = 0] IN
       /\ Becomes(p, IF LineFull(proc[p].page) THEN [now EXCEPT !.at = "move", !.ret = then]
                     ELSE [now EXCEPT !.at = then])
       /\ unseen' = IF proc[p].page # PageOf[p] THEN unseen \cup {p} ELSE unseen
    /\ UNCHANGED <<memory, video, activePage, cursor, out, calls, spoilt>>

\* The end of a character.
Wrap(p) ==
    /\ At(p, "wrap")
    /\ Becomes(p, IF LineFull(PageOf[p]) THEN [proc[p] EXCEPT !.at = "move", !.ret = "look zero"]
                  ELSE [proc[p] EXCEPT !.at = "next", !.c = " "])
    /\ UNCHANGED <<memory, video, activePage, cursor, out, calls, unseen, spoilt>>

\* A new line still has its end of the character to come.
ZeroShown(p) ==
    /\ At(p, "zero shown")
    /\ linepos' = [linepos EXCEPT ![proc[p].page] = 0]
    /\ Becomes(p, [proc[p] EXCEPT !.at = IF proc[p].c = "NL" THEN "wrap" ELSE "next",
                                  !.c = " ", !.page = 0])
    /\ UNCHANGED <<videopages, video, activePage, cursor, renderline, scrolled, out, calls, unseen,
                   spoilt>>

-----------------------------------------------------------------------------
(* _vtcflush: characters go to the cursor, of which it keeps a copy; only  *)
(* the process's own calls read and set the cursor of its page.            *)

\* mutation: the line is full one character too late.
Onward_OneLate(coord) == IF coord[2] < Cols THEN <<coord[1], coord[2] + 1>> ELSE <<coord[1] + 1, 0>>
\* The position behind coord.
Onward(coord) == IF coord[2] + 1 < Cols THEN <<coord[1], coord[2] + 1>> ELSE <<coord[1] + 1, 0>>

\* The end of a character or a blank: below the last line the page is scrolled.
Settle(p, coord, now) ==
    LET low == coord[1] >= Rows
        new == IF low THEN <<Rows - 1, coord[2]>> ELSE coord
        then == IF now.left > 0 THEN "mark" ELSE "next"
    IN  /\ cursor' = [cursor EXCEPT ![PageOf[p]] = new]
        /\ Becomes(p, IF low THEN [now EXCEPT !.coord = new, !.at = "move", !.ret = then]
                      ELSE [now EXCEPT !.coord = new, !.at = then])

TakeCursor(p) ==
    /\ At(p, "next") /\ proc[p].buf # <<>> /\ ~Tty(p)
    /\ LET c == Head(proc[p].buf)  coord == proc[p].coord
           now == [proc[p] EXCEPT !.buf = Tail(@)] IN
       \/ c = "NL" /\ Settle(p, <<coord[1] + 1, 0>>, now)
       \/ c = "CR" /\ Settle(p, <<coord[1], 0>>, now)
       \/ /\ c \notin {"NL", "CR"}
          /\ Becomes(p, IF c = "TAB" THEN [now EXCEPT !.at = "mark", !.left = TabSpace]
                        ELSE [now EXCEPT !.at = "mark", !.left = 1, !.c = c])
          /\ UNCHANGED cursor
    /\ UNCHANGED <<memory, video, activePage, out, calls, unseen, spoilt>>

PutCursor(p) ==
    /\ At(p, "put") /\ ~Tty(p)
    /\ LET coord == proc[p].coord IN
       /\ videopages' = [videopages EXCEPT ![CellAt(PageOf[p], coord[1], coord[2])] = proc[p].c]
       /\ Settle(p, Onward(coord), [proc[p] EXCEPT !.left = @ - 1,
                                                   !.c = IF proc[p].left > 1 THEN @ ELSE " "])
       /\ spoilt' = (spoilt \/ WritesUnmarked(p, coord[1]))
    /\ UNCHANGED <<video, activePage, linepos, renderline, scrolled, out, calls, unseen>>

-----------------------------------------------------------------------------
(* rerenderVideo: who writes the page shown draws, all lines or those that *)
(* are marked; who does not, only clears the marks.                        *)

Ends(p) ==
    /\ At(p, "next") /\ proc[p].buf = <<>>
    /\ Goto(p, IF Shown(p) THEN "drawn" ELSE "clear")
    /\ UNCHANGED <<memory, video, activePage, cursor, out, calls, unseen, spoilt>>

\* mutation: a page that was scrolled is drawn like any other.
DrawsAll_Never == FALSE
DrawsAll == scrolled

TestScrolled(p) ==
    /\ At(p, "drawn")
    /\ Becomes(p, [proc[p] EXCEPT !.at = "row", !.all = DrawsAll])
    /\ UNCHANGED <<memory, video, activePage, cursor, out, calls, unseen, spoilt>>

\* The next line; behind the last the marks are cleared.
NextRow(p) ==
    LET now == [proc[p] EXCEPT !.col = 0, !.c = " "] IN
    IF proc[p].row < Rows - 1 THEN [now EXCEPT !.at = "row", !.row = @ + 1]
    ELSE [now EXCEPT !.at = "clear", !.row = 0, !.all = FALSE]

TestRow(p) ==
    /\ At(p, "row")
    /\ Becomes(p, IF proc[p].all \/ renderline[proc[p].row]
                  THEN [proc[p] EXCEPT !.at = "load byte"] ELSE NextRow(p))
    /\ UNCHANGED <<memory, video, activePage, cursor, out, calls, unseen, spoilt>>

\* copyLine, whatever page is shown by now.
LoadByte(p) ==
    /\ At(p, "load byte")
    /\ Becomes(p, [proc[p] EXCEPT !.at = "store byte",
                     !.c = videopages[CellAt(activePage, proc[p].row, proc[p].col)]])
    /\ UNCHANGED <<memory, video, activePage, cursor, out, calls, unseen, spoilt>>

StoreByte(p) ==
    /\ At(p, "store byte")
    /\ video' = [video EXCEPT ![proc[p].row * Cols + proc[p].col] = proc[p].c]
    /\ spoilt' = (spoilt \/ StoresStale(p))
    /\ Becomes(p, IF proc[p].col < Cols - 1
                  THEN [proc[p] EXCEPT !.at = "load byte", !.c = " ", !.col = @ + 1]
                  ELSE IF proc[p].all THEN NextRow(p)
                  ELSE [proc[p] EXCEPT !.at = "unmark", !.c = " "])
    /\ UNCHANGED <<memory, activePage, cursor, out, calls, unseen>>

Unmark(p) ==
    /\ At(p, "unmark")
    /\ renderline' = [renderline EXCEPT ![proc[p].row] = FALSE]
    /\ spoilt' = (spoilt \/ LosesMark(p, proc[p].row))
    /\ Becomes(p, NextRow(p))
    /\ UNCHANGED <<videopages, video, activePage, linepos, cursor, scrolled, out, calls, unseen>>

\* All marks are cleared, whose ever they are ...
ClearMark(p) ==
    /\ At(p, "clear")
    /\ renderline' = [renderline EXCEPT ![proc[p].row] = FALSE]
    /\ spoilt' = (spoilt \/ LosesMark(p, proc[p].row))
    /\ Becomes(p, IF proc[p].row < Rows - 1 THEN [proc[p] EXCEPT !.row = @ + 1]
                  ELSE [proc[p] EXCEPT !.at = "unflag", !.row = 0])
    /\ UNCHANGED <<videopages, video, activePage, linepos, cursor, scrolled, out, calls, unseen>>

\* ... and scrolled; the call is over.
ClearFlag(p) ==
    /\ At(p, "unflag")
    /\ scrolled' = FALSE
    /\ spoilt' = (spoilt \/ LosesFlag(p))
    /\ out' = [out EXCEPT ![p] = @ \o proc[p].then]
    /\ Becomes(p, Idle)
    /\ unseen' = unseen \ {p}
    /\ UNCHANGED <<videopages, video, activePage, linepos, cursor, renderline, calls>>

-----------------------------------------------------------------------------
(* The interrupts: everything is drawn again.                              *)

Redraw(page) ==
    /\ video' = [c \in 0 .. PageCells - 1 |-> videopages[page * PageCells + c]]
    /\ renderline' = [r \in Row |-> FALSE]
    /\ scrolled' = FALSE
    /\ spoilt' = FALSE
    /\ UNCHANGED <<videopages, linepos, cursor, out, proc, calls, unseen>>

\* The keyboard's: another terminal is shown.
SetPage(page) ==
    /\ page # activePage
    /\ activePage' = page
    /\ Redraw(page)

\* The mouse's: the selection changed.
ResetSelection == Redraw(activePage) /\ UNCHANGED activePage

Calls(p) ==
    \/ \E c \in Writes[p] : SysWrite(p, c)
    \/ SysFlush(p) \/ ClearScreen(p) \/ SetCursor(p, <<0, 0>>)

Driver(p) ==
    \/ Move(p) \/ ZeroPos(p) \/ Flag(p)
    \/ TakeTty(p) \/ Mark(p) \/ LoadPos(p) \/ StorePos(p) \/ PutTty(p)
    \/ LookShown(p) \/ Test(p) \/ Wrap(p) \/ ZeroShown(p)
    \/ TakeCursor(p) \/ PutCursor(p)
    \/ Ends(p) \/ TestScrolled(p) \/ TestRow(p) \/ LoadByte(p) \/ StoreByte(p) \/ Unmark(p)
    \/ ClearMark(p) \/ ClearFlag(p)

Next ==
    \/ \E p \in Procs : Calls(p) \/ Driver(p)
    \/ \E page \in Page : SetPage(page)
    \/ ResetSelection

Spec == Init /\ [][Next]_vars

-----------------------------------------------------------------------------
(* Properties.                                                             *)

Glyph == Chars \cup {" "}

Steps == {"idle", "clear", "unflag"} \cup Scrolling \cup Drawing \cup Writing

\* Within a tab the position runs over the line by no more than the tab; it is
\* in the line between two characters, and the cursor always on the screen.
TypeOK ==
    /\ videopages \in [Cell -> Glyph] /\ video \in [0 .. PageCells - 1 -> Glyph]
    /\ activePage \in Page
    /\ linepos \in [Page -> 0 .. Cols - 1 + TabSpace] /\ cursor \in [Page -> Coord]
    /\ renderline \in [Row -> BOOLEAN] /\ scrolled \in BOOLEAN
    /\ unseen \subseteq Procs
    /\ \A p \in Procs : /\ proc[p].at \in Steps /\ proc[p].coord \in Coord
                        /\ Len(out[p]) < BSize /\ Len(proc[p].buf) < BSize
                        /\ proc[p].at \in {"idle", "next"} => linepos[PageOf[p]] < Cols

Differs(row) == \E col \in Col : video[row * Cols + col] # videopages[CellAt(activePage, row, col)]

\* What will get the line on the screen: it is marked or all lines are, or q
\* is about to mark it or all, or is drawing and has not passed it.
Announced(q, row) ==
    \/ proc[q].at \in Scrolling
    \/ proc[q].at \in Writing /\ \/ renderline[row] \/ scrolled
                                 \/ At(q, "mark") /\ row = LineOf(q)
    \/ proc[q].at \in Drawing /\ (proc[q].all \/ renderline[row]) /\ row >= proc[q].row

\* The marks: unless something was lost since the last full redraw, a line that
\* differs from the page shown is one whose writer is at work and will draw it;
\* the screen of processes at rest is the page.
ScreenIsPage ==
    ~spoilt => \A row \in Row : Differs(row) => \E q \in Procs : Shown(q) /\ Announced(q, row)

\* A process writes into the memory of another page only in a tab of _vtflush
\* one of whose tests for the end of the line looked at another page: who is
\* shown throughout a tab, and who writes letters and lines, keeps to his page.
OnlyUnseenTabsRunOver ==
    [][\A p \in Procs : proc'[p] # proc[p] /\ p \notin unseen =>
          \A c \in Cell \ CellsOf(PageOf[p]) : videopages'[c] = videopages[c]]_vars
=============================================================================
