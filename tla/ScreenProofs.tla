---------------------------- MODULE ScreenProofs ----------------------------
(***************************************************************************)
(* For any number of terminals and any size of the screen: the positions   *)
(* of the driver stay in their bounds, a process writes into another page  *)
(* only in a tab that looked elsewhere, and what the screen does not show  *)
(* is announced, unless "spoilt" says how the code lost it.                *)
(***************************************************************************)
EXTENDS Screen, SequenceTheorems, TLAPS

-----------------------------------------------------------------------------
(* Where a cell is.                                                        *)

LEMMA Monotone ==
    ASSUME NEW a \in Nat, NEW b \in Nat, NEW n \in Nat, a <= b
    PROVE  a * n <= b * n
<1>1. (b - a) * n >= 0 OBVIOUS
<1>2. (b - a) * n = b * n - a * n OBVIOUS
<1>. QED BY <1>1, <1>2

LEMMA OneDivision ==
    ASSUME NEW n \in Nat \ {0}, NEW a \in Int, NEW b \in 0 .. n - 1,
           NEW c \in Int, NEW d \in 0 .. n - 1, a * n + b = c * n + d
    PROVE  a = c /\ b = d
<1>1. (a - c) * n = d - b OBVIOUS
<1>2. CASE a > c
  <2>1. (a - c) * n >= n BY <1>2
  <2>. QED BY <1>1, <2>1
<1>3. CASE a < c
  <2>1. (c - a) * n >= n BY <1>3
  <2>2. (c - a) * n = b - d OBVIOUS
  <2>. QED BY <2>1, <2>2
<1>. QED BY <1>1, <1>2, <1>3

LEMMA PairInRange ==
    ASSUME NEW n \in Nat \ {0}, NEW m \in Nat \ {0}, NEW a \in 0 .. m - 1, NEW b \in 0 .. n - 1
    PROVE  a * n + b \in 0 .. m * n - 1
<1>1. a * n >= 0 OBVIOUS
<1>2. (a + 1) * n <= m * n BY Monotone
<1>3. (a + 1) * n = a * n + n OBVIOUS
<1>4. a * n \in Int /\ m * n \in Int OBVIOUS
<1>. QED BY <1>1, <1>2, <1>3, <1>4

LEMMA Sizes ==
    /\ CantPages \in Nat \ {0} /\ Rows \in Nat \ {0} /\ Cols \in Nat \ {0}
    /\ TabSpace \in Nat \ {0} /\ PageCells \in Nat \ {0} /\ BSize \in Nat /\ BSize >= 2
BY ScreenAssumption DEF PageCells

\* The places of the video memory, and the cells of the pages.
Spot(row, col) == row * Cols + col

LEMMA SpotIsThere ==
    ASSUME NEW row \in Row, NEW col \in Col
    PROVE  Spot(row, col) \in 0 .. PageCells - 1
BY Sizes, PairInRange DEF PageCells, Row, Col, Spot

LEMMA OneSpot ==
    ASSUME NEW row \in Row, NEW col \in Col, NEW r \in Row, NEW c \in Col,
           Spot(row, col) = Spot(r, c)
    PROVE  row = r /\ col = c
BY Sizes, OneDivision DEF Row, Col, Spot

LEMMA CellIsSpot ==
    ASSUME NEW page \in Page, NEW row \in Row, NEW col \in Col
    PROVE  CellAt(page, row, col) = page * PageCells + Spot(row, col)
<1>. DEFINE x == page * PageCells
<1>1. x \in Int /\ row * Cols \in Int /\ col \in Int BY Sizes DEF Page, Row, Col
<1>2. CellAt(page, row, col) = x + row * Cols + col BY DEF CellAt
<1>. HIDE DEF x
<1>3. CellAt(page, row, col) = x + (row * Cols + col) BY <1>1, <1>2
<1>. QED BY <1>3 DEF x, Spot

LEMMA CellIsThere ==
    ASSUME NEW page \in Page, NEW row \in Row, NEW col \in Col
    PROVE  CellAt(page, row, col) \in Cell
<1>1. PICK k \in 0 .. PageCells - 1 : k = Spot(row, col) BY SpotIsThere
<1>2. page * PageCells + k \in 0 .. CantPages * PageCells - 1 BY Sizes, PairInRange DEF Page
<1>. QED BY <1>1, <1>2, CellIsSpot DEF Cell

LEMMA OneCell ==
    ASSUME NEW page \in Page, NEW row \in Row, NEW col \in Col,
           NEW q \in Page, NEW r \in Row, NEW c \in Col, CellAt(page, row, col) = CellAt(q, r, c)
    PROVE  page = q /\ row = r /\ col = c
<1>1. PICK k \in 0 .. PageCells - 1 : k = Spot(row, col) BY SpotIsThere
<1>2. PICK j \in 0 .. PageCells - 1 : j = Spot(r, c) BY SpotIsThere
<1>3. page * PageCells + k = q * PageCells + j BY <1>1, <1>2, CellIsSpot
<1>4. page = q /\ k = j BY <1>3, Sizes, OneDivision DEF Page
<1>5. Spot(row, col) = Spot(r, c) BY <1>1, <1>2, <1>4
<1>6. row = r /\ col = c BY <1>5, OneSpot
<1>. QED BY <1>4, <1>6

-----------------------------------------------------------------------------
(* The types.                                                              *)

Returns == {"next", "mark", "load", "wrap", "look zero"}

ProcSet == [at : Steps, buf : Seq(Chars), c : Glyph, left : 0 .. TabSpace, coord : Coord,
            row : Row, col : Col, pos : Nat, page : Page, all : BOOLEAN, then : Seq(Chars),
            ret : {"idle"} \cup Returns]

\* What a flush has taken out of a buffer of the terminal fits into it.
Room(r, buffer) ==
    /\ Len(buffer) + Len(r.then) < BSize /\ Len(r.buf) < BSize
    /\ r.at = "idle" => r.then = << >>

\* How far a position may be over the line, before the blank in hand.
Reach(r) == Cols + (IF r.left = 0 THEN 0 ELSE TabSpace - r.left)

Begun == {"put", "look", "test", "mark"}

\* What is true of the variables of p, with the position last in its page, when
\* far are those in a tab that looked elsewhere.
Sound(p, r, last, far) ==
    /\ r.at \in {"load", "store", "look", "test", "wrap", "look zero", "zero shown"} => Tty(p)
    /\ r.at \in Scrolling => /\ r.ret \in Returns
                             /\ r.ret \in {"load", "wrap", "look zero"} => Tty(p)
                             /\ r.ret = "mark" => ~Tty(p) /\ r.left > 0
    /\ r.at \in {"look", "test"} \/ (~Tty(p) /\ r.at \in {"mark", "put"}) => r.left > 0
    /\ ~Tty(p) \/ r.at \notin Begun \cup {"load", "store", "wrap", "move", "zero"} => last < Cols
    /\ r.at \in {"load", "store"} \/ (r.at = "mark" /\ r.left = 0) => last < Reach(r)
    /\ r.at \in Begun => last < Reach(r) + 1
    /\ r.at \in {"store", "put"} /\ Tty(p) => r.pos < Reach(r)
    /\ p \notin far => /\ r.at = "load" => last < Cols
                       /\ r.at \in {"store", "put"} /\ Tty(p) => r.pos < Cols
    /\ r.at \in Writing \cup {"zero", "flag"} => r.row = 0 /\ r.col = 0
    /\ r.at = "row" => r.col = 0

Last(p) == linepos[PageOf[p]]

Positions == [Page -> 0 .. Cols - 1 + TabSpace]

Typed ==
    /\ videopages \in [Cell -> Glyph] /\ video \in [0 .. PageCells - 1 -> Glyph]
    /\ activePage \in Page /\ linepos \in Positions /\ cursor \in [Page -> Coord]
    /\ renderline \in [Row -> BOOLEAN] /\ scrolled \in BOOLEAN
    /\ unseen \subseteq Procs
    /\ out \in [Procs -> Seq(Chars)] /\ proc \in [Procs -> ProcSet]
    /\ \A p \in Procs : Room(proc[p], out[p]) /\ Sound(p, proc[p], Last(p), unseen)

LEMMA Strings ==
    /\ Scrolling \subseteq Steps /\ Drawing \subseteq Steps /\ Writing \subseteq Steps
    /\ Returns \subseteq Writing
BY DEF Scrolling, Drawing, Writing, Steps, Returns

LEMMA Zeros ==
    /\ 0 \in Page /\ 0 \in Row /\ 0 \in Col /\ <<0, 0>> \in Coord /\ " " \in Glyph
    /\ \A p \in Procs : PageOf[p] \in Page
    /\ \A p, q \in Procs : PageOf[p] = PageOf[q] => p = q
<1>1. 0 \in Page /\ 0 \in Row /\ 0 \in Col BY Sizes DEF Page, Row, Col
<1>2. PageOf \in [Procs -> Page] /\ \A p, q \in Procs : PageOf[p] = PageOf[q] => p = q
  BY ProcsAssumption DEF IsInjective
<1>. QED BY <1>1, <1>2 DEF Coord, Glyph

LEMMA EmptyWord == \E empty \in Seq(Chars) : empty = << >> /\ Len(empty) = 0
<1>1. << >> \in Seq(Chars) /\ Len(<< >>) = 0 OBVIOUS
<1>. QED BY <1>1

LEMMA IdleTyped ==
    \E idle \in ProcSet : /\ idle = Idle /\ idle.at = "idle" /\ idle.then = << >>
                          /\ idle.buf = << >> /\ idle.row = 0 /\ idle.col = 0
                          /\ Len(idle.then) = 0 /\ Len(idle.buf) = 0
<1>1. PICK origin \in Coord : origin = <<0, 0>> BY Zeros
<1>2. PICK empty \in Seq(Chars) : empty = << >> /\ Len(empty) = 0 BY EmptyWord
<1>3. PICK idle : idle = [at |-> "idle", buf |-> empty, c |-> " ", left |-> 0,
         coord |-> origin, row |-> 0, col |-> 0, pos |-> 0, page |-> 0, all |-> FALSE,
         then |-> empty, ret |-> "idle"]
  OBVIOUS
<1>4. idle = Idle BY <1>1, <1>2, <1>3, Zenon DEF Idle
<1>5. "idle" \in Steps BY DEF Steps
<1>6. /\ idle.at = "idle" /\ idle.then = empty /\ idle.buf = empty
      /\ idle.row = 0 /\ idle.col = 0
  BY <1>3
<1>7. idle \in ProcSet
  <2>1. 0 \in 0 .. TabSpace BY Sizes
  <2>2. PICK nil \in Glyph : nil = " " BY Zeros
  <2>3. PICK n \in Row \cap Col \cap Page \cap (0 .. TabSpace) \cap Nat : n = 0 BY <2>1, Zeros
  <2>4. PICK none \in {"idle"} \cup Returns : none = "idle" OBVIOUS
  <2>5. PICK start \in Steps : start = "idle" BY <1>5
  <2>6. idle = [at |-> start, buf |-> empty, c |-> nil, left |-> n,
         coord |-> origin, row |-> n, col |-> n, pos |-> n, page |-> n, all |-> FALSE,
         then |-> empty, ret |-> none]
    BY <1>3, <2>2, <2>3, <2>4, <2>5
  <2>. QED BY <2>6 DEF ProcSet
<1>. QED BY <1>2, <1>4, <1>6, <1>7

LEMMA LastTyped ==
    ASSUME Typed, NEW p \in Procs
    PROVE  Last(p) \in Nat /\ Last(p) <= Cols - 1 + TabSpace
<1>1. PICK n \in Nat : n = Cols - 1 + TabSpace BY Sizes
<1>2. linepos \in [Page -> 0 .. n] BY <1>1 DEF Typed, Positions
<1>3. linepos[PageOf[p]] \in 0 .. n BY <1>2, Zeros
<1>. QED BY <1>1, <1>3 DEF Last

\* A position that is reset only helps.
LEMMA SoundLower ==
    ASSUME NEW p, NEW r, NEW last \in Nat, NEW less \in Nat, less <= last, NEW far, NEW now,
           r.left \in 0 .. TabSpace, p \in far <=> p \in now, Sound(p, r, last, far)
    PROVE  Sound(p, r, less, now)
<1>1. PICK reach \in Nat : reach = Reach(r) BY Sizes DEF Reach
<1>2. /\ last < Cols => less < Cols
      /\ last < reach => less < reach
      /\ last < reach + 1 => less < reach + 1
  BY Sizes
<1>. QED BY <1>1, <1>2 DEF Sound

\* p takes a step.
LEMMA StepTyped ==
    ASSUME Typed, NEW p \in Procs, NEW r \in ProcSet, proc' = [proc EXCEPT ![p] = r],
           videopages' \in [Cell -> Glyph], video' \in [0 .. PageCells - 1 -> Glyph],
           activePage' \in Page, linepos' \in Positions, cursor' \in [Page -> Coord],
           renderline' \in [Row -> BOOLEAN], scrolled' \in BOOLEAN, unseen' \subseteq Procs,
           out' \in [Procs -> Seq(Chars)],
           \A q \in Procs \ {p} : /\ out'[q] = out[q] /\ (q \in unseen <=> q \in unseen')
                                  /\ linepos'[PageOf[q]] <= linepos[PageOf[q]],
           Room(r, out'[p]), Sound(p, r, linepos'[PageOf[p]], unseen')
    PROVE  Typed'
<1>1. proc' \in [Procs -> ProcSet] /\ proc'[p] = r /\ \A q \in Procs \ {p} : proc'[q] = proc[q]
  BY DEF Typed
<1>2. ASSUME NEW q \in Procs \ {p}
      PROVE  Room(proc'[q], out'[q]) /\ Sound(q, proc'[q], linepos'[PageOf[q]], unseen')
  <2>1. PICK old \in ProcSet : old = proc[q] BY DEF Typed
  <2>2. Room(old, out'[q]) BY <2>1 DEF Typed
  <2>3. PageOf[q] \in Page BY Zeros
  <2>4. PICK a \in Nat : a = linepos[PageOf[q]] BY <2>3, Sizes DEF Typed, Positions
  <2>5. PICK b \in Nat : b = linepos'[PageOf[q]] BY <2>3, Sizes DEF Positions
  <2>6. b <= a BY <2>4, <2>5
  <2>7. Sound(q, old, a, unseen) BY <2>1, <2>4 DEF Typed, Last
  <2>8. old.left \in 0 .. TabSpace BY <2>1 DEF ProcSet
  <2>9. Sound(q, old, b, unseen') BY <2>6, <2>7, <2>8, SoundLower
  <2>. QED BY <1>1, <2>1, <2>2, <2>5, <2>9
<1>3. ASSUME NEW q \in Procs PROVE (Room(proc[q], out[q]) /\ Sound(q, proc[q], Last(q), unseen))'
  <2>1. CASE q = p BY <1>1, <2>1 DEF Last
  <2>2. CASE q # p BY <1>2, <2>2 DEF Last
  <2>. QED BY <2>1, <2>2
<1>. QED BY <1>1, <1>3 DEF Typed

-----------------------------------------------------------------------------
(* What the screen does not show.                                          *)

LineIn(p, r) == IF Tty(p) THEN Rows - 1 ELSE r.coord[1]

\* The place is not passed yet by p, whose variables are r, and will be drawn.
Coming(p, r, marks, flag, row, col) ==
    \/ r.at \in Scrolling
    \/ r.at \in Writing /\ (marks[row] \/ flag \/ (r.at = "mark" /\ row = LineIn(p, r)))
    \/ /\ r.at \in Drawing /\ (r.all \/ marks[row])
       /\ row > r.row \/ (row = r.row /\ r.at # "unmark" /\ col >= r.col)

Unlike(vid, cells, page, row, col) == vid[Spot(row, col)] # cells[CellAt(page, row, col)]

Covered(vid, cells, page, marks, flag, now) ==
    \A row \in Row, col \in Col : Unlike(vid, cells, page, row, col) =>
        \E q \in Procs : PageOf[q] = page /\ Coming(q, now[q], marks, flag, row, col)

Cover == ~spoilt => Covered(video, videopages, activePage, renderline, scrolled, proc)

IInv == Typed /\ Cover

\* For what differs behind a step of p, it is p who draws it, or it differed
\* before and who was to draw it still is.
Keeps(p, r, row, col) ==
    /\ Unlike(video, videopages, activePage, row, col)
    /\ Shown(p) /\ Coming(p, proc[p], renderline, scrolled, row, col) =>
          Coming(p, r, renderline', scrolled', row, col)
    /\ \A q \in Procs \ {p} : Shown(q) /\ Coming(q, proc[q], renderline, scrolled, row, col) =>
                               Coming(q, proc[q], renderline', scrolled', row, col)

Covers(p, r) ==
    \A row \in Row, col \in Col : Unlike(video', videopages', activePage, row, col) =>
        (Shown(p) /\ Coming(p, r, renderline', scrolled', row, col)) \/ Keeps(p, r, row, col)

LEMMA StepCovers ==
    ASSUME IInv, NEW p \in Procs, NEW r, proc' = [proc EXCEPT ![p] = r], activePage' = activePage,
           ~spoilt' => ~spoilt /\ Covers(p, r)
    PROVE  Cover'
<1>. SUFFICES ASSUME ~spoilt'
              PROVE  Covered(video', videopages', activePage', renderline', scrolled', proc')
  BY DEF Cover
<1>1. proc'[p] = r /\ \A q \in Procs \ {p} : proc'[q] = proc[q] BY DEF IInv, Typed
<1>. SUFFICES ASSUME NEW row \in Row, NEW col \in Col,
                     Unlike(video', videopages', activePage, row, col)
              PROVE  \E q \in Procs : /\ PageOf[q] = activePage
                                      /\ Coming(q, proc'[q], renderline', scrolled', row, col)
  BY DEF Covered
<1>2. CASE Shown(p) /\ Coming(p, r, renderline', scrolled', row, col)
  BY <1>1, <1>2 DEF Shown
<1>3. CASE Keeps(p, r, row, col)
  <2>1. Covered(video, videopages, activePage, renderline, scrolled, proc) BY DEF IInv, Cover
  <2>2. PICK q \in Procs : /\ PageOf[q] = activePage
                           /\ Coming(q, proc[q], renderline, scrolled, row, col)
    BY <1>3, <2>1 DEF Covered, Keeps
  <2>3. CASE q = p BY <1>1, <1>3, <2>2, <2>3 DEF Shown, Keeps
  <2>4. CASE q # p BY <1>1, <1>3, <2>2, <2>4 DEF Shown, Keeps
  <2>. QED BY <2>3, <2>4
<1>. QED BY <1>2, <1>3 DEF Covers

\* What p was to draw it still is.
GoesOn(p, r) ==
    \A row \in Row, col \in Col :
        Shown(p) /\ Coming(p, proc[p], renderline, scrolled, row, col) =>
            Coming(p, r, renderline, scrolled, row, col)

\* A step that leaves alone what the screen and the pages hold.
LEMMA QuietStep ==
    ASSUME IInv, NEW p \in Procs, NEW r \in ProcSet, proc' = [proc EXCEPT ![p] = r],
           UNCHANGED <<memory, video, activePage, spoilt>>, cursor' \in [Page -> Coord],
           unseen' \subseteq Procs, out' \in [Procs -> Seq(Chars)],
           \A q \in Procs \ {p} : out'[q] = out[q] /\ (q \in unseen <=> q \in unseen'),
           Room(r, out'[p]), Sound(p, r, Last(p), unseen'), GoesOn(p, r)
    PROVE  IInv'
<1>1. /\ videopages' = videopages /\ video' = video /\ activePage' = activePage
      /\ linepos' = linepos /\ renderline' = renderline /\ scrolled' = scrolled
      /\ spoilt' = spoilt
  BY DEF memory
<1>2. \A q \in Procs : linepos[PageOf[q]] \in Nat BY LastTyped DEF IInv, Last
<1>3. \A q \in Procs : linepos'[PageOf[q]] <= linepos[PageOf[q]] BY <1>1, <1>2
<1>4. Sound(p, r, linepos'[PageOf[p]], unseen') BY <1>1 DEF Last
<1>5. Typed' BY <1>1, <1>3, <1>4, StepTyped DEF IInv, Typed
<1>6. Cover'
  <2>1. ASSUME NEW row \in Row, NEW col \in Col,
               Unlike(video', videopages', activePage, row, col)
        PROVE  Keeps(p, r, row, col)
    BY <1>1, <2>1 DEF Keeps, GoesOn
  <2>2. ~spoilt' => ~spoilt /\ Covers(p, r) BY <1>1, <2>1 DEF Covers
  <2>3. activePage' = activePage BY <1>1
  <2>. QED BY <2>2, <2>3, StepCovers, Zenon
<1>. QED BY <1>5, <1>6 DEF IInv

\* p goes on writing; only a mark to come does not go on to come.
LEMMA WritesOn ==
    ASSUME NEW p, NEW old \in ProcSet, NEW r \in ProcSet, NEW marks, NEW flag, NEW row \in Row,
           NEW col \in Col, old.at \notin Drawing, old.at # "mark",
           r.at \in Writing \cup Scrolling, old.at \notin Scrolling \/ r.at \in Scrolling,
           Coming(p, old, marks, flag, row, col)
    PROVE  Coming(p, r, marks, flag, row, col)
BY DEF Coming, Scrolling, Writing

\* Neither idle nor clearing does p draw anything.
LEMMA NothingComes ==
    ASSUME NEW p, NEW old, old.at \in {"idle", "clear", "unflag"}, NEW marks, NEW flag,
           NEW row, NEW col
    PROVE  ~Coming(p, old, marks, flag, row, col)
BY DEF Coming, Scrolling, Writing, Drawing

-----------------------------------------------------------------------------
(* The write path of IO.c.                                                 *)

LEMMA FlushIInv ==
    ASSUME IInv, NEW p \in Procs, proc[p].at = "idle", NEW then \in Seq(Chars), Len(then) <= 1,
           bufferFlush(p, then), UNCHANGED <<memory, video, activePage, cursor, unseen, spoilt>>
    PROVE  IInv'
<1>1. PICK idle \in ProcSet : /\ idle = Idle /\ idle.at = "idle" /\ idle.then = << >>
                              /\ idle.row = 0 /\ idle.col = 0
  BY IdleTyped
<1>2. out[p] \in Seq(Chars) /\ cursor[PageOf[p]] \in Coord /\ Last(p) \in Nat
  BY Zeros, LastTyped DEF IInv, Typed
<1>3. PICK r : r = [idle EXCEPT !.at = "next", !.buf = out[p], !.then = then,
                                !.coord = cursor[PageOf[p]]]
  OBVIOUS
<1>4. "next" \in Steps BY DEF Steps, Writing
<1>5. /\ r \in ProcSet /\ r.at = "next" /\ r.buf = out[p] /\ r.then = then
      /\ r.row = 0 /\ r.col = 0
  BY <1>1, <1>2, <1>3, <1>4 DEF ProcSet
<1>6. proc' = [proc EXCEPT ![p] = r] BY <1>1, <1>3 DEF bufferFlush, Becomes
<1>7. PICK empty \in Seq(Chars) : empty = << >> /\ Len(empty) = 0 BY EmptyWord
<1>8. out' = [out EXCEPT ![p] = empty] BY <1>7 DEF bufferFlush
<1>9. out' \in [Procs -> Seq(Chars)] /\ out'[p] = empty /\ \A q \in Procs \ {p} : out'[q] = out[q]
  BY <1>8 DEF IInv, Typed
<1>10. Len(out[p]) < BSize
  <2>1. Len(out[p]) + Len(proc[p].then) < BSize /\ proc[p].then = << >>
    BY DEF IInv, Typed, Room
  <2>2. PICK a \in Nat : a = Len(out[p]) BY <1>2, LenProperties
  <2>3. Len(proc[p].then) = 0 BY <2>1, EmptyWord
  <2>4. a + 0 < BSize BY <2>1, <2>2, <2>3
  <2>. QED BY <2>2, <2>4, Sizes
<1>11. Room(r, out'[p])
  <2>1. PICK n \in Nat : n = Len(then) BY LenProperties
  <2>2. 0 + n < BSize BY <2>1, Sizes
  <2>3. Len(out'[p]) = 0 /\ Len(r.then) = n BY <1>5, <1>7, <1>9, <2>1
  <2>4. Len(out'[p]) + Len(r.then) < BSize BY <2>2, <2>3
  <2>. QED BY <1>5, <1>10, <2>4 DEF Room
<1>12. Last(p) < Cols
  <2>1. Sound(p, proc[p], Last(p), unseen) BY DEF IInv, Typed
  <2>. QED BY <2>1 DEF Sound, Begun
<1>13. Sound(p, r, Last(p), unseen') BY <1>5, <1>12 DEF Sound, Begun, Scrolling
<1>14. UNCHANGED <<memory, video, activePage, spoilt>> /\ cursor' \in [Page -> Coord]
       /\ unseen' = unseen /\ unseen' \subseteq Procs
  BY DEF IInv, Typed
<1>15. GoesOn(p, r) BY NothingComes DEF GoesOn
<1>. QED BY <1>5, <1>6, <1>9, <1>11, <1>13, <1>14, <1>15, QuietStep

LEMMA SysWriteIInv ==
    ASSUME IInv, NEW p \in Procs, NEW c \in Chars, SysWrite(p, c)
    PROVE  IInv'
<1>1. proc[p].at = "idle" /\ UNCHANGED <<memory, video, activePage, cursor, unseen, spoilt>>
  BY DEF SysWrite, Call
<1>2. CASE bufferFlush(p, <<c>>)
  <2>1. <<c>> \in Seq(Chars) /\ Len(<<c>>) <= 1 OBVIOUS
  <2>. QED BY <1>1, <1>2, <2>1, FlushIInv
<1>3. CASE ~isBufferFull(p) /\ out' = [out EXCEPT ![p] = Append(out[p], c)] /\ proc' = proc
  <2>1. PICK r \in ProcSet : r = proc[p] BY DEF IInv, Typed
  <2>2. proc' = [proc EXCEPT ![p] = r] BY <1>3, <2>1 DEF IInv, Typed
  <2>3. Room(r, out[p]) /\ Sound(p, r, Last(p), unseen) BY <2>1 DEF IInv, Typed
  <2>4. out[p] \in Seq(Chars) BY DEF IInv, Typed
  <2>5. PICK n \in Nat : n = Len(out[p]) BY <2>4
  <2>6. r.then = << >> /\ Len(r.then) = 0 BY <1>1, <2>1, <2>3, EmptyWord DEF Room
  <2>7. n + 1 < BSize
    <3>1. n < BSize /\ n # BSize - 1 BY <1>3, <2>3, <2>5, <2>6 DEF Room, isBufferFull
    <3>. QED BY <3>1, Sizes
  <2>8. Append(out[p], c) \in Seq(Chars) /\ Len(Append(out[p], c)) = n + 1 BY <2>4, <2>5
  <2>9. /\ out' \in [Procs -> Seq(Chars)] /\ out'[p] = Append(out[p], c)
        /\ \A q \in Procs \ {p} : out'[q] = out[q]
    BY <1>3, <2>8 DEF IInv, Typed
  <2>10. Room(r, out'[p]) BY <2>3, <2>6, <2>7, <2>8, <2>9 DEF Room
  <2>11. UNCHANGED <<memory, video, activePage, spoilt>> /\ cursor' \in [Page -> Coord]
         /\ unseen' = unseen /\ unseen' \subseteq Procs
    BY <1>1 DEF IInv, Typed
  <2>12. Sound(p, r, Last(p), unseen') BY <2>3, <2>11
  <2>13. GoesOn(p, r) BY <2>1 DEF GoesOn
  <2>. QED BY <2>2, <2>9, <2>10, <2>11, <2>12, <2>13, QuietStep
<1>. QED BY <1>2, <1>3 DEF SysWrite

LEMMA SysFlushIInv ==
    ASSUME IInv, NEW p \in Procs, SysFlush(p)
    PROVE  IInv'
<1>1. << >> \in Seq(Chars) /\ Len(<< >>) <= 1 OBVIOUS
<1>. QED BY <1>1, FlushIInv DEF SysFlush, Call

LEMMA ClearScreenIInv ==
    ASSUME IInv, NEW p \in Procs, ClearScreen(p)
    PROVE  IInv'
<1>1. PICK idle \in ProcSet : /\ idle = Idle /\ idle.then = << >> /\ idle.buf = << >>
                              /\ Len(idle.then) = 0 /\ Len(idle.buf) = 0
  BY IdleTyped
<1>2. PICK r : r = [idle EXCEPT !.at = "blank", !.ret = "next"] OBVIOUS
<1>3. "blank" \in Steps BY DEF Steps, Scrolling
<1>4. /\ r \in ProcSet /\ r.at = "blank" /\ r.ret = "next" /\ r.buf = << >> /\ r.then = << >>
      /\ Len(r.buf) = 0 /\ Len(r.then) = 0
  BY <1>1, <1>2, <1>3 DEF ProcSet, Returns
<1>5. proc' = [proc EXCEPT ![p] = r] /\ proc[p].at = "idle"
  BY <1>1, <1>2 DEF ClearScreen, Becomes, Call
<1>6. Room(proc[p], out[p]) /\ Sound(p, proc[p], Last(p), unseen) BY DEF IInv, Typed
<1>7. Room(r, out[p])
  <2>1. proc[p].then = << >> /\ Len(proc[p].then) = 0 BY <1>5, <1>6, EmptyWord DEF Room
  <2>. QED BY <1>4, <1>6, <2>1, Sizes DEF Room
<1>8. Last(p) < Cols BY <1>5, <1>6 DEF Sound, Begun
<1>9. Sound(p, r, Last(p), unseen) BY <1>4, <1>8 DEF Sound, Begun, Scrolling, Writing, Returns
<1>10. UNCHANGED <<memory, video, activePage, spoilt>> /\ cursor' \in [Page -> Coord]
       /\ unseen' = unseen /\ unseen' \subseteq Procs /\ out' = out /\ out' \in [Procs -> Seq(Chars)]
  BY DEF ClearScreen, IInv, Typed
<1>11. GoesOn(p, r) BY <1>5, NothingComes DEF GoesOn
<1>. QED BY <1>4, <1>5, <1>7, <1>9, <1>10, <1>11, QuietStep

LEMMA SetCursorIInv ==
    ASSUME IInv, NEW p \in Procs, NEW coord, SetCursor(p, coord)
    PROVE  IInv'
<1>1. PICK r \in ProcSet : r = proc[p] BY DEF IInv, Typed
<1>2. proc' = [proc EXCEPT ![p] = r] BY <1>1 DEF SetCursor, IInv, Typed
<1>3. Room(r, out[p]) /\ Sound(p, r, Last(p), unseen) BY <1>1 DEF IInv, Typed
<1>4. cursor' \in [Page -> Coord] BY DEF SetCursor, IInv, Typed
<1>5. UNCHANGED <<memory, video, activePage, spoilt>>
       /\ unseen' = unseen /\ unseen' \subseteq Procs /\ out' = out /\ out' \in [Procs -> Seq(Chars)]
  BY DEF SetCursor, IInv, Typed
<1>6. GoesOn(p, r) BY <1>1 DEF GoesOn
<1>. QED BY <1>1, <1>2, <1>3, <1>4, <1>5, <1>6, QuietStep


-----------------------------------------------------------------------------
(* The steps that only read what processes share.                          *)

LEMMA Now ==
    ASSUME IInv, NEW p \in Procs
    PROVE  \E old \in ProcSet : /\ old = proc[p] /\ Room(old, out[p])
                                /\ Sound(p, old, Last(p), unseen)
                                /\ old.at \in Steps /\ old.left \in 0 .. TabSpace
                                /\ old.buf \in Seq(Chars) /\ Last(p) \in Nat
BY LastTyped DEF IInv, Typed, ProcSet

LEMMA DriverStep ==
    ASSUME IInv, NEW p \in Procs, NEW r \in ProcSet, proc' = [proc EXCEPT ![p] = r],
           UNCHANGED <<memory, video, activePage, cursor, out, spoilt>>, unseen' \subseteq Procs,
           \A q \in Procs \ {p} : (q \in unseen <=> q \in unseen'),
           r.at # "idle", Len(r.buf) < BSize, r.then = proc[p].then,
           Sound(p, r, Last(p), unseen'), GoesOn(p, r)
    PROVE  IInv'
<1>1. Room(r, out[p])
  <2>1. Room(proc[p], out[p]) BY DEF IInv, Typed
  <2>. QED BY <2>1 DEF Room
<1>2. out' = out /\ out' \in [Procs -> Seq(Chars)] /\ cursor' \in [Page -> Coord]
  BY DEF IInv, Typed
<1>3. UNCHANGED <<memory, video, activePage, spoilt>> OBVIOUS
<1>4. Room(r, out'[p]) /\ \A q \in Procs \ {p} : out'[q] = out[q] /\ (q \in unseen <=> q \in unseen')
  BY <1>1, <1>2
<1>. QED BY <1>2, <1>3, <1>4, QuietStep

LEMMA ReachIs ==
    ASSUME NEW r, NEW left \in 0 .. TabSpace, r.left = left
    PROVE  /\ Reach(r) \in Nat /\ Cols <= Reach(r)
           /\ left = 0 \/ left = TabSpace => Reach(r) = Cols
           /\ left > 0 => Reach(r) = Cols + TabSpace - left
<1>1. Reach(r) = Cols + (IF left = 0 THEN 0 ELSE TabSpace - left) BY DEF Reach
<1>. QED BY <1>1, Sizes

LEMMA WritingGoesOn ==
    ASSUME NEW p, proc[p] \in ProcSet, NEW r \in ProcSet,
           proc[p].at \in Writing \ {"mark"}, r.at \in Writing \cup Scrolling
    PROVE  GoesOn(p, r)
BY WritesOn DEF GoesOn, Writing, Drawing, Scrolling

LEMMA TakeTtyIInv ==
    ASSUME IInv, NEW p \in Procs, TakeTty(p)
    PROVE  IInv'
<1>1. PICK old \in ProcSet : /\ old = proc[p] /\ Room(old, out[p])
                             /\ Sound(p, old, Last(p), unseen)
                             /\ old.left \in 0 .. TabSpace /\ old.buf \in Seq(Chars)
                             /\ Last(p) \in Nat
  BY Now
<1>2. old.at = "next" /\ old.buf # << >> /\ Tty(p) BY <1>1 DEF TakeTty, At
<1>3. Last(p) < Cols /\ old.row = 0 /\ old.col = 0 BY <1>1, <1>2 DEF Sound, Begun, Writing
<1>4. /\ Head(old.buf) \in Glyph /\ Tail(old.buf) \in Seq(Chars)
      /\ Len(Tail(old.buf)) < BSize
  <2>1. Head(old.buf) \in Chars /\ Tail(old.buf) \in Seq(Chars) BY <1>1, <1>2
  <2>2. PICK n \in Nat : n = Len(old.buf) BY <1>1
  <2>3. Len(Tail(old.buf)) = n - 1 BY <1>1, <1>2, <2>2
  <2>4. n < BSize BY <1>1, <2>2 DEF Room
  <2>5. n - 1 < BSize BY <2>4, Sizes
  <2>6. Len(Tail(old.buf)) < BSize BY <2>3, <2>5
  <2>. QED BY <2>1, <2>6 DEF Glyph
<1>5. PICK now \in ProcSet : /\ now = [old EXCEPT !.buf = Tail(old.buf)]
                             /\ now.buf = Tail(old.buf) /\ now.then = old.then
                             /\ now.row = 0 /\ now.col = 0 /\ now.left = old.left
  <2>1. PICK rest \in Seq(Chars) : rest = Tail(old.buf) BY <1>4
  <2>2. PICK now : now = [old EXCEPT !.buf = rest] OBVIOUS
  <2>3. /\ now \in ProcSet /\ now.buf = rest /\ now.then = old.then
        /\ now.row = old.row /\ now.col = old.col /\ now.left = old.left
    BY <2>2 DEF ProcSet
  <2>. QED BY <1>3, <2>1, <2>2, <2>3
<1>6. PICK r : /\ proc' = [proc EXCEPT ![p] = r]
               /\ \/ r = [now EXCEPT !.at = "move", !.ret = "look zero", !.c = Head(old.buf)]
                  \/ r = [now EXCEPT !.at = "load", !.left = TabSpace]
                  \/ r = [now EXCEPT !.at = "mark", !.c = Head(old.buf)]
  BY <1>1, <1>5 DEF TakeTty, Becomes
<1>7. {"move", "load", "mark"} \subseteq Steps /\ TabSpace \in 0 .. TabSpace /\ "look zero" \in Returns
  BY Sizes DEF Steps, Writing, Scrolling, Returns
<1>8. /\ r \in ProcSet /\ r.buf = Tail(old.buf) /\ r.then = old.then /\ r.row = 0 /\ r.col = 0
      /\ \/ r.at = "move" /\ r.ret = "look zero"
         \/ r.at = "load" /\ r.left = TabSpace
         \/ r.at = "mark" /\ r.left \in 0 .. TabSpace
  BY <1>1, <1>4, <1>5, <1>6, <1>7 DEF ProcSet
<1>9. UNCHANGED <<memory, video, activePage, cursor, out, spoilt>> /\ unseen' = unseen \ {p}
  BY DEF TakeTty
<1>10. Sound(p, r, Last(p), unseen')
  <2>1. r.at # "move" => Last(p) < Reach(r) /\ Last(p) < Reach(r) + 1
    <3>1. CASE r.at = "load"
      <4>1. Reach(r) \in Nat /\ Reach(r) = Cols BY <1>7, <1>8, <3>1, ReachIs
      <4>. QED BY <1>1, <1>3, <4>1
    <3>2. CASE r.at = "mark"
      <4>1. Reach(r) \in Nat /\ Cols <= Reach(r) BY <1>8, <3>2, ReachIs
      <4>. QED BY <1>1, <1>3, <4>1, Sizes
    <3>. QED BY <1>8, <3>1, <3>2
  <2>. QED BY <1>2, <1>3, <1>8, <1>9, <2>1 DEF Sound, Begun, Scrolling, Writing, Returns
<1>11. GoesOn(p, r) BY <1>1, <1>2, <1>8, WritingGoesOn DEF Writing, Scrolling
<1>12. unseen' \subseteq Procs /\ \A q \in Procs \ {p} : (q \in unseen <=> q \in unseen')
  BY <1>9 DEF IInv, Typed
<1>13. r.at # "idle" /\ Len(r.buf) < BSize /\ r.then = proc[p].then BY <1>1, <1>4, <1>8
<1>. QED BY <1>6, <1>8, <1>9, <1>10, <1>11, <1>12, <1>13, DriverStep

LEMMA LoadPosIInv ==
    ASSUME IInv, NEW p \in Procs, LoadPos(p)
    PROVE  IInv'
<1>1. PICK old \in ProcSet : /\ old = proc[p] /\ Room(old, out[p])
                             /\ Sound(p, old, Last(p), unseen)
                             /\ old.left \in 0 .. TabSpace /\ Last(p) \in Nat
  BY Now
<1>2. old.at = "load" BY <1>1 DEF LoadPos, At
<1>3. PICK r : r = [old EXCEPT !.at = "store", !.pos = Last(p)] OBVIOUS
<1>4. proc' = [proc EXCEPT ![p] = r] BY <1>1, <1>3 DEF LoadPos, Becomes, Last
<1>5. "store" \in Steps BY DEF Steps, Writing
<1>6. /\ r \in ProcSet /\ r.at = "store" /\ r.pos = Last(p) /\ r.buf = old.buf
      /\ r.then = old.then /\ r.left = old.left /\ r.row = old.row /\ r.col = old.col
  BY <1>1, <1>3, <1>5 DEF ProcSet
<1>7. UNCHANGED <<memory, video, activePage, cursor, out, spoilt>> /\ unseen' = unseen
  BY DEF LoadPos
<1>8. Reach(r) = Reach(old) BY <1>6 DEF Reach
<1>9. Sound(p, r, Last(p), unseen')
  BY <1>1, <1>2, <1>6, <1>7, <1>8 DEF Sound, Begun, Scrolling, Writing
<1>10. GoesOn(p, r) BY <1>1, <1>2, <1>6, WritingGoesOn DEF Writing
<1>11. r.at # "idle" /\ Len(r.buf) < BSize /\ r.then = proc[p].then BY <1>1, <1>6 DEF Room
<1>12. unseen' \subseteq Procs BY <1>7 DEF IInv, Typed
<1>. QED BY <1>4, <1>6, <1>7, <1>9, <1>10, <1>11, <1>12, DriverStep

LEMMA LookShownIInv ==
    ASSUME IInv, NEW p \in Procs, LookShown(p)
    PROVE  IInv'
<1>1. PICK old \in ProcSet : /\ old = proc[p] /\ Room(old, out[p])
                             /\ Sound(p, old, Last(p), unseen)
                             /\ old.left \in 0 .. TabSpace /\ Last(p) \in Nat
  BY Now
<1>2. old.at \in {"look", "look zero"} BY <1>1 DEF LookShown, At
<1>3. PICK r : r = [old EXCEPT !.at = IF old.at = "look" THEN "test" ELSE "zero shown",
                               !.page = activePage]
  OBVIOUS
<1>4. proc' = [proc EXCEPT ![p] = r] BY <1>1, <1>3 DEF LookShown, Becomes
<1>5. {"test", "zero shown"} \subseteq Steps /\ activePage \in Page
  BY DEF Steps, Writing, IInv, Typed
<1>6. /\ r \in ProcSet /\ r.at = (IF old.at = "look" THEN "test" ELSE "zero shown")
      /\ r.buf = old.buf /\ r.then = old.then /\ r.left = old.left
      /\ r.row = old.row /\ r.col = old.col
  BY <1>1, <1>3, <1>5 DEF ProcSet
<1>7. UNCHANGED <<memory, video, activePage, cursor, out, spoilt>> /\ unseen' = unseen
  BY DEF LookShown
<1>8. Reach(r) = Reach(old) BY <1>6 DEF Reach
<1>9. Sound(p, r, Last(p), unseen')
  BY <1>1, <1>2, <1>6, <1>7, <1>8 DEF Sound, Begun, Scrolling, Writing
<1>10. GoesOn(p, r) BY <1>1, <1>2, <1>6, WritingGoesOn DEF Writing
<1>11. r.at # "idle" /\ Len(r.buf) < BSize /\ r.then = proc[p].then BY <1>1, <1>6 DEF Room
<1>12. unseen' \subseteq Procs BY <1>7 DEF IInv, Typed
<1>. QED BY <1>4, <1>6, <1>7, <1>9, <1>10, <1>11, <1>12, DriverStep

LEMMA TestIInv ==
    ASSUME IInv, NEW p \in Procs, Test(p)
    PROVE  IInv'
<1>1. PICK old \in ProcSet : /\ old = proc[p] /\ Room(old, out[p])
                             /\ Sound(p, old, Last(p), unseen)
                             /\ old.left \in 0 .. TabSpace /\ Last(p) \in Nat
  BY Now
<1>2. /\ old.at = "test" /\ Tty(p) /\ old.left > 0 /\ Last(p) < Reach(old) + 1
      /\ old.row = 0 /\ old.col = 0
  BY <1>1 DEF Test, At, Sound, Begun, Writing
<1>3. PICK then : then = IF old.left > 1 THEN "load" ELSE "wrap" OBVIOUS
<1>4. PICK less \in 0 .. TabSpace : less = old.left - 1 BY <1>1, <1>2, Sizes
<1>5. PICK now \in ProcSet : /\ now = [old EXCEPT !.left = old.left - 1, !.page = 0]
                             /\ now.left = old.left - 1 /\ now.buf = old.buf
                             /\ now.then = old.then /\ now.row = 0 /\ now.col = 0
  <2>1. PICK now : now = [old EXCEPT !.left = less, !.page = 0] OBVIOUS
  <2>2. 0 \in Page BY Zeros
  <2>3. /\ now \in ProcSet /\ now.left = less /\ now.buf = old.buf /\ now.then = old.then
        /\ now.row = old.row /\ now.col = old.col
    BY <2>1, <2>2 DEF ProcSet
  <2>. QED BY <1>2, <1>4, <2>1, <2>3
<1>6. PICK r : /\ proc' = [proc EXCEPT ![p] = r]
               /\ r = IF LineFull(old.page) THEN [now EXCEPT !.at = "move", !.ret = then]
                      ELSE [now EXCEPT !.at = then]
  BY <1>1, <1>3, <1>5 DEF Test, Becomes
<1>7. {"move", "load", "wrap"} \subseteq Steps /\ then \in Returns
  BY <1>3 DEF Steps, Writing, Scrolling, Returns
<1>8. /\ r \in ProcSet /\ r.buf = old.buf /\ r.then = old.then /\ r.left = old.left - 1
      /\ r.row = 0 /\ r.col = 0
      /\ IF LineFull(old.page) THEN r.at = "move" /\ r.ret = then ELSE r.at = then
  <2>1. then \in Steps BY <1>3, <1>7
  <2>. QED BY <1>1, <1>5, <1>6, <1>7, <2>1 DEF ProcSet
<1>9. /\ UNCHANGED <<memory, video, activePage, cursor, out, spoilt>>
      /\ unseen' = IF old.page # PageOf[p] THEN unseen \cup {p} ELSE unseen
  BY <1>1 DEF Test
<1>10. Sound(p, r, Last(p), unseen')
  <2>1. r.at = "load" => Last(p) < Reach(r)
    <3>1. SUFFICES ASSUME r.at = "load" PROVE Last(p) < Reach(r) OBVIOUS
    <3>2. old.left > 1 BY <1>3, <1>8, <3>1
    <3>3. Reach(old) = Cols + TabSpace - old.left BY <1>1, <1>2, ReachIs
    <3>4. r.left = less /\ less > 0 BY <1>1, <1>4, <1>8, <3>2
    <3>5. Reach(r) = Cols + TabSpace - less BY <3>4, ReachIs
    <3>. QED BY <1>1, <1>2, <1>4, <3>3, <3>5, Sizes
  <2>2. r.at = "load" /\ p \notin unseen' => Last(p) < Cols
    <3>1. old.page = PageOf[p] => (LineFull(old.page) <=> Last(p) >= Cols) BY DEF LineFull, Last
    <3>. QED BY <1>1, <1>3, <1>8, <1>9, <3>1, Sizes
  <2>. QED BY <1>2, <1>3, <1>8, <2>1, <2>2 DEF Sound, Begun, Scrolling, Writing, Returns
<1>11. GoesOn(p, r)
  <2>1. r.at \in Writing \cup Scrolling BY <1>3, <1>8 DEF Writing, Scrolling
  <2>. QED BY <1>1, <1>2, <1>8, <2>1, WritingGoesOn DEF Writing
<1>12. unseen' \subseteq Procs /\ \A q \in Procs \ {p} : (q \in unseen <=> q \in unseen')
  BY <1>9 DEF IInv, Typed
<1>13. r.at # "idle" /\ Len(r.buf) < BSize /\ r.then = proc[p].then BY <1>1, <1>3, <1>8 DEF Room
<1>. QED BY <1>6, <1>8, <1>9, <1>10, <1>11, <1>12, <1>13, DriverStep

LEMMA WrapIInv ==
    ASSUME IInv, NEW p \in Procs, Wrap(p)
    PROVE  IInv'
<1>1. PICK old \in ProcSet : /\ old = proc[p] /\ Room(old, out[p])
                             /\ Sound(p, old, Last(p), unseen)
                             /\ old.left \in 0 .. TabSpace /\ Last(p) \in Nat
  BY Now
<1>2. old.at = "wrap" /\ Tty(p) /\ old.row = 0 /\ old.col = 0
  BY <1>1 DEF Wrap, At, Sound, Writing
<1>3. PICK r : /\ proc' = [proc EXCEPT ![p] = r]
               /\ r = IF LineFull(PageOf[p]) THEN [old EXCEPT !.at = "move", !.ret = "look zero"]
                      ELSE [old EXCEPT !.at = "next", !.c = " "]
  BY <1>1 DEF Wrap, Becomes
<1>4. {"move", "next"} \subseteq Steps /\ "look zero" \in Returns /\ " " \in Glyph
  BY Zeros DEF Steps, Writing, Scrolling, Returns
<1>5. /\ r \in ProcSet /\ r.buf = old.buf /\ r.then = old.then /\ r.row = 0 /\ r.col = 0
      /\ IF LineFull(PageOf[p]) THEN r.at = "move" /\ r.ret = "look zero" ELSE r.at = "next"
  BY <1>1, <1>2, <1>3, <1>4 DEF ProcSet
<1>6. UNCHANGED <<memory, video, activePage, cursor, out, spoilt>> /\ unseen' = unseen
  BY DEF Wrap
<1>7. LineFull(PageOf[p]) \/ Last(p) < Cols BY <1>1, Sizes DEF LineFull, Last
<1>8. Sound(p, r, Last(p), unseen')
  BY <1>2, <1>5, <1>7 DEF Sound, Begun, Scrolling, Writing, Returns
<1>9. GoesOn(p, r) BY <1>1, <1>2, <1>5, WritingGoesOn DEF Writing, Scrolling
<1>10. r.at # "idle" /\ Len(r.buf) < BSize /\ r.then = proc[p].then BY <1>1, <1>5 DEF Room
<1>11. unseen' \subseteq Procs BY <1>6 DEF IInv, Typed
<1>. QED BY <1>3, <1>5, <1>6, <1>8, <1>9, <1>10, <1>11, DriverStep

-----------------------------------------------------------------------------
(* The cursor.                                                             *)

Near == (0 .. Rows) \X Col

LEMMA SettleIs ==
    ASSUME IInv, NEW p \in Procs, NEW coord \in Near, NEW now \in ProcSet, Settle(p, coord, now)
    PROVE  /\ cursor' \in [Page -> Coord]
           /\ \E r \in ProcSet :
                 /\ proc' = [proc EXCEPT ![p] = r] /\ r.buf = now.buf /\ r.then = now.then
                 /\ r.left = now.left /\ r.row = now.row /\ r.col = now.col
                 /\ \/ r.at = "move" /\ r.ret \in {"mark", "next"} /\ (r.ret = "mark" => now.left > 0)
                    \/ r.at = "mark" /\ now.left > 0
                    \/ r.at = "next"
<1>1. PICK low : low = (coord[1] >= Rows) OBVIOUS
<1>2. PICK new \in Coord : new = IF low THEN <<Rows - 1, coord[2]>> ELSE coord
  <2>1. coord[1] \in 0 .. Rows /\ coord[2] \in Col /\ coord = <<coord[1], coord[2]>> BY DEF Near
  <2>2. CASE low
    <3>1. Rows - 1 \in Row BY Sizes DEF Row
    <3>. QED BY <2>1, <2>2, <3>1 DEF Coord
  <2>3. CASE ~low
    <3>1. PICK n \in 0 .. Rows : n = coord[1] BY <2>1
    <3>2. ~(n >= Rows) BY <1>1, <2>3, <3>1
    <3>3. n \in Row BY <3>2, Sizes DEF Row
    <3>4. coord[1] \in Row BY <3>1, <3>3
    <3>. QED BY <2>1, <2>3, <3>4 DEF Coord
  <2>. QED BY <2>2, <2>3
<1>3. PICK then : then = IF now.left > 0 THEN "mark" ELSE "next" OBVIOUS
<1>4. {"move", "mark", "next"} \subseteq Steps /\ then \in Returns /\ then \in Steps
  BY <1>3 DEF Steps, Writing, Scrolling, Returns
<1>5. PICK r : r = IF low THEN [now EXCEPT !.coord = new, !.at = "move", !.ret = then]
                   ELSE [now EXCEPT !.coord = new, !.at = then]
  OBVIOUS
<1>6. /\ r \in ProcSet /\ r.buf = now.buf /\ r.then = now.then /\ r.left = now.left
      /\ r.row = now.row /\ r.col = now.col
      /\ IF low THEN r.at = "move" /\ r.ret = then ELSE r.at = then
  BY <1>4, <1>5 DEF ProcSet
<1>7. proc' = [proc EXCEPT ![p] = r] /\ cursor' = [cursor EXCEPT ![PageOf[p]] = new]
  BY <1>1, <1>2, <1>3, <1>5 DEF Settle, Becomes
<1>8. cursor' \in [Page -> Coord] BY <1>2, <1>7 DEF IInv, Typed
<1>. QED BY <1>3, <1>6, <1>7, <1>8

\* What a process at its cursor is after a character, or before one.
LEMMA CursorSound ==
    ASSUME NEW p \in Procs, NEW r \in ProcSet, ~Tty(p), NEW last \in Nat, last < Cols, NEW far,
           r.row = 0, r.col = 0,
           \/ r.at = "move" /\ r.ret \in {"mark", "next"} /\ (r.ret = "mark" => r.left > 0)
           \/ r.at \in {"mark", "put"} /\ r.left > 0
           \/ r.at = "next"
    PROVE  Sound(p, r, last, far)
<1>1. r.left \in 0 .. TabSpace BY DEF ProcSet
<1>2. Reach(r) \in Nat /\ Cols <= Reach(r) BY <1>1, ReachIs
<1>3. last < Reach(r) /\ last < Reach(r) + 1 BY <1>2, Sizes
<1>. QED BY <1>3 DEF Sound, Begun, Scrolling, Writing, Returns

LEMMA TakeCursorIInv ==
    ASSUME IInv, NEW p \in Procs, TakeCursor(p)
    PROVE  IInv'
<1>1. PICK old \in ProcSet : /\ old = proc[p] /\ Room(old, out[p])
                             /\ Sound(p, old, Last(p), unseen)
                             /\ old.left \in 0 .. TabSpace /\ old.buf \in Seq(Chars)
                             /\ Last(p) \in Nat
  BY Now
<1>2. old.at = "next" /\ old.buf # << >> /\ ~Tty(p) BY <1>1 DEF TakeCursor, At
<1>3. Last(p) < Cols /\ old.row = 0 /\ old.col = 0 BY <1>1, <1>2 DEF Sound, Begun, Writing
<1>4. /\ Head(old.buf) \in Glyph /\ Tail(old.buf) \in Seq(Chars)
      /\ Len(Tail(old.buf)) < BSize
  <2>1. Head(old.buf) \in Chars /\ Tail(old.buf) \in Seq(Chars) BY <1>1, <1>2
  <2>2. PICK n \in Nat : n = Len(old.buf) BY <1>1
  <2>3. Len(Tail(old.buf)) = n - 1 BY <1>1, <1>2, <2>2
  <2>4. n < BSize BY <1>1, <2>2 DEF Room
  <2>5. n - 1 < BSize BY <2>4, Sizes
  <2>6. Len(Tail(old.buf)) < BSize BY <2>3, <2>5
  <2>. QED BY <2>1, <2>6 DEF Glyph
<1>5. PICK now \in ProcSet : /\ now = [old EXCEPT !.buf = Tail(old.buf)]
                             /\ now.buf = Tail(old.buf) /\ now.then = old.then
                             /\ now.row = 0 /\ now.col = 0
  <2>1. PICK rest \in Seq(Chars) : rest = Tail(old.buf) BY <1>4
  <2>2. PICK now : now = [old EXCEPT !.buf = rest] OBVIOUS
  <2>3. /\ now \in ProcSet /\ now.buf = rest /\ now.then = old.then
        /\ now.row = old.row /\ now.col = old.col
    BY <2>2 DEF ProcSet
  <2>. QED BY <1>3, <2>1, <2>2, <2>3
<1>6. PICK coord : coord = old.coord OBVIOUS
<1>7. coord[1] \in 0 .. Rows - 1 /\ coord[2] \in Col BY <1>6 DEF ProcSet, Coord, Row
<1>8. <<coord[1] + 1, 0>> \in Near /\ <<coord[1], 0>> \in Near
  <2>1. coord[1] + 1 \in 0 .. Rows /\ coord[1] \in 0 .. Rows BY <1>7, Sizes
  <2>. QED BY <2>1, Zeros DEF Near
<1>9. /\ cursor' \in [Page -> Coord]
      /\ \E r \in ProcSet :
            /\ proc' = [proc EXCEPT ![p] = r] /\ r.buf = Tail(old.buf) /\ r.then = old.then
            /\ r.row = 0 /\ r.col = 0
            /\ \/ r.at = "move" /\ r.ret \in {"mark", "next"} /\ (r.ret = "mark" => r.left > 0)
               \/ r.at \in {"mark", "put"} /\ r.left > 0
               \/ r.at = "next"
  <2>1. CASE \/ Settle(p, <<coord[1] + 1, 0>>, now) \/ Settle(p, <<coord[1], 0>>, now)
    <3>1. PICK c \in Near : Settle(p, c, now) BY <1>8, <2>1
    <3>2. cursor' \in [Page -> Coord] BY <3>1, SettleIs
    <3>3. PICK r \in ProcSet :
             /\ proc' = [proc EXCEPT ![p] = r] /\ r.buf = now.buf /\ r.then = now.then
             /\ r.left = now.left /\ r.row = now.row /\ r.col = now.col
             /\ \/ r.at = "move" /\ r.ret \in {"mark", "next"} /\ (r.ret = "mark" => now.left > 0)
                \/ r.at = "mark" /\ now.left > 0
                \/ r.at = "next"
      BY <3>1, SettleIs
    <3>. QED BY <1>5, <3>2, <3>3
  <2>2. CASE /\ proc' = [proc EXCEPT ![p] = IF Head(old.buf) = "TAB"
                  THEN [now EXCEPT !.at = "mark", !.left = TabSpace]
                  ELSE [now EXCEPT !.at = "mark", !.left = 1, !.c = Head(old.buf)]]
             /\ cursor' = cursor
    <3>1. PICK r : r = IF Head(old.buf) = "TAB"
                  THEN [now EXCEPT !.at = "mark", !.left = TabSpace]
                  ELSE [now EXCEPT !.at = "mark", !.left = 1, !.c = Head(old.buf)]
      OBVIOUS
    <3>2. "mark" \in Steps /\ TabSpace \in 0 .. TabSpace /\ 1 \in 0 .. TabSpace /\ TabSpace > 0
      BY Sizes DEF Steps, Writing
    <3>3. /\ r \in ProcSet /\ r.buf = now.buf /\ r.then = now.then /\ r.row = now.row
          /\ r.col = now.col /\ r.at = "mark" /\ (r.left = TabSpace \/ r.left = 1)
      BY <1>4, <3>1, <3>2 DEF ProcSet
    <3>4. r.left > 0 BY <3>2, <3>3
    <3>. QED BY <1>5, <2>2, <3>1, <3>3, <3>4 DEF IInv, Typed
  <2>. QED BY <1>1, <1>5, <1>6, <2>1, <2>2 DEF TakeCursor, Becomes
<1>10. PICK r \in ProcSet :
            /\ proc' = [proc EXCEPT ![p] = r] /\ r.buf = Tail(old.buf) /\ r.then = old.then
            /\ r.row = 0 /\ r.col = 0
            /\ \/ r.at = "move" /\ r.ret \in {"mark", "next"} /\ (r.ret = "mark" => r.left > 0)
               \/ r.at \in {"mark", "put"} /\ r.left > 0
               \/ r.at = "next"
  BY <1>9
<1>11. UNCHANGED <<memory, video, activePage, out, spoilt>> /\ unseen' = unseen
  BY DEF TakeCursor
<1>12. Sound(p, r, Last(p), unseen') BY <1>1, <1>2, <1>3, <1>10, CursorSound
<1>13. GoesOn(p, r) BY <1>1, <1>2, <1>10, WritingGoesOn DEF Writing, Scrolling
<1>14. Room(r, out'[p]) BY <1>1, <1>4, <1>10, <1>11 DEF Room
<1>15. /\ out' \in [Procs -> Seq(Chars)] /\ unseen' \subseteq Procs
       /\ \A q \in Procs \ {p} : out'[q] = out[q] /\ (q \in unseen <=> q \in unseen')
       /\ UNCHANGED <<memory, video, activePage, spoilt>>
  BY <1>11 DEF IInv, Typed
<1>. QED BY <1>9, <1>10, <1>12, <1>13, <1>14, <1>15, QuietStep

-----------------------------------------------------------------------------
(* The steps of rerenderVideo that only read what processes share.         *)

LEMMA EndsIInv ==
    ASSUME IInv, NEW p \in Procs, Ends(p)
    PROVE  IInv'
<1>1. PICK old \in ProcSet : /\ old = proc[p] /\ Room(old, out[p])
                             /\ Sound(p, old, Last(p), unseen) /\ Last(p) \in Nat
  BY Now
<1>2. old.at = "next" BY <1>1 DEF Ends, At
<1>3. Last(p) < Cols /\ old.row = 0 /\ old.col = 0 BY <1>1, <1>2 DEF Sound, Begun, Writing
<1>4. PICK r : /\ proc' = [proc EXCEPT ![p] = r]
               /\ r = [old EXCEPT !.at = IF Shown(p) THEN "drawn" ELSE "clear"]
  BY <1>1 DEF Ends, Goto, Becomes
<1>5. {"drawn", "clear"} \subseteq Steps BY DEF Steps, Writing
<1>6. /\ r \in ProcSet /\ r.buf = old.buf /\ r.then = old.then /\ r.row = old.row
      /\ r.col = old.col /\ r.at = IF Shown(p) THEN "drawn" ELSE "clear"
  BY <1>1, <1>4, <1>5 DEF ProcSet
<1>7. UNCHANGED <<memory, video, activePage, cursor, out, spoilt>> /\ unseen' = unseen
  BY DEF Ends
<1>8. Sound(p, r, Last(p), unseen') BY <1>3, <1>6 DEF Sound, Begun, Scrolling, Writing
<1>9. GoesOn(p, r)
  <2>1. CASE Shown(p)
    <3>1. r.at = "drawn" BY <1>6, <2>1
    <3>. QED BY <1>1, <1>2, <1>6, <3>1, WritingGoesOn DEF Writing
  <2>2. CASE ~Shown(p) BY <2>2 DEF GoesOn
  <2>. QED BY <2>1, <2>2
<1>10. r.at # "idle" /\ Len(r.buf) < BSize /\ r.then = proc[p].then BY <1>1, <1>6 DEF Room
<1>11. unseen' \subseteq Procs BY <1>7 DEF IInv, Typed
<1>. QED BY <1>4, <1>6, <1>7, <1>8, <1>9, <1>10, <1>11, DriverStep

LEMMA TestScrolledIInv ==
    ASSUME IInv, NEW p \in Procs, TestScrolled(p)
    PROVE  IInv'
<1>1. PICK old \in ProcSet : /\ old = proc[p] /\ Room(old, out[p])
                             /\ Sound(p, old, Last(p), unseen) /\ Last(p) \in Nat
  BY Now
<1>2. old.at = "drawn" BY <1>1 DEF TestScrolled, At
<1>3. Last(p) < Cols /\ old.row = 0 /\ old.col = 0 BY <1>1, <1>2 DEF Sound, Begun, Writing
<1>4. PICK r : r = [old EXCEPT !.at = "row", !.all = scrolled] OBVIOUS
<1>5. "row" \in Steps /\ scrolled \in BOOLEAN BY DEF Steps, Drawing, IInv, Typed
<1>6. /\ r \in ProcSet /\ r.buf = old.buf /\ r.then = old.then /\ r.row = 0
      /\ r.col = 0 /\ r.at = "row" /\ r.all = scrolled
  BY <1>1, <1>3, <1>4, <1>5 DEF ProcSet
<1>7. /\ UNCHANGED <<memory, video, activePage, cursor, out, spoilt>> /\ unseen' = unseen
      /\ proc' = [proc EXCEPT ![p] = r]
  BY <1>1, <1>4 DEF TestScrolled, DrawsAll, Becomes
<1>8. Sound(p, r, Last(p), unseen') BY <1>3, <1>6 DEF Sound, Begun, Scrolling, Writing
<1>9. GoesOn(p, r)
  <2>1. ASSUME NEW row \in Row, NEW col \in Col,
               Coming(p, old, renderline, scrolled, row, col)
        PROVE  Coming(p, r, renderline, scrolled, row, col)
    <3>1. scrolled \/ renderline[row]
      BY <1>2, <2>1 DEF Coming, Scrolling, Writing, Drawing
    <3>2. row > 0 \/ (row = 0 /\ col >= 0) BY Sizes DEF Row, Col
    <3>. QED BY <1>6, <3>1, <3>2 DEF Coming, Drawing
  <2>. QED BY <1>1, <2>1 DEF GoesOn
<1>10. r.at # "idle" /\ Len(r.buf) < BSize /\ r.then = proc[p].then BY <1>1, <1>6 DEF Room
<1>11. unseen' \subseteq Procs BY <1>7 DEF IInv, Typed
<1>. QED BY <1>6, <1>7, <1>8, <1>9, <1>10, <1>11, DriverStep

LEMMA NextRowIs ==
    ASSUME NEW p, NEW old \in ProcSet, old = proc[p]
    PROVE  \E r \in ProcSet :
              /\ r = NextRow(p) /\ r.buf = old.buf /\ r.then = old.then /\ r.col = 0
              /\ \/ r.at = "row" /\ r.row = old.row + 1 /\ r.all = old.all
                 \/ r.at = "clear" /\ r.row = 0 /\ old.row = Rows - 1
<1>1. old.row \in 0 .. Rows - 1 BY DEF ProcSet, Row
<1>2. PICK nil \in Glyph : nil = " " BY Zeros
<1>3. PICK now : now = [old EXCEPT !.col = 0, !.c = nil] OBVIOUS
<1>4. /\ now \in ProcSet /\ now.buf = old.buf /\ now.then = old.then /\ now.col = 0
      /\ now.row = old.row /\ now.all = old.all
  BY <1>3, Zeros DEF ProcSet
<1>5. {"row", "clear"} \subseteq Steps BY DEF Steps, Drawing
<1>6. CASE old.row < Rows - 1
  <2>1. PICK next \in Row : next = old.row + 1 BY <1>1, <1>6, Sizes DEF Row
  <2>2. PICK r : r = [now EXCEPT !.at = "row", !.row = next] OBVIOUS
  <2>3. /\ r \in ProcSet /\ r.buf = now.buf /\ r.then = now.then /\ r.col = now.col
        /\ r.at = "row" /\ r.row = next /\ r.all = now.all
    BY <1>4, <1>5, <2>2 DEF ProcSet
  <2>4. r = NextRow(p) BY <1>2, <1>3, <1>4, <1>6, <2>1, <2>2 DEF NextRow
  <2>. QED BY <1>4, <2>1, <2>3, <2>4
<1>7. CASE ~(old.row < Rows - 1)
  <2>1. old.row = Rows - 1 BY <1>1, <1>7, Sizes
  <2>2. PICK r : r = [now EXCEPT !.at = "clear", !.row = 0, !.all = FALSE] OBVIOUS
  <2>3. /\ r \in ProcSet /\ r.buf = now.buf /\ r.then = now.then /\ r.col = now.col
        /\ r.at = "clear" /\ r.row = 0
    BY <1>4, <1>5, <2>2, Zeros DEF ProcSet
  <2>4. r = NextRow(p) BY <1>2, <1>3, <1>7, <2>2 DEF NextRow
  <2>. QED BY <1>4, <2>1, <2>3, <2>4
<1>. QED BY <1>6, <1>7

\* What p, drawing, has to draw behind the line it is at.
LEMMA NextRowComes ==
    ASSUME NEW p, NEW old \in ProcSet, NEW r \in ProcSet, r.col = 0, NEW marks, NEW flag,
           NEW row \in Row, NEW col \in Col, row > old.row, old.all \/ marks[row],
           \/ r.at = "row" /\ r.row = old.row + 1 /\ r.all = old.all
           \/ r.at = "clear" /\ old.row = Rows - 1
    PROVE  Coming(p, r, marks, flag, row, col)
<1>1. old.row \in 0 .. Rows - 1 /\ row \in 0 .. Rows - 1 /\ col >= 0
  BY Sizes DEF ProcSet, Row, Col
<1>2. r.at = "row" /\ (row > r.row \/ row = r.row) BY <1>1, Sizes
<1>. QED BY <1>1, <1>2 DEF Coming, Drawing

LEMMA TestRowIInv ==
    ASSUME IInv, NEW p \in Procs, TestRow(p)
    PROVE  IInv'
<1>1. PICK old \in ProcSet : /\ old = proc[p] /\ Room(old, out[p])
                             /\ Sound(p, old, Last(p), unseen) /\ Last(p) \in Nat
  BY Now
<1>2. old.at = "row" BY <1>1 DEF TestRow, At
<1>3. Last(p) < Cols /\ old.col = 0
  BY <1>1, <1>2 DEF Sound, Begun, Drawing
<1>4. /\ UNCHANGED <<memory, video, activePage, cursor, out, spoilt>> /\ unseen' = unseen
      /\ unseen' \subseteq Procs
  BY DEF TestRow, IInv, Typed
<1>5. ASSUME NEW row \in Row, NEW col \in Col, Coming(p, old, renderline, scrolled, row, col)
      PROVE  (old.all \/ renderline[row]) /\ (row > old.row \/ (row = old.row /\ col >= old.col))
  BY <1>2, <1>5 DEF Coming, Scrolling, Writing, Drawing
<1>6. CASE old.all \/ renderline[old.row]
  <2>1. PICK r : r = [old EXCEPT !.at = "load byte"] OBVIOUS
  <2>2. "load byte" \in Steps BY DEF Steps, Drawing
  <2>3. /\ r \in ProcSet /\ r.buf = old.buf /\ r.then = old.then /\ r.row = old.row
        /\ r.col = old.col /\ r.at = "load byte" /\ r.all = old.all
    BY <2>1, <2>2 DEF ProcSet
  <2>4. proc' = [proc EXCEPT ![p] = r] BY <1>1, <1>6, <2>1 DEF TestRow, Becomes
  <2>5. Sound(p, r, Last(p), unseen') BY <1>3, <2>3 DEF Sound, Begun, Scrolling, Writing
  <2>6. GoesOn(p, r) BY <1>1, <1>5, <2>3 DEF GoesOn, Coming, Drawing
  <2>7. r.at # "idle" /\ Len(r.buf) < BSize /\ r.then = proc[p].then BY <1>1, <2>3 DEF Room
  <2>. QED BY <1>4, <2>3, <2>4, <2>5, <2>6, <2>7, DriverStep
<1>7. CASE ~(old.all \/ renderline[old.row])
  <2>1. PICK r \in ProcSet :
              /\ r = NextRow(p) /\ r.buf = old.buf /\ r.then = old.then /\ r.col = 0
              /\ \/ r.at = "row" /\ r.row = old.row + 1 /\ r.all = old.all
                 \/ r.at = "clear" /\ r.row = 0 /\ old.row = Rows - 1
    BY <1>1, NextRowIs
  <2>2. proc' = [proc EXCEPT ![p] = r] BY <1>1, <1>7, <2>1 DEF TestRow, Becomes
  <2>3. Sound(p, r, Last(p), unseen') BY <1>3, <2>1 DEF Sound, Begun, Scrolling, Writing
  <2>4. ASSUME NEW row \in Row, NEW col \in Col, Coming(p, old, renderline, scrolled, row, col)
        PROVE  Coming(p, r, renderline, scrolled, row, col)
    <3>1. row > old.row /\ (old.all \/ renderline[row]) BY <1>5, <1>7, <2>4
    <3>. QED BY <2>1, <3>1, NextRowComes
  <2>5. GoesOn(p, r) BY <1>1, <2>4 DEF GoesOn
  <2>6. r.at # "idle" /\ Len(r.buf) < BSize /\ r.then = proc[p].then BY <1>1, <2>1 DEF Room
  <2>. QED BY <1>4, <2>2, <2>3, <2>5, <2>6, DriverStep
<1>. QED BY <1>6, <1>7

LEMMA LoadByteIInv ==
    ASSUME IInv, NEW p \in Procs, LoadByte(p)
    PROVE  IInv'
<1>1. PICK old \in ProcSet : /\ old = proc[p] /\ Room(old, out[p])
                             /\ Sound(p, old, Last(p), unseen) /\ Last(p) \in Nat
  BY Now
<1>2. old.at = "load byte" BY <1>1 DEF LoadByte, At
<1>3. Last(p) < Cols BY <1>1, <1>2 DEF Sound, Begun
<1>4. PICK c \in Glyph : c = videopages[CellAt(activePage, old.row, old.col)]
  <2>1. old.row \in Row /\ old.col \in Col /\ activePage \in Page BY DEF ProcSet, IInv, Typed
  <2>2. CellAt(activePage, old.row, old.col) \in Cell BY <2>1, CellIsThere
  <2>. QED BY <2>2 DEF IInv, Typed
<1>5. PICK r : r = [old EXCEPT !.at = "store byte", !.c = c] OBVIOUS
<1>6. "store byte" \in Steps BY DEF Steps, Drawing
<1>7. /\ r \in ProcSet /\ r.buf = old.buf /\ r.then = old.then /\ r.row = old.row
      /\ r.col = old.col /\ r.at = "store byte" /\ r.all = old.all
  BY <1>5, <1>6 DEF ProcSet
<1>8. /\ UNCHANGED <<memory, video, activePage, cursor, out, spoilt>> /\ unseen' = unseen
      /\ unseen' \subseteq Procs /\ proc' = [proc EXCEPT ![p] = r]
  BY <1>1, <1>4, <1>5 DEF LoadByte, Becomes, IInv, Typed
<1>9. Sound(p, r, Last(p), unseen') BY <1>3, <1>7 DEF Sound, Begun, Scrolling, Writing
<1>10. GoesOn(p, r)
  BY <1>1, <1>2, <1>7 DEF GoesOn, Coming, Scrolling, Writing, Drawing
<1>11. r.at # "idle" /\ Len(r.buf) < BSize /\ r.then = proc[p].then BY <1>1, <1>7 DEF Room
<1>. QED BY <1>7, <1>8, <1>9, <1>10, <1>11, DriverStep

-----------------------------------------------------------------------------
(* The steps that change what processes share.                             *)

LEMMA SharedStep ==
    ASSUME IInv, NEW p \in Procs, NEW r \in ProcSet, proc' = [proc EXCEPT ![p] = r],
           videopages' \in [Cell -> Glyph], video' \in [0 .. PageCells - 1 -> Glyph],
           linepos' \in Positions, cursor' \in [Page -> Coord],
           renderline' \in [Row -> BOOLEAN], scrolled' \in BOOLEAN,
           UNCHANGED <<activePage, out, unseen>>,
           \A q \in Procs \ {p} : linepos'[PageOf[q]] <= linepos[PageOf[q]],
           r.at # "idle", Len(r.buf) < BSize, r.then = proc[p].then,
           Sound(p, r, linepos'[PageOf[p]], unseen'), ~spoilt' => ~spoilt /\ Covers(p, r)
    PROVE  IInv'
<1>1. Room(r, out'[p])
  <2>1. Room(proc[p], out[p]) BY DEF IInv, Typed
  <2>. QED BY <2>1 DEF Room
<1>2. out' = out /\ out' \in [Procs -> Seq(Chars)] /\ activePage' \in Page /\ unseen' \subseteq Procs
  BY DEF IInv, Typed
<1>3. \A q \in Procs \ {p} : /\ out'[q] = out[q] /\ (q \in unseen <=> q \in unseen')
                             /\ linepos'[PageOf[q]] <= linepos[PageOf[q]]
  BY <1>2
<1>4. Typed' BY <1>1, <1>2, <1>3, StepTyped DEF IInv
<1>5. activePage' = activePage OBVIOUS
<1>6. Cover' BY <1>5, StepCovers
<1>. QED BY <1>4, <1>6 DEF IInv

LEMMA SamePositions ==
    ASSUME IInv, linepos' = linepos
    PROVE  /\ linepos' \in Positions
           /\ \A q \in Procs : linepos'[PageOf[q]] = Last(q) /\ linepos'[PageOf[q]] <= linepos[PageOf[q]]
<1>1. \A q \in Procs : Last(q) \in Nat BY LastTyped DEF IInv
<1>. QED BY <1>1 DEF IInv, Typed, Last

LEMMA ZeroedPositions ==
    ASSUME IInv, NEW page \in Page, linepos' = [linepos EXCEPT ![page] = 0]
    PROVE  /\ linepos' \in Positions
           /\ \A q \in Procs : /\ linepos'[PageOf[q]] \in Nat
                               /\ linepos'[PageOf[q]] = 0 \/ linepos'[PageOf[q]] = Last(q)
                               /\ linepos'[PageOf[q]] <= linepos[PageOf[q]]
                               /\ PageOf[q] = page => linepos'[PageOf[q]] = 0
<1>1. 0 \in 0 .. Cols - 1 + TabSpace BY Sizes
<1>2. linepos' \in Positions BY <1>1 DEF IInv, Typed, Positions
<1>3. ASSUME NEW q \in Procs
      PROVE  /\ linepos'[PageOf[q]] \in Nat
             /\ linepos'[PageOf[q]] = 0 \/ linepos'[PageOf[q]] = Last(q)
             /\ linepos'[PageOf[q]] <= linepos[PageOf[q]]
             /\ PageOf[q] = page => linepos'[PageOf[q]] = 0
  <2>1. Last(q) \in Nat /\ PageOf[q] \in Page BY LastTyped, Zeros DEF IInv
  <2>2. linepos'[PageOf[q]] = IF PageOf[q] = page THEN 0 ELSE Last(q)
    BY <2>1 DEF IInv, Typed, Positions, Last
  <2>. QED BY <2>1, <2>2 DEF Last
<1>. QED BY <1>2, <1>3

\* A mark or the flag that is set only helps.
LEMMA ComesStill ==
    ASSUME NEW q, NEW old, NEW marks, NEW more, NEW flag, NEW up, NEW row, NEW col,
           marks[row] => more[row], flag => up, Coming(q, old, marks, flag, row, col)
    PROVE  Coming(q, old, more, up, row, col)
BY DEF Coming

\* A cell of p's page is none of a page shown that is not p's.
LEMMA OtherPage ==
    ASSUME IInv, NEW p \in Procs, ~Shown(p), NEW r \in Row, NEW c \in Col,
           NEW row \in Row, NEW col \in Col
    PROVE  CellAt(activePage, row, col) # CellAt(PageOf[p], r, c)
<1>1. activePage \in Page /\ PageOf[p] \in Page BY Zeros DEF IInv, Typed
<1>. QED BY <1>1, OneCell DEF Shown

LEMMA MoveIInv ==
    ASSUME IInv, NEW p \in Procs, Move(p)
    PROVE  IInv'
<1>1. PICK old \in ProcSet : /\ old = proc[p] /\ Room(old, out[p])
                             /\ Sound(p, old, Last(p), unseen) /\ Last(p) \in Nat
  BY Now
<1>2. old.at \in {"move", "blank"} BY <1>1 DEF Move, At
<1>3. /\ UNCHANGED <<video, activePage, linepos, cursor, renderline, scrolled, out, unseen, spoilt>>
      /\ videopages' = [videopages EXCEPT ![CellAt(PageOf[p], old.row, old.col)]
                                             = Moved(p, old.row, old.col)]
  BY <1>1 DEF Move
<1>4. PICK r : /\ proc' = [proc EXCEPT ![p] = r]
               /\ r = IF old.col < Cols - 1 THEN [old EXCEPT !.col = old.col + 1]
                      ELSE IF old.row < Rows - 1 THEN [old EXCEPT !.row = old.row + 1, !.col = 0]
                      ELSE [old EXCEPT !.row = 0, !.col = 0, !.at = "zero"]
  BY <1>1 DEF Move, Becomes
<1>5. old.row \in Row /\ old.col \in Col /\ PageOf[p] \in Page BY Zeros DEF ProcSet
<1>6. /\ r \in ProcSet /\ r.buf = old.buf /\ r.then = old.then /\ r.ret = old.ret
      /\ r.left = old.left
      /\ r.at = old.at \/ (r.at = "zero" /\ r.row = 0 /\ r.col = 0)
  <2>1. old.col < Cols - 1 => old.col + 1 \in Col BY <1>5, Sizes DEF Col
  <2>2. old.row < Rows - 1 => old.row + 1 \in Row BY <1>5, Sizes DEF Row
  <2>3. CASE old.col < Cols - 1
    <3>1. PICK next \in Col : next = old.col + 1 BY <2>1, <2>3
    <3>2. r = [old EXCEPT !.col = next] BY <1>4, <2>3, <3>1
    <3>. QED BY <3>2 DEF ProcSet
  <2>4. CASE ~(old.col < Cols - 1) /\ old.row < Rows - 1
    <3>1. PICK next \in Row : next = old.row + 1 BY <2>2, <2>4
    <3>2. r = [old EXCEPT !.row = next, !.col = 0] BY <1>4, <2>4, <3>1
    <3>. QED BY <3>2, Zeros DEF ProcSet
  <2>5. CASE ~(old.col < Cols - 1) /\ ~(old.row < Rows - 1)
    <3>1. r = [old EXCEPT !.row = 0, !.col = 0, !.at = "zero"] BY <1>4, <2>5
    <3>2. "zero" \in Steps BY DEF Steps, Scrolling
    <3>. QED BY <3>1, <3>2, Zeros DEF ProcSet
  <2>. QED BY <2>3, <2>4, <2>5
<1>7. videopages' \in [Cell -> Glyph]
  <2>1. Moved(p, old.row, old.col) \in Glyph
    <3>1. CASE At(p, "move") /\ old.row < Rows - 1
      <4>1. old.row + 1 \in Row BY <1>5, <3>1, Sizes DEF Row
      <4>2. CellAt(PageOf[p], old.row + 1, old.col) \in Cell BY <1>5, <4>1, CellIsThere
      <4>. QED BY <3>1, <4>2 DEF Moved, IInv, Typed
    <3>2. CASE ~(At(p, "move") /\ old.row < Rows - 1) BY <3>2, Zeros DEF Moved
    <3>. QED BY <3>1, <3>2
  <2>. QED BY <1>3, <2>1 DEF IInv, Typed
<1>8. Sound(p, r, Last(p), unseen')
  <2>1. r.at = "blank" => Last(p) < Cols BY <1>1, <1>2, <1>6 DEF Sound, Begun
  <2>. QED BY <1>1, <1>2, <1>6, <2>1 DEF Sound, Begun, Scrolling, Writing
<1>9. Covers(p, r)
  <2>1. ASSUME NEW row \in Row, NEW col \in Col, Unlike(video', videopages', activePage, row, col),
               ~Shown(p)
        PROVE  Keeps(p, r, row, col)
    <3>1. CellAt(activePage, row, col) # CellAt(PageOf[p], old.row, old.col)
      BY <1>5, <2>1, OtherPage
    <3>2. CellAt(activePage, row, col) \in Cell BY CellIsThere DEF IInv, Typed
    <3>3. videopages'[CellAt(activePage, row, col)] = videopages[CellAt(activePage, row, col)]
      BY <1>3, <3>1, <3>2 DEF IInv, Typed
    <3>. QED BY <1>3, <2>1, <3>3 DEF Keeps, Unlike
  <2>2. r.at \in Scrolling BY <1>2, <1>6 DEF Scrolling
  <2>. QED BY <2>1, <2>2 DEF Covers, Coming
<1>10. /\ video' \in [0 .. PageCells - 1 -> Glyph] /\ cursor' \in [Page -> Coord]
       /\ renderline' \in [Row -> BOOLEAN] /\ scrolled' \in BOOLEAN
       /\ ~spoilt' => ~spoilt /\ Covers(p, r) /\ UNCHANGED <<activePage, out, unseen>>
  BY <1>3, <1>9 DEF IInv, Typed
<1>11. /\ linepos' \in Positions /\ linepos'[PageOf[p]] = Last(p)
       /\ \A q \in Procs : linepos'[PageOf[q]] <= linepos[PageOf[q]]
  BY <1>3, SamePositions
<1>12. Sound(p, r, linepos'[PageOf[p]], unseen') BY <1>8, <1>11
<1>13. r.at # "idle" /\ Len(r.buf) < BSize /\ r.then = proc[p].then BY <1>1, <1>2, <1>6 DEF Room
<1>. QED BY <1>3, <1>4, <1>6, <1>7, <1>10, <1>11, <1>12, <1>13, SharedStep

\* What is the same for the steps that leave the pages and the screen alone.
LEMMA LineStep ==
    ASSUME IInv, NEW p \in Procs, NEW r \in ProcSet, proc' = [proc EXCEPT ![p] = r],
           UNCHANGED <<videopages, video, activePage, cursor, out, unseen>>,
           linepos' \in Positions, renderline' \in [Row -> BOOLEAN], scrolled' \in BOOLEAN,
           \A q \in Procs \ {p} : linepos'[PageOf[q]] <= linepos[PageOf[q]],
           r.at # "idle", r.buf = proc[p].buf, r.then = proc[p].then,
           Sound(p, r, linepos'[PageOf[p]], unseen), ~spoilt' => ~spoilt /\ Covers(p, r)
    PROVE  IInv'
<1>1. /\ videopages' \in [Cell -> Glyph] /\ video' \in [0 .. PageCells - 1 -> Glyph]
      /\ cursor' \in [Page -> Coord]
  BY DEF IInv, Typed
<1>2. Sound(p, r, linepos'[PageOf[p]], unseen') /\ UNCHANGED <<activePage, out, unseen>> OBVIOUS
<1>3. Len(r.buf) < BSize BY DEF IInv, Typed, Room
<1>. QED BY <1>1, <1>2, <1>3, SharedStep

\* ... when a mark or the flag is set, or none is changed.
LEMMA MoreCovers ==
    ASSUME IInv, NEW p \in Procs, NEW r, UNCHANGED <<videopages, video, activePage>>,
           \A row \in Row : renderline[row] => renderline'[row], scrolled => scrolled',
           \A row \in Row, col \in Col :
               Shown(p) /\ Coming(p, proc[p], renderline, scrolled, row, col) =>
                  Coming(p, r, renderline', scrolled', row, col)
    PROVE  Covers(p, r)
<1>. SUFFICES ASSUME NEW row \in Row, NEW col \in Col,
                     Unlike(video', videopages', activePage, row, col)
              PROVE  Keeps(p, r, row, col)
  BY DEF Covers
<1>1. ASSUME NEW q \in Procs \ {p}, Coming(q, proc[q], renderline, scrolled, row, col)
      PROVE  Coming(q, proc[q], renderline', scrolled', row, col)
  BY <1>1, ComesStill
<1>2. Unlike(video, videopages, activePage, row, col) OBVIOUS
<1>. QED BY <1>1, <1>2 DEF Keeps

LEMMA ZeroPosIInv ==
    ASSUME IInv, NEW p \in Procs, ZeroPos(p)
    PROVE  IInv'
<1>1. PICK old \in ProcSet : /\ old = proc[p] /\ Sound(p, old, Last(p), unseen)
  BY Now
<1>2. old.at = "zero" BY <1>1 DEF ZeroPos, At
<1>3. /\ UNCHANGED <<videopages, video, activePage, cursor, renderline, scrolled, out, unseen, spoilt>>
      /\ linepos' = [linepos EXCEPT ![PageOf[p]] = 0] /\ PageOf[p] \in Page
  BY Zeros DEF ZeroPos
<1>4. PICK r : r = [old EXCEPT !.at = "flag"] OBVIOUS
<1>5. proc' = [proc EXCEPT ![p] = r] BY <1>1, <1>4 DEF ZeroPos, Goto, Becomes
<1>6. "flag" \in Steps BY DEF Steps, Scrolling
<1>7. /\ r \in ProcSet /\ r.at = "flag" /\ r.buf = old.buf /\ r.then = old.then
      /\ r.row = old.row /\ r.col = old.col /\ r.ret = old.ret /\ r.left = old.left
  BY <1>4, <1>6 DEF ProcSet
<1>8. /\ linepos' \in Positions /\ linepos'[PageOf[p]] = 0
      /\ \A q \in Procs : linepos'[PageOf[q]] <= linepos[PageOf[q]]
  BY <1>3, ZeroedPositions
<1>9. Sound(p, r, 0, unseen)
  <2>1. 0 < Cols BY Sizes
  <2>2. old.ret \in Returns /\ old.row = 0 /\ old.col = 0 BY <1>1, <1>2 DEF Sound, Scrolling
  <2>. QED BY <1>1, <1>2, <1>7, <2>1, <2>2 DEF Sound, Begun, Scrolling, Writing
<1>10. Covers(p, r)
  <2>1. r.at \in Scrolling BY <1>7 DEF Scrolling
  <2>. QED BY <1>3, <2>1, MoreCovers DEF Coming
<1>11. renderline' \in [Row -> BOOLEAN] /\ scrolled' \in BOOLEAN /\ (~spoilt' => ~spoilt)
  BY <1>3 DEF IInv, Typed
<1>. QED BY <1>1, <1>3, <1>5, <1>7, <1>8, <1>9, <1>10, <1>11, LineStep

LEMMA FlagIInv ==
    ASSUME IInv, NEW p \in Procs, Flag(p)
    PROVE  IInv'
<1>1. PICK old \in ProcSet : /\ old = proc[p] /\ Sound(p, old, Last(p), unseen)
                             /\ Last(p) \in Nat /\ old.left \in 0 .. TabSpace
  BY Now
<1>2. old.at = "flag" BY <1>1 DEF Flag, At
<1>3. /\ Last(p) < Cols /\ old.ret \in Returns /\ old.row = 0 /\ old.col = 0
      /\ old.ret \in {"load", "wrap", "look zero"} => Tty(p)
      /\ old.ret = "mark" => ~Tty(p) /\ old.left > 0
  BY <1>1, <1>2 DEF Sound, Begun, Scrolling
<1>4. /\ UNCHANGED <<videopages, video, activePage, linepos, cursor, renderline, out, unseen, spoilt>>
      /\ scrolled' = TRUE
  BY DEF Flag
<1>5. PICK r : r = [old EXCEPT !.at = old.ret, !.ret = "idle"] OBVIOUS
<1>6. proc' = [proc EXCEPT ![p] = r] BY <1>1, <1>5 DEF Flag, Becomes
<1>7. old.ret \in Steps /\ old.ret \in Writing BY <1>3, Strings
<1>8. /\ r \in ProcSet /\ r.at = old.ret /\ r.buf = old.buf /\ r.then = old.then
      /\ r.row = 0 /\ r.col = 0 /\ r.left = old.left
  BY <1>3, <1>5, <1>7 DEF ProcSet
<1>9. linepos' \in Positions /\ linepos'[PageOf[p]] = Last(p)
      /\ \A q \in Procs : linepos'[PageOf[q]] <= linepos[PageOf[q]]
  BY <1>4, SamePositions
<1>10. Sound(p, r, Last(p), unseen)
  <2>1. Reach(r) \in Nat /\ Cols <= Reach(r) BY <1>1, <1>8, ReachIs
  <2>2. PICK last \in Nat : last = Last(p) BY <1>1
  <2>3. PICK reach \in Nat : reach = Reach(r) BY <2>1
  <2>4. last < reach /\ last < reach + 1
    <3>1. last < Cols /\ Cols <= reach BY <1>3, <2>1, <2>2, <2>3
    <3>. QED BY <3>1, Sizes
  <2>. QED BY <1>3, <1>8, <2>2, <2>3, <2>4 DEF Sound, Begun, Scrolling, Writing, Returns
<1>11. Covers(p, r)
  <2>1. \A row, col : Coming(p, r, renderline', scrolled', row, col)
    BY <1>4, <1>7, <1>8 DEF Coming
  <2>. QED BY <1>4, <2>1, MoreCovers
<1>12. renderline' \in [Row -> BOOLEAN] /\ scrolled' \in BOOLEAN /\ (~spoilt' => ~spoilt)
  BY <1>4 DEF IInv, Typed
<1>13. r.at # "idle" BY <1>3, <1>8 DEF Returns
<1>. QED BY <1>1, <1>4, <1>6, <1>8, <1>9, <1>10, <1>11, <1>12, <1>13, LineStep

LEMMA MarkIInv ==
    ASSUME IInv, NEW p \in Procs, Mark(p)
    PROVE  IInv'
<1>1. PICK old \in ProcSet : /\ old = proc[p] /\ Sound(p, old, Last(p), unseen)
                             /\ Last(p) \in Nat /\ old.left \in 0 .. TabSpace
  BY Now
<1>2. old.at = "mark" BY <1>1 DEF Mark, At
<1>3. PICK line \in Row : line = LineOf(p) /\ line = LineIn(p, old)
  <2>1. Rows - 1 \in Row /\ old.coord[1] \in Row BY Sizes DEF Row, ProcSet, Coord
  <2>. QED BY <1>1, <2>1 DEF LineOf, LineIn
<1>4. /\ UNCHANGED <<videopages, video, activePage, linepos, cursor, scrolled, out, unseen, spoilt>>
      /\ renderline' = [renderline EXCEPT ![line] = TRUE]
  BY <1>3 DEF Mark
<1>5. PICK at : at = IF ~Tty(p) THEN "put" ELSE IF old.left = 0 THEN "load" ELSE "look" OBVIOUS
<1>6. PICK r : r = [old EXCEPT !.at = at] OBVIOUS
<1>7. proc' = [proc EXCEPT ![p] = r] BY <1>1, <1>5, <1>6 DEF Mark, Goto, Becomes
<1>8. at \in Steps /\ at \in Writing BY <1>5 DEF Steps, Writing
<1>9. /\ r \in ProcSet /\ r.at = at /\ r.buf = old.buf /\ r.then = old.then
      /\ r.row = old.row /\ r.col = old.col /\ r.left = old.left
  BY <1>6, <1>8 DEF ProcSet
<1>10. linepos' \in Positions /\ linepos'[PageOf[p]] = Last(p)
       /\ \A q \in Procs : linepos'[PageOf[q]] <= linepos[PageOf[q]]
  BY <1>4, SamePositions
<1>11. Sound(p, r, Last(p), unseen)
  <2>1. Reach(r) = Reach(old) BY <1>9 DEF Reach
  <2>2. old.left = 0 => Reach(old) = Cols BY <1>1, ReachIs
  <2>3. old.left # 0 => old.left > 0 BY <1>1, Sizes
  <2>. QED BY <1>1, <1>2, <1>5, <1>9, <2>1, <2>2, <2>3 DEF Sound, Begun, Scrolling, Writing
<1>12. renderline' \in [Row -> BOOLEAN] /\ scrolled' \in BOOLEAN /\ (~spoilt' => ~spoilt)
       /\ renderline \in [Row -> BOOLEAN]
  BY <1>4 DEF IInv, Typed
<1>13. Covers(p, r)
  <2>1. \A row \in Row : renderline[row] => renderline'[row] BY <1>4, <1>12
  <2>2. ASSUME NEW row \in Row, NEW col \in Col, Coming(p, old, renderline, scrolled, row, col)
        PROVE  Coming(p, r, renderline', scrolled', row, col)
    <3>1. renderline[row] \/ scrolled \/ row = line
      BY <1>2, <1>3, <2>2 DEF Coming, Scrolling, Drawing
    <3>2. renderline'[row] \/ scrolled' BY <1>4, <1>12, <2>1, <3>1
    <3>. QED BY <1>8, <1>9, <3>2 DEF Coming
  <2>. QED BY <1>1, <1>4, <2>1, <2>2, MoreCovers
<1>14. r.at # "idle" BY <1>5, <1>9
<1>. QED BY <1>1, <1>4, <1>7, <1>9, <1>10, <1>11, <1>12, <1>13, <1>14, LineStep

LEMMA StorePosIInv ==
    ASSUME IInv, NEW p \in Procs, StorePos(p)
    PROVE  IInv'
<1>1. PICK old \in ProcSet : /\ old = proc[p] /\ Sound(p, old, Last(p), unseen)
                             /\ Last(p) \in Nat /\ old.left \in 0 .. TabSpace
                             /\ old.pos \in Nat
  BY Now DEF ProcSet
<1>2. old.at = "store" BY <1>1 DEF StorePos, At
<1>3. Tty(p) /\ old.pos < Reach(old) /\ old.row = 0 /\ old.col = 0
  BY <1>1, <1>2 DEF Sound, Writing
<1>4. /\ UNCHANGED <<videopages, video, activePage, cursor, renderline, scrolled, out, unseen, spoilt>>
      /\ linepos' = [linepos EXCEPT ![PageOf[p]] = old.pos + 1]
  BY <1>1 DEF StorePos
<1>5. PICK r : r = [old EXCEPT !.at = "put"] OBVIOUS
<1>6. proc' = [proc EXCEPT ![p] = r] BY <1>1, <1>5 DEF StorePos, Goto, Becomes
<1>7. "put" \in Steps BY DEF Steps, Writing
<1>8. /\ r \in ProcSet /\ r.at = "put" /\ r.buf = old.buf /\ r.then = old.then
      /\ r.row = old.row /\ r.col = old.col /\ r.left = old.left /\ r.pos = old.pos
  BY <1>5, <1>7 DEF ProcSet
<1>9. Reach(r) = Reach(old) BY <1>8 DEF Reach
<1>10. old.pos + 1 \in 0 .. Cols - 1 + TabSpace
  <2>1. Reach(old) \in Nat BY <1>1, ReachIs
  <2>2. Reach(old) <= Cols - 1 + TabSpace
    <3>1. CASE old.left = 0
      <4>1. Reach(old) = Cols BY <1>1, <3>1, ReachIs
      <4>. QED BY <4>1, Sizes
    <3>2. CASE old.left > 0
      <4>1. Reach(old) = Cols + TabSpace - old.left BY <1>1, <3>2, ReachIs
      <4>. QED BY <1>1, <3>2, <4>1, Sizes
    <3>. QED BY <1>1, <3>1, <3>2
  <2>. QED BY <1>1, <1>3, <2>1, <2>2, Sizes
<1>11. linepos' \in Positions BY <1>4, <1>10 DEF IInv, Typed, Positions
<1>12. PageOf[p] \in Page /\ linepos'[PageOf[p]] = old.pos + 1
  BY <1>4, Zeros DEF IInv, Typed, Positions
<1>13. ASSUME NEW q \in Procs \ {p} PROVE linepos'[PageOf[q]] <= linepos[PageOf[q]]
  <2>1. PageOf[q] # PageOf[p] /\ PageOf[q] \in Page BY Zeros
  <2>2. linepos'[PageOf[q]] = Last(q) BY <1>4, <2>1 DEF IInv, Typed, Positions, Last
  <2>3. Last(q) \in Nat BY LastTyped DEF IInv
  <2>. QED BY <2>2, <2>3 DEF Last
<1>14. Sound(p, r, old.pos + 1, unseen)
  <2>1. old.pos + 1 < Reach(r) + 1
    <3>1. Reach(r) \in Nat BY <1>1, <1>8, ReachIs
    <3>. QED BY <1>1, <1>3, <1>9, <3>1
  <2>. QED BY <1>1, <1>2, <1>3, <1>8, <1>9, <2>1 DEF Sound, Begun, Scrolling, Writing
<1>15. Covers(p, r)
  <2>1. GoesOn(p, r) BY <1>1, <1>2, <1>8, WritingGoesOn DEF Writing
  <2>. QED BY <1>4, <2>1, MoreCovers DEF GoesOn
<1>16. renderline' \in [Row -> BOOLEAN] /\ scrolled' \in BOOLEAN /\ (~spoilt' => ~spoilt)
  BY <1>4 DEF IInv, Typed
<1>17. Sound(p, r, linepos'[PageOf[p]], unseen) BY <1>12, <1>14
<1>. QED BY <1>1, <1>4, <1>6, <1>8, <1>11, <1>13, <1>15, <1>16, <1>17, LineStep

LEMMA ZeroShownIInv ==
    ASSUME IInv, NEW p \in Procs, ZeroShown(p)
    PROVE  IInv'
<1>1. PICK old \in ProcSet : /\ old = proc[p] /\ Sound(p, old, Last(p), unseen)
                             /\ Last(p) \in Nat /\ old.page \in Page
  BY Now DEF ProcSet
<1>2. old.at = "zero shown" BY <1>1 DEF ZeroShown, At
<1>3. Tty(p) /\ Last(p) < Cols /\ old.row = 0 /\ old.col = 0
  BY <1>1, <1>2 DEF Sound, Begun, Writing
<1>4. /\ UNCHANGED <<videopages, video, activePage, cursor, renderline, scrolled, out, unseen, spoilt>>
      /\ linepos' = [linepos EXCEPT ![old.page] = 0]
  BY <1>1 DEF ZeroShown
<1>5. PICK at : at = IF old.c = "NL" THEN "wrap" ELSE "next" OBVIOUS
<1>6. PICK r : r = [old EXCEPT !.at = at, !.c = " ", !.page = 0] OBVIOUS
<1>7. proc' = [proc EXCEPT ![p] = r] BY <1>1, <1>5, <1>6 DEF ZeroShown, Becomes
<1>8. at \in Steps /\ at \in Writing /\ " " \in Glyph /\ 0 \in Page
  BY <1>5, Zeros DEF Steps, Writing
<1>9. /\ r \in ProcSet /\ r.at = at /\ r.buf = old.buf /\ r.then = old.then
      /\ r.row = old.row /\ r.col = old.col
  BY <1>6, <1>8 DEF ProcSet
<1>10. /\ linepos' \in Positions /\ linepos'[PageOf[p]] \in Nat
       /\ linepos'[PageOf[p]] = 0 \/ linepos'[PageOf[p]] = Last(p)
       /\ \A q \in Procs : linepos'[PageOf[q]] <= linepos[PageOf[q]]
  BY <1>1, <1>4, ZeroedPositions
<1>11. linepos'[PageOf[p]] < Cols BY <1>3, <1>10, Sizes
<1>12. Sound(p, r, linepos'[PageOf[p]], unseen)
  BY <1>3, <1>5, <1>9, <1>11 DEF Sound, Begun, Scrolling, Writing
<1>13. Covers(p, r)
  <2>1. GoesOn(p, r) BY <1>1, <1>2, <1>8, <1>9, WritingGoesOn DEF Writing
  <2>. QED BY <1>4, <2>1, MoreCovers DEF GoesOn
<1>14. renderline' \in [Row -> BOOLEAN] /\ scrolled' \in BOOLEAN /\ (~spoilt' => ~spoilt)
  BY <1>4 DEF IInv, Typed
<1>15. r.at # "idle" BY <1>5, <1>9
<1>. QED BY <1>1, <1>4, <1>7, <1>9, <1>10, <1>12, <1>13, <1>14, <1>15, LineStep

-----------------------------------------------------------------------------
(* The steps that write into the pages.                                    *)

\* A cell changes; if it is one of the page shown, p will draw its line.
LEMMA CellCovers ==
    ASSUME IInv, NEW p \in Procs, NEW r, NEW cell, NEW c,
           UNCHANGED <<video, activePage, renderline, scrolled>>,
           \A other \in Cell \ {cell} : videopages'[other] = videopages[other],
           \A row \in Row, col \in Col : cell = CellAt(activePage, row, col) =>
               Shown(p) /\ Coming(p, r, renderline, scrolled, row, col),
           GoesOn(p, r)
    PROVE  Covers(p, r)
<1>. SUFFICES ASSUME NEW row \in Row, NEW col \in Col,
                     Unlike(video', videopages', activePage, row, col)
              PROVE  (Shown(p) /\ Coming(p, r, renderline', scrolled', row, col)) \/ Keeps(p, r, row, col)
  BY DEF Covers
<1>1. CASE cell = CellAt(activePage, row, col) BY <1>1
<1>2. CASE cell # CellAt(activePage, row, col)
  <2>1. CellAt(activePage, row, col) \in Cell BY CellIsThere DEF IInv, Typed
  <2>2. videopages'[CellAt(activePage, row, col)] = videopages[CellAt(activePage, row, col)]
    BY <1>2, <2>1
  <2>3. Unlike(video, videopages, activePage, row, col) BY <2>2 DEF Unlike
  <2>. QED BY <2>3 DEF Keeps, GoesOn
<1>. QED BY <1>1, <1>2

\* What is written behind the end of the last line is not on the page.
LEMMA CellBehind ==
    ASSUME NEW page \in Page, NEW row \in Row, NEW col \in Col, NEW pos \in Nat, pos >= Cols
    PROVE  CellAt(page, Rows - 1, pos) # CellAt(page, row, col)
<1>1. PICK k \in 0 .. PageCells - 1 : k = Spot(row, col) BY SpotIsThere
<1>2. PICK base \in Int : base = page * PageCells BY Sizes DEF Page
<1>3. PICK low \in Int : low = (Rows - 1) * Cols BY Sizes
<1>4. low + Cols = PageCells
  <2>1. (Rows - 1) * Cols = Rows * Cols - Cols BY Sizes
  <2>. QED BY <1>3, <2>1, Sizes DEF PageCells
<1>5. CellAt(page, Rows - 1, pos) = base + low + pos BY <1>2, <1>3 DEF CellAt
<1>6. CellAt(page, row, col) = base + k BY <1>1, <1>2, CellIsSpot
<1>. QED BY <1>4, <1>5, <1>6, Sizes

LEMMA PutTtyIInv ==
    ASSUME IInv, NEW p \in Procs, PutTty(p)
    PROVE  IInv'
<1>1. PICK old \in ProcSet : /\ old = proc[p] /\ Sound(p, old, Last(p), unseen)
                             /\ Last(p) \in Nat /\ old.left \in 0 .. TabSpace
                             /\ old.pos \in Nat /\ old.c \in Glyph
  BY Now DEF ProcSet
<1>2. old.at = "put" /\ Tty(p) /\ old.row = 0 /\ old.col = 0 /\ Last(p) < Reach(old) + 1
  BY <1>1 DEF PutTty, At, Sound, Begun, Writing
<1>3. PICK cell : cell = CellAt(PageOf[p], Rows - 1, old.pos) OBVIOUS
<1>4. /\ UNCHANGED <<video, activePage, linepos, cursor, renderline, scrolled, out, unseen>>
      /\ videopages' = IF cell \in Cell THEN [videopages EXCEPT ![cell] = old.c] ELSE videopages
      /\ spoilt' = (\/ spoilt \/ RunsOver(p, cell)
                    \/ old.left = 0 /\ WritesUnmarked(p, Rows - 1))
  BY <1>1, <1>3 DEF PutTty
<1>5. PICK at : at = IF old.left = 0 THEN "wrap" ELSE "mark" OBVIOUS
<1>6. PICK r : r = [old EXCEPT !.at = at, !.pos = 0] OBVIOUS
<1>7. proc' = [proc EXCEPT ![p] = r] BY <1>1, <1>5, <1>6 DEF PutTty, Becomes
<1>8. at \in Steps /\ at \in Writing BY <1>5 DEF Steps, Writing
<1>9. /\ r \in ProcSet /\ r.at = at /\ r.buf = old.buf /\ r.then = old.then
      /\ r.row = old.row /\ r.col = old.col /\ r.left = old.left
  BY <1>6, <1>8 DEF ProcSet
<1>10. linepos' \in Positions /\ linepos'[PageOf[p]] = Last(p)
       /\ \A q \in Procs : linepos'[PageOf[q]] <= linepos[PageOf[q]]
  BY <1>4, SamePositions
<1>11. Sound(p, r, Last(p), unseen)
  <2>1. Reach(r) = Reach(old) BY <1>9 DEF Reach
  <2>. QED BY <1>1, <1>2, <1>5, <1>9, <2>1 DEF Sound, Begun, Scrolling, Writing
<1>12. ~spoilt' => ~spoilt /\ Covers(p, r)
  <2>. SUFFICES ASSUME ~spoilt' PROVE Covers(p, r) BY <1>4
  <2>1. ~RunsOver(p, cell) /\ (old.left = 0 => ~WritesUnmarked(p, Rows - 1)) BY <1>4
  <2>2. GoesOn(p, r) BY <1>1, <1>2, <1>8, <1>9, WritingGoesOn DEF Writing
  <2>3. PageOf[p] \in Page /\ Rows - 1 \in Row
    <3>1. PageOf[p] \in Page BY Zeros
    <3>2. Rows - 1 \in Row BY Sizes DEF Row
    <3>. QED BY <3>1, <3>2
  <2>4. ASSUME NEW row \in Row, NEW col \in Col, cell = CellAt(activePage, row, col)
        PROVE  Shown(p) /\ Coming(p, r, renderline, scrolled, row, col)
    <3>1. Shown(p) BY <2>1, <2>4 DEF RunsOver, CellsOf
    <3>2. row = Rows - 1
      <4>1. CellAt(PageOf[p], Rows - 1, old.pos) = CellAt(PageOf[p], row, col)
        BY <1>3, <2>4, <3>1 DEF Shown
      <4>2. ~(old.pos >= Cols) BY <1>1, <2>3, <4>1, CellBehind
      <4>3. old.pos \in Col BY <1>1, <4>2, Sizes DEF Col
      <4>. QED BY <2>3, <4>1, <4>3, OneCell
    <3>3. renderline[row] \/ scrolled \/ (r.at = "mark" /\ row = LineIn(p, r))
      BY <1>2, <1>5, <1>9, <2>1, <3>1, <3>2 DEF WritesUnmarked, LineIn
    <3>. QED BY <1>8, <1>9, <3>1, <3>3 DEF Coming
  <2>5. \A other \in Cell \ {cell} : videopages'[other] = videopages[other]
    BY <1>4 DEF IInv, Typed
  <2>. QED BY <1>4, <2>2, <2>4, <2>5, CellCovers
<1>13. /\ videopages' \in [Cell -> Glyph] /\ video' \in [0 .. PageCells - 1 -> Glyph]
       /\ cursor' \in [Page -> Coord] /\ renderline' \in [Row -> BOOLEAN] /\ scrolled' \in BOOLEAN
  BY <1>1, <1>4 DEF IInv, Typed
<1>14. r.at # "idle" /\ Len(r.buf) < BSize /\ r.then = proc[p].then
  BY <1>1, <1>5, <1>9 DEF IInv, Typed, Room
<1>15. Sound(p, r, linepos'[PageOf[p]], unseen') /\ UNCHANGED <<activePage, out, unseen>>
  BY <1>4, <1>10, <1>11
<1>. QED BY <1>7, <1>9, <1>10, <1>12, <1>13, <1>14, <1>15, SharedStep

LEMMA PutCursorIInv ==
    ASSUME IInv, NEW p \in Procs, PutCursor(p)
    PROVE  IInv'
<1>1. PICK old \in ProcSet : /\ old = proc[p] /\ Sound(p, old, Last(p), unseen)
                             /\ Last(p) \in Nat /\ old.left \in 0 .. TabSpace
                             /\ old.c \in Glyph
  BY Now DEF ProcSet
<1>2. old.at = "put" /\ ~Tty(p) /\ old.row = 0 /\ old.col = 0 /\ Last(p) < Cols /\ old.left > 0
  BY <1>1 DEF PutCursor, At, Sound, Begun, Writing
<1>3. PICK line \in Row, column \in Col : old.coord = <<line, column>>
  BY DEF ProcSet, Coord
<1>4. PICK cell : cell = CellAt(PageOf[p], line, column) OBVIOUS
<1>5. cell \in Cell BY <1>3, <1>4, CellIsThere, Zeros
<1>6. PICK less \in 0 .. TabSpace : less = old.left - 1 BY <1>1, <1>2, Sizes
<1>7. PICK c \in Glyph : c = IF old.left > 1 THEN old.c ELSE " " BY <1>1, Zeros
<1>8. PICK now : now = [old EXCEPT !.left = less, !.c = c] OBVIOUS
<1>9. /\ now \in ProcSet /\ now.left = less /\ now.buf = old.buf /\ now.then = old.then
      /\ now.row = old.row /\ now.col = old.col
  BY <1>8 DEF ProcSet
<1>10. PICK on \in Near : on = Onward(old.coord)
  <2>1. CASE column + 1 < Cols
    <3>1. column + 1 \in Col /\ line \in 0 .. Rows BY <2>1, <1>3, Sizes DEF Col, Row
    <3>2. <<line, column + 1>> \in Near BY <3>1 DEF Near
    <3>. QED BY <1>3, <2>1, <3>2 DEF Onward
  <2>2. CASE ~(column + 1 < Cols)
    <3>1. line + 1 \in 0 .. Rows BY <1>3, Sizes DEF Row
    <3>2. <<line + 1, 0>> \in Near BY <3>1, Zeros DEF Near
    <3>. QED BY <1>3, <2>2, <3>2 DEF Onward
  <2>. QED BY <2>1, <2>2
<1>11. Settle(p, on, now)
  <2>1. now = [old EXCEPT !.left = old.left - 1, !.c = IF old.left > 1 THEN old.c ELSE " "]
    BY <1>6, <1>7, <1>8
  <2>. QED BY <1>1, <1>10, <2>1 DEF PutCursor
<1>12. /\ UNCHANGED <<video, activePage, linepos, renderline, scrolled, out, unseen>>
       /\ videopages' = [videopages EXCEPT ![cell] = old.c]
       /\ spoilt' = (spoilt \/ WritesUnmarked(p, line))
  BY <1>1, <1>3, <1>4 DEF PutCursor
<1>13. cursor' \in [Page -> Coord] BY <1>9, <1>11, SettleIs
<1>14. PICK r \in ProcSet :
          /\ proc' = [proc EXCEPT ![p] = r] /\ r.buf = now.buf /\ r.then = now.then
          /\ r.left = now.left /\ r.row = now.row /\ r.col = now.col
          /\ \/ r.at = "move" /\ r.ret \in {"mark", "next"} /\ (r.ret = "mark" => now.left > 0)
             \/ r.at = "mark" /\ now.left > 0
             \/ r.at = "next"
  BY <1>9, <1>11, SettleIs
<1>15. linepos' \in Positions /\ linepos'[PageOf[p]] = Last(p)
       /\ \A q \in Procs : linepos'[PageOf[q]] <= linepos[PageOf[q]]
  BY <1>12, SamePositions
<1>16. Sound(p, r, Last(p), unseen) BY <1>1, <1>2, <1>9, <1>14, CursorSound
<1>17. r.at \in Writing \cup Scrolling BY <1>14 DEF Writing, Scrolling
<1>18. ~spoilt' => ~spoilt /\ Covers(p, r)
  <2>. SUFFICES ASSUME ~spoilt' PROVE Covers(p, r) BY <1>12
  <2>1. ~WritesUnmarked(p, line) BY <1>12
  <2>2. GoesOn(p, r) BY <1>1, <1>2, <1>17, WritingGoesOn DEF Writing
  <2>3. ASSUME NEW row \in Row, NEW col \in Col, cell = CellAt(activePage, row, col)
        PROVE  Shown(p) /\ Coming(p, r, renderline, scrolled, row, col)
    <3>1. Shown(p) BY <1>3, <1>4, <2>3, OtherPage
    <3>2. activePage \in Page /\ PageOf[p] = activePage BY <3>1 DEF Shown, IInv, Typed
    <3>3. row = line
      <4>1. CellAt(activePage, line, column) = CellAt(activePage, row, col) BY <1>4, <2>3, <3>2
      <4>. QED BY <1>3, <3>2, <4>1, OneCell
    <3>4. renderline[row] \/ scrolled BY <2>1, <3>1, <3>3 DEF WritesUnmarked
    <3>. QED BY <1>17, <3>1, <3>4 DEF Coming
  <2>4. \A other \in Cell \ {cell} : videopages'[other] = videopages[other]
    BY <1>12 DEF IInv, Typed
  <2>. QED BY <1>12, <2>2, <2>3, <2>4, CellCovers
<1>19. /\ videopages' \in [Cell -> Glyph] /\ video' \in [0 .. PageCells - 1 -> Glyph]
       /\ renderline' \in [Row -> BOOLEAN] /\ scrolled' \in BOOLEAN
  BY <1>1, <1>12 DEF IInv, Typed
<1>20. r.at # "idle" /\ Len(r.buf) < BSize /\ r.then = proc[p].then
  BY <1>1, <1>9, <1>14 DEF IInv, Typed, Room
<1>21. Sound(p, r, linepos'[PageOf[p]], unseen') /\ UNCHANGED <<activePage, out, unseen>>
  BY <1>12, <1>15, <1>16
<1>. QED BY <1>13, <1>14, <1>15, <1>18, <1>19, <1>20, <1>21, SharedStep

-----------------------------------------------------------------------------
(* The steps of rerenderVideo that change what processes share.            *)

LEMMA StoreByteIInv ==
    ASSUME IInv, NEW p \in Procs, StoreByte(p)
    PROVE  IInv'
<1>1. PICK old \in ProcSet : /\ old = proc[p] /\ Sound(p, old, Last(p), unseen)
                             /\ Last(p) \in Nat /\ old.row \in Row /\ old.col \in Col
                             /\ old.c \in Glyph
  BY Now DEF ProcSet
<1>2. old.at = "store byte" /\ Last(p) < Cols BY <1>1 DEF StoreByte, At, Sound, Begun
<1>3. /\ UNCHANGED <<videopages, linepos, renderline, scrolled, activePage, cursor, out, unseen>>
      /\ video' = [video EXCEPT ![Spot(old.row, old.col)] = old.c]
      /\ spoilt' = (spoilt \/ old.c # videopages[CellAt(activePage, old.row, old.col)])
  BY <1>1 DEF StoreByte, memory, Spot, StoresStale
<1>4. \E r \in ProcSet :
         /\ proc' = [proc EXCEPT ![p] = r] /\ r.buf = old.buf /\ r.then = old.then
         /\ \/ /\ old.col < Cols - 1 /\ r.at = "load byte" /\ r.row = old.row
               /\ r.col = old.col + 1 /\ r.all = old.all
            \/ /\ old.col >= Cols - 1 /\ r.at = "unmark" /\ r.row = old.row /\ r.all = old.all
            \/ /\ old.col >= Cols - 1 /\ r.col = 0
               /\ \/ r.at = "row" /\ r.row = old.row + 1 /\ r.all = old.all
                  \/ r.at = "clear" /\ r.row = 0 /\ old.row = Rows - 1
  <2>1. {"load byte", "unmark"} \subseteq Steps /\ " " \in Glyph BY Zeros DEF Steps, Drawing
  <2>2. CASE old.col < Cols - 1
    <3>1. PICK next \in Col : next = old.col + 1 BY <1>1, <2>2, Sizes DEF Col
    <3>2. PICK r : r = [old EXCEPT !.at = "load byte", !.c = " ", !.col = next] OBVIOUS
    <3>3. /\ r \in ProcSet /\ r.at = "load byte" /\ r.row = old.row /\ r.col = next
          /\ r.all = old.all /\ r.buf = old.buf /\ r.then = old.then
      BY <2>1, <3>2 DEF ProcSet
    <3>4. proc' = [proc EXCEPT ![p] = r]
      <4>1. r = [old EXCEPT !.at = "load byte", !.c = " ", !.col = old.col + 1] BY <3>1, <3>2
      <4>. QED BY <1>1, <2>2, <4>1 DEF StoreByte, Becomes
    <3>. QED BY <2>2, <3>1, <3>3, <3>4
  <2>3. CASE ~(old.col < Cols - 1) /\ old.all
    <3>1. PICK r \in ProcSet :
              /\ r = NextRow(p) /\ r.buf = old.buf /\ r.then = old.then /\ r.col = 0
              /\ \/ r.at = "row" /\ r.row = old.row + 1 /\ r.all = old.all
                 \/ r.at = "clear" /\ r.row = 0 /\ old.row = Rows - 1
      BY <1>1, NextRowIs
    <3>2. proc' = [proc EXCEPT ![p] = r] BY <1>1, <2>3, <3>1 DEF StoreByte, Becomes
    <3>3. old.col >= Cols - 1 BY <1>1, <2>3, Sizes DEF Col
    <3>. QED BY <3>1, <3>2, <3>3
  <2>4. CASE ~(old.col < Cols - 1) /\ ~old.all
    <3>1. PICK r : r = [old EXCEPT !.at = "unmark", !.c = " "] OBVIOUS
    <3>2. /\ r \in ProcSet /\ r.at = "unmark" /\ r.row = old.row
          /\ r.all = old.all /\ r.buf = old.buf /\ r.then = old.then
      BY <2>1, <3>1 DEF ProcSet
    <3>3. proc' = [proc EXCEPT ![p] = r] BY <1>1, <2>4, <3>1 DEF StoreByte, Becomes
    <3>4. old.col >= Cols - 1 BY <1>1, <2>4, Sizes DEF Col
    <3>. QED BY <3>2, <3>3, <3>4
  <2>. QED BY <2>2, <2>3, <2>4
<1>5. PICK r \in ProcSet :
         /\ proc' = [proc EXCEPT ![p] = r] /\ r.buf = old.buf /\ r.then = old.then
         /\ \/ /\ old.col < Cols - 1 /\ r.at = "load byte" /\ r.row = old.row
               /\ r.col = old.col + 1 /\ r.all = old.all
            \/ /\ old.col >= Cols - 1 /\ r.at = "unmark" /\ r.row = old.row /\ r.all = old.all
            \/ /\ old.col >= Cols - 1 /\ r.col = 0
               /\ \/ r.at = "row" /\ r.row = old.row + 1 /\ r.all = old.all
                  \/ r.at = "clear" /\ r.row = 0 /\ old.row = Rows - 1
  BY <1>4
<1>6. linepos' \in Positions /\ linepos'[PageOf[p]] = Last(p)
       /\ \A q \in Procs : linepos'[PageOf[q]] <= linepos[PageOf[q]]
  BY <1>3, SamePositions
<1>7. Sound(p, r, Last(p), unseen) BY <1>2, <1>5 DEF Sound, Begun, Scrolling, Writing
<1>8. ~spoilt' => ~spoilt /\ Covers(p, r)
  <2>. SUFFICES ASSUME ~spoilt', NEW row \in Row, NEW col \in Col,
                       Unlike(video', videopages', activePage, row, col)
                PROVE  Keeps(p, r, row, col)
    BY <1>3 DEF Covers
  <2>1. old.c = videopages[CellAt(activePage, old.row, old.col)] BY <1>3
  <2>2. Spot(old.row, old.col) \in 0 .. PageCells - 1 /\ Spot(row, col) \in 0 .. PageCells - 1
    BY <1>1, SpotIsThere
  <2>3. ~(row = old.row /\ col = old.col)
    BY <1>3, <2>1, <2>2 DEF Unlike, IInv, Typed
  <2>4. Spot(row, col) # Spot(old.row, old.col) BY <1>1, <2>3, OneSpot
  <2>5. Unlike(video, videopages, activePage, row, col)
    BY <1>3, <2>2, <2>4 DEF Unlike, IInv, Typed
  <2>6. ASSUME Coming(p, old, renderline, scrolled, row, col)
        PROVE  Coming(p, r, renderline, scrolled, row, col)
    <3>1. old.all \/ renderline[row] BY <1>2, <2>6 DEF Coming, Scrolling, Writing
    <3>2. row > old.row \/ (row = old.row /\ col >= old.col + 1)
      <4>1. row > old.row \/ (row = old.row /\ col >= old.col)
        BY <1>2, <2>6 DEF Coming, Scrolling, Writing
      <4>. QED BY <1>1, <2>3, <4>1 DEF Col
    <3>3. CASE old.col < Cols - 1 /\ r.at = "load byte" /\ r.row = old.row
               /\ r.col = old.col + 1 /\ r.all = old.all
      BY <3>1, <3>2, <3>3 DEF Coming, Drawing
    <3>4. CASE old.col >= Cols - 1
      <4>1. row > old.row BY <1>1, <3>2, <3>4, Sizes DEF Col
      <4>2. CASE r.at = "unmark" /\ r.row = old.row /\ r.all = old.all
        BY <3>1, <4>1, <4>2 DEF Coming, Drawing
      <4>3. CASE r.at # "unmark"
        <5>1. ~(old.col < Cols - 1) BY <1>1, <3>4, Sizes DEF Col
        <5>2. r.col = 0 /\ \/ r.at = "row" /\ r.row = old.row + 1 /\ r.all = old.all
                           \/ r.at = "clear" /\ old.row = Rows - 1
          BY <1>5, <4>3, <5>1
        <5>. QED BY <3>1, <4>1, <5>2, NextRowComes
      <4>. QED BY <1>5, <4>2, <4>3
    <3>. QED BY <1>5, <3>3, <3>4
  <2>. QED BY <1>1, <1>3, <2>5, <2>6 DEF Keeps
<1>9. video' \in [0 .. PageCells - 1 -> Glyph] BY <1>1, <1>3 DEF IInv, Typed
<1>10. /\ videopages' \in [Cell -> Glyph] /\ cursor' \in [Page -> Coord]
       /\ renderline' \in [Row -> BOOLEAN] /\ scrolled' \in BOOLEAN
  BY <1>3 DEF IInv, Typed
<1>11. r.at # "idle" /\ Len(r.buf) < BSize /\ r.then = proc[p].then
  BY <1>1, <1>5 DEF IInv, Typed, Room
<1>12. Sound(p, r, linepos'[PageOf[p]], unseen') /\ UNCHANGED <<activePage, out, unseen>>
  BY <1>3, <1>6, <1>7
<1>. QED BY <1>5, <1>6, <1>8, <1>9, <1>10, <1>11, <1>12, SharedStep

\* Who shows what he writes does not lose a line when a mark is cleared that
\* nobody relies on.
LEMMA MarkKept ==
    ASSUME IInv, NEW p \in Procs, NEW line \in Row, renderline' = [renderline EXCEPT ![line] = FALSE],
           ~LosesMark(p, line), NEW q \in Procs \ {p}, Shown(q), NEW row \in Row, NEW col \in Col,
           Coming(q, proc[q], renderline, scrolled, row, col)
    PROVE  Coming(q, proc[q], renderline', scrolled, row, col)
<1>1. renderline \in [Row -> BOOLEAN] BY DEF IInv, Typed
<1>2. CASE renderline'[row] = renderline[row] BY <1>2 DEF Coming
<1>3. CASE renderline'[row] # renderline[row]
  <2>1. renderline[line] BY <1>1, <1>3
  <2>2. ~NeedsMarks(q) BY <2>1 DEF LosesMark
  <2>3. proc[q].at \notin Writing /\ (proc[q].at \in Drawing => proc[q].all)
    BY <2>2 DEF NeedsMarks
  <2>. QED BY <2>3 DEF Coming
<1>. QED BY <1>2, <1>3

LEMMA UnmarkIInv ==
    ASSUME IInv, NEW p \in Procs, Unmark(p)
    PROVE  IInv'
<1>1. PICK old \in ProcSet : /\ old = proc[p] /\ Sound(p, old, Last(p), unseen)
                             /\ Last(p) \in Nat /\ old.row \in Row
  BY Now DEF ProcSet
<1>2. old.at = "unmark" /\ Last(p) < Cols BY <1>1 DEF Unmark, At, Sound, Begun
<1>3. /\ UNCHANGED <<videopages, video, linepos, scrolled, activePage, cursor, out, unseen>>
      /\ renderline' = [renderline EXCEPT ![old.row] = FALSE]
      /\ spoilt' = (spoilt \/ LosesMark(p, old.row))
  BY <1>1 DEF Unmark
<1>4. PICK r \in ProcSet :
              /\ r = NextRow(p) /\ r.buf = old.buf /\ r.then = old.then /\ r.col = 0
              /\ \/ r.at = "row" /\ r.row = old.row + 1 /\ r.all = old.all
                 \/ r.at = "clear" /\ r.row = 0 /\ old.row = Rows - 1
  BY <1>1, NextRowIs
<1>5. proc' = [proc EXCEPT ![p] = r] BY <1>4 DEF Unmark, Becomes
<1>6. linepos' \in Positions /\ linepos'[PageOf[p]] = Last(p)
       /\ \A q \in Procs : linepos'[PageOf[q]] <= linepos[PageOf[q]]
  BY <1>3, SamePositions
<1>7. Sound(p, r, Last(p), unseen) BY <1>2, <1>4 DEF Sound, Begun, Scrolling, Writing
<1>8. ~spoilt' => ~spoilt /\ Covers(p, r)
  <2>. SUFFICES ASSUME ~spoilt', NEW row \in Row, NEW col \in Col,
                       Unlike(video', videopages', activePage, row, col)
                PROVE  Keeps(p, r, row, col)
    BY <1>3 DEF Covers
  <2>1. ASSUME Coming(p, old, renderline, scrolled, row, col)
        PROVE  Coming(p, r, renderline', scrolled', row, col)
    <3>1. row > old.row /\ (old.all \/ renderline[row])
      BY <1>2, <2>1 DEF Coming, Scrolling, Writing
    <3>2. row # old.row BY <1>1, <3>1 DEF Row
    <3>3. old.all \/ renderline'[row] BY <1>3, <3>1, <3>2 DEF IInv, Typed
    <3>. QED BY <1>4, <3>1, <3>3, NextRowComes
  <2>2. ASSUME NEW q \in Procs \ {p}, Shown(q), Coming(q, proc[q], renderline, scrolled, row, col)
        PROVE  Coming(q, proc[q], renderline', scrolled', row, col)
    BY <1>1, <1>3, <2>2, MarkKept
  <2>3. Unlike(video, videopages, activePage, row, col) BY <1>3
  <2>. QED BY <1>1, <2>1, <2>2, <2>3 DEF Keeps
<1>9. renderline' \in [Row -> BOOLEAN] /\ scrolled' \in BOOLEAN BY <1>3 DEF IInv, Typed
<1>10. r.at # "idle" BY <1>4
<1>. QED BY <1>1, <1>3, <1>4, <1>5, <1>6, <1>7, <1>8, <1>9, <1>10, LineStep

LEMMA ClearMarkIInv ==
    ASSUME IInv, NEW p \in Procs, ClearMark(p)
    PROVE  IInv'
<1>1. PICK old \in ProcSet : /\ old = proc[p] /\ Sound(p, old, Last(p), unseen)
                             /\ Last(p) \in Nat /\ old.row \in Row
  BY Now DEF ProcSet
<1>2. old.at = "clear" /\ Last(p) < Cols BY <1>1 DEF ClearMark, At, Sound, Begun
<1>3. /\ UNCHANGED <<videopages, video, linepos, scrolled, activePage, cursor, out, unseen>>
      /\ renderline' = [renderline EXCEPT ![old.row] = FALSE]
      /\ spoilt' = (spoilt \/ LosesMark(p, old.row))
  BY <1>1 DEF ClearMark
<1>4. PICK r : /\ proc' = [proc EXCEPT ![p] = r]
               /\ r = IF old.row < Rows - 1 THEN [old EXCEPT !.row = old.row + 1]
                      ELSE [old EXCEPT !.at = "unflag", !.row = 0]
  BY <1>1 DEF ClearMark, Becomes
<1>5. /\ r \in ProcSet /\ r.buf = old.buf /\ r.then = old.then
      /\ r.at \in {"clear", "unflag"}
  <2>1. CASE old.row < Rows - 1
    <3>1. PICK next \in Row : next = old.row + 1 BY <1>1, <2>1, Sizes DEF Row
    <3>2. r = [old EXCEPT !.row = next] BY <1>4, <2>1, <3>1
    <3>. QED BY <1>2, <3>2 DEF ProcSet
  <2>2. CASE ~(old.row < Rows - 1)
    <3>1. r = [old EXCEPT !.at = "unflag", !.row = 0] BY <1>4, <2>2
    <3>2. "unflag" \in Steps BY DEF Steps
    <3>. QED BY <3>1, <3>2, Zeros DEF ProcSet
  <2>. QED BY <2>1, <2>2
<1>6. linepos' \in Positions /\ linepos'[PageOf[p]] = Last(p)
       /\ \A q \in Procs : linepos'[PageOf[q]] <= linepos[PageOf[q]]
  BY <1>3, SamePositions
<1>7. Sound(p, r, Last(p), unseen) BY <1>2, <1>5 DEF Sound, Begun, Scrolling, Writing
<1>8. ~spoilt' => ~spoilt /\ Covers(p, r)
  <2>. SUFFICES ASSUME ~spoilt', NEW row \in Row, NEW col \in Col,
                       Unlike(video', videopages', activePage, row, col)
                PROVE  Keeps(p, r, row, col)
    BY <1>3 DEF Covers
  <2>1. ~Coming(p, proc[p], renderline, scrolled, row, col) BY <1>1, <1>2, NothingComes
  <2>2. ASSUME NEW q \in Procs \ {p}, Shown(q), Coming(q, proc[q], renderline, scrolled, row, col)
        PROVE  Coming(q, proc[q], renderline', scrolled', row, col)
    BY <1>1, <1>3, <2>2, MarkKept
  <2>3. Unlike(video, videopages, activePage, row, col) BY <1>3
  <2>. QED BY <2>1, <2>2, <2>3 DEF Keeps
<1>9. renderline' \in [Row -> BOOLEAN] /\ scrolled' \in BOOLEAN BY <1>3 DEF IInv, Typed
<1>10. r.at # "idle" BY <1>5
<1>. QED BY <1>1, <1>3, <1>4, <1>5, <1>6, <1>7, <1>8, <1>9, <1>10, LineStep

LEMMA ClearFlagIInv ==
    ASSUME IInv, NEW p \in Procs, ClearFlag(p)
    PROVE  IInv'
<1>1. PICK old \in ProcSet : /\ old = proc[p] /\ Room(old, out[p])
                             /\ Sound(p, old, Last(p), unseen)
                             /\ Last(p) \in Nat /\ old.then \in Seq(Chars)
  BY Now DEF ProcSet
<1>2. old.at = "unflag" /\ Last(p) < Cols BY <1>1 DEF ClearFlag, At, Sound, Begun
<1>3. /\ UNCHANGED <<videopages, video, activePage, linepos, cursor, renderline>>
      /\ scrolled' = FALSE /\ unseen' = unseen \ {p}
      /\ spoilt' = (spoilt \/ LosesFlag(p)) /\ out' = [out EXCEPT ![p] = out[p] \o old.then]
  BY <1>1 DEF ClearFlag
<1>4. PICK r \in ProcSet : /\ r = Idle /\ r.at = "idle" /\ r.then = << >> /\ r.buf = << >>
                           /\ Len(r.then) = 0 /\ Len(r.buf) = 0
  BY IdleTyped
<1>5. proc' = [proc EXCEPT ![p] = r] BY <1>4 DEF ClearFlag, Becomes
<1>6. /\ out' \in [Procs -> Seq(Chars)] /\ out'[p] = out[p] \o old.then
      /\ \A q \in Procs \ {p} : out'[q] = out[q]
  <2>1. out[p] \in Seq(Chars) /\ out[p] \o old.then \in Seq(Chars) BY <1>1 DEF IInv, Typed
  <2>. QED BY <1>3, <2>1 DEF IInv, Typed
<1>7. Room(r, out'[p])
  <2>1. out[p] \in Seq(Chars) BY DEF IInv, Typed
  <2>2. PICK a \in Nat : a = Len(out[p]) BY <2>1
  <2>3. PICK b \in Nat : b = Len(old.then) BY <1>1
  <2>4. a + b < BSize BY <1>1, <2>2, <2>3 DEF Room
  <2>5. Len(out'[p]) = a + b BY <1>1, <1>6, <2>1, <2>2, <2>3
  <2>6. Len(out'[p]) + Len(r.then) < BSize /\ Len(r.buf) < BSize
    BY <1>4, <2>4, <2>5, Sizes
  <2>. QED BY <1>4, <2>6 DEF Room
<1>8. linepos' \in Positions /\ linepos'[PageOf[p]] = Last(p)
       /\ \A q \in Procs : linepos'[PageOf[q]] <= linepos[PageOf[q]]
  BY <1>3, SamePositions
<1>9. Sound(p, r, linepos'[PageOf[p]], unseen')
  <2>1. Sound(p, r, Last(p), unseen')
    BY <1>2, <1>4 DEF Sound, Begun, Scrolling, Writing
  <2>. QED BY <1>8, <2>1
<1>10. /\ videopages' \in [Cell -> Glyph] /\ video' \in [0 .. PageCells - 1 -> Glyph]
       /\ cursor' \in [Page -> Coord] /\ renderline' \in [Row -> BOOLEAN]
       /\ scrolled' \in BOOLEAN /\ activePage' \in Page /\ unseen' \subseteq Procs
  BY <1>3 DEF IInv, Typed
<1>11. \A q \in Procs \ {p} : /\ out'[q] = out[q] /\ (q \in unseen <=> q \in unseen')
                              /\ linepos'[PageOf[q]] <= linepos[PageOf[q]]
  BY <1>3, <1>6, <1>8
<1>12. Typed' BY <1>5, <1>6, <1>7, <1>8, <1>9, <1>10, <1>11, StepTyped DEF IInv
<1>13. ~spoilt' => ~spoilt /\ Covers(p, r)
  <2>. SUFFICES ASSUME ~spoilt', NEW row \in Row, NEW col \in Col,
                       Unlike(video', videopages', activePage, row, col)
                PROVE  Keeps(p, r, row, col)
    BY <1>3 DEF Covers
  <2>1. ~Coming(p, proc[p], renderline, scrolled, row, col) BY <1>1, <1>2, NothingComes
  <2>2. ASSUME NEW q \in Procs \ {p}, Shown(q), Coming(q, proc[q], renderline, scrolled, row, col)
        PROVE  Coming(q, proc[q], renderline', scrolled', row, col)
    <3>1. scrolled => ~NeedsFlag(q) BY <1>3 DEF LosesFlag
    <3>2. scrolled => proc[q].at \notin Writing BY <2>2, <3>1 DEF NeedsFlag
    <3>. QED BY <1>3, <2>2, <3>2 DEF Coming
  <2>3. Unlike(video, videopages, activePage, row, col) BY <1>3
  <2>. QED BY <2>1, <2>2, <2>3 DEF Keeps
<1>14. activePage' = activePage BY <1>3
<1>15. Cover' BY <1>5, <1>13, <1>14, StepCovers
<1>. QED BY <1>12, <1>15 DEF IInv

-----------------------------------------------------------------------------
(* The interrupts, and every step.                                         *)

LEMMA RedrawIInv ==
    ASSUME IInv, NEW page \in Page, Redraw(page), activePage' = page
    PROVE  IInv'
<1>1. /\ video' = [c \in 0 .. PageCells - 1 |-> videopages[page * PageCells + c]]
      /\ renderline' = [r \in Row |-> FALSE] /\ scrolled' = FALSE
      /\ UNCHANGED <<videopages, linepos, cursor, out, proc, unseen>>
  BY DEF Redraw
<1>2. video' \in [0 .. PageCells - 1 -> Glyph]
  <2>1. ASSUME NEW c \in 0 .. PageCells - 1 PROVE videopages[page * PageCells + c] \in Glyph
    <3>1. page * PageCells + c \in Cell BY Sizes, PairInRange DEF Page, Cell
    <3>. QED BY <3>1 DEF IInv, Typed
  <2>. QED BY <1>1, <2>1
<1>3. Typed' BY <1>1, <1>2 DEF IInv, Typed, Last
<1>4. ASSUME NEW row \in Row, NEW col \in Col
      PROVE  ~Unlike(video', videopages', page, row, col)
  <2>1. video'[Spot(row, col)] = videopages[page * PageCells + Spot(row, col)]
    BY <1>1, SpotIsThere
  <2>2. CellAt(page, row, col) = page * PageCells + Spot(row, col) BY CellIsSpot
  <2>. QED BY <1>1, <2>1, <2>2 DEF Unlike
<1>5. Cover' BY <1>4 DEF Cover, Covered
<1>. QED BY <1>3, <1>5 DEF IInv

LEMMA InitIInv == Init => IInv
<1>. SUFFICES ASSUME Init PROVE IInv OBVIOUS
<1>1. PICK idle \in ProcSet : /\ idle = Idle /\ idle.at = "idle" /\ idle.then = << >>
                              /\ idle.row = 0 /\ idle.col = 0
                              /\ Len(idle.then) = 0 /\ Len(idle.buf) = 0
  BY IdleTyped
<1>2. PICK empty \in Seq(Chars) : empty = << >> /\ Len(empty) = 0 BY EmptyWord
<1>3. out = [p \in Procs |-> empty] /\ proc = [p \in Procs |-> idle] BY <1>1, <1>2 DEF Init
<1>4. 0 \in 0 .. Cols - 1 + TabSpace /\ 0 < Cols BY Sizes
<1>5. ASSUME NEW p \in Procs PROVE Room(proc[p], out[p]) /\ Sound(p, proc[p], Last(p), unseen)
  <2>1. Last(p) = 0 BY Zeros DEF Init, Last
  <2>2. Room(idle, empty) BY <1>1, <1>2, Sizes DEF Room
  <2>3. Sound(p, idle, 0, unseen) BY <1>1, <1>4 DEF Sound, Begun, Scrolling, Writing
  <2>. QED BY <1>3, <2>1, <2>2, <2>3
<1>6. /\ videopages \in [Cell -> Glyph] /\ video \in [0 .. PageCells - 1 -> Glyph]
      /\ activePage \in Page /\ linepos \in Positions /\ cursor \in [Page -> Coord]
      /\ renderline \in [Row -> BOOLEAN] /\ scrolled \in BOOLEAN /\ unseen \subseteq Procs
  <2>1. PICK nil \in Glyph : nil = " " BY Zeros
  <2>2. PICK origin \in Coord : origin = <<0, 0>> BY Zeros
  <2>3. videopages = [c \in Cell |-> nil] /\ video = [c \in 0 .. PageCells - 1 |-> nil]
    BY <2>1 DEF Init
  <2>4. cursor = [p \in Page |-> origin] BY <2>2 DEF Init
  <2>. QED BY <1>4, <2>3, <2>4, Zeros DEF Init, Positions
<1>7. out \in [Procs -> Seq(Chars)] /\ proc \in [Procs -> ProcSet] BY <1>3
<1>8. Typed BY <1>5, <1>6, <1>7 DEF Typed
<1>9. Cover
  <2>1. ASSUME NEW row \in Row, NEW col \in Col
        PROVE  ~Unlike(video, videopages, activePage, row, col)
    <3>1. Spot(row, col) \in 0 .. PageCells - 1 BY SpotIsThere
    <3>2. CellAt(activePage, row, col) \in Cell BY <1>6, CellIsThere
    <3>. QED BY <3>1, <3>2 DEF Unlike, Init
  <2>. QED BY <2>1 DEF Cover, Covered
<1>. QED BY <1>8, <1>9 DEF IInv

LEMMA NextIInv == IInv /\ [Next]_vars => IInv'
<1>. SUFFICES ASSUME IInv, [Next]_vars PROVE IInv' OBVIOUS
<1>1. ASSUME NEW p \in Procs, Calls(p) PROVE IInv'
  <2>1. ASSUME NEW c \in Writes[p], SysWrite(p, c) PROVE IInv'
    <3>1. c \in Chars BY ProcsAssumption
    <3>. QED BY <2>1, <3>1, SysWriteIInv
  <2>. QED BY <1>1, <2>1, SysFlushIInv, ClearScreenIInv, SetCursorIInv DEF Calls
<1>2. ASSUME NEW p \in Procs, Driver(p) PROVE IInv'
  <2>1. CASE Move(p) \/ ZeroPos(p) \/ Flag(p) BY <2>1, MoveIInv, ZeroPosIInv, FlagIInv
  <2>2. CASE TakeTty(p) \/ Mark(p) \/ LoadPos(p) \/ StorePos(p) \/ PutTty(p)
    BY <2>2, TakeTtyIInv, MarkIInv, LoadPosIInv, StorePosIInv, PutTtyIInv
  <2>3. CASE LookShown(p) \/ Test(p) \/ Wrap(p) \/ ZeroShown(p)
    BY <2>3, LookShownIInv, TestIInv, WrapIInv, ZeroShownIInv
  <2>4. CASE TakeCursor(p) \/ PutCursor(p) BY <2>4, TakeCursorIInv, PutCursorIInv
  <2>5. CASE Ends(p) \/ TestScrolled(p) \/ TestRow(p) \/ LoadByte(p)
    BY <2>5, EndsIInv, TestScrolledIInv, TestRowIInv, LoadByteIInv
  <2>6. CASE StoreByte(p) \/ Unmark(p) \/ ClearMark(p) \/ ClearFlag(p)
    BY <2>6, StoreByteIInv, UnmarkIInv, ClearMarkIInv, ClearFlagIInv
  <2>. QED BY <1>2, <2>1, <2>2, <2>3, <2>4, <2>5, <2>6 DEF Driver
<1>3. ASSUME NEW page \in Page, SetPage(page) PROVE IInv'
  BY <1>3, RedrawIInv DEF SetPage
<1>4. CASE ResetSelection
  <2>1. activePage \in Page BY DEF IInv, Typed
  <2>. QED BY <1>4, <2>1, RedrawIInv DEF ResetSelection
<1>5. CASE UNCHANGED vars
  <2>1. UNCHANGED <<videopages, linepos, renderline, scrolled, video, activePage, cursor, out,
                    proc, unseen, spoilt>>
    BY <1>5 DEF vars, memory
  <2>2. Typed' BY <2>1 DEF IInv, Typed, Last
  <2>3. Cover' BY <2>1 DEF IInv, Cover
  <2>. QED BY <2>2, <2>3 DEF IInv
<1>. QED BY <1>1, <1>2, <1>3, <1>4, <1>5 DEF Next

LEMMA Always == Spec => []IInv
<1>. QED BY InitIInv, NextIInv, PTL DEF Spec

-----------------------------------------------------------------------------
(* What is proved.                                                         *)

\* The positions, the cursors and the buffers stay in their bounds, however
\* the processes and the interrupts take turns (TypeOK).
THEOREM TypeCorrect == Spec => []TypeOK
<1>1. IInv => TypeOK
  <2>. SUFFICES ASSUME IInv PROVE TypeOK OBVIOUS
  <2>1. ASSUME NEW p \in Procs
        PROVE  /\ proc[p].at \in Steps /\ proc[p].coord \in Coord
               /\ Len(out[p]) < BSize /\ Len(proc[p].buf) < BSize
               /\ proc[p].at \in {"idle", "next"} => linepos[PageOf[p]] < Cols
    <3>1. proc[p] \in ProcSet /\ out[p] \in Seq(Chars) /\ Room(proc[p], out[p])
          /\ Sound(p, proc[p], Last(p), unseen)
      BY DEF IInv, Typed
    <3>2. Len(out[p]) < BSize
      <4>1. proc[p].then \in Seq(Chars) BY <3>1 DEF ProcSet
      <4>2. PICK a \in Nat : a = Len(out[p]) BY <3>1
      <4>3. PICK b \in Nat : b = Len(proc[p].then) BY <4>1
      <4>4. a + b < BSize BY <3>1, <4>2, <4>3 DEF Room
      <4>5. a < BSize BY <4>4, Sizes
      <4>. QED BY <4>2, <4>5
    <3>3. Len(proc[p].buf) < BSize BY <3>1 DEF Room
    <3>4. proc[p].at \in {"idle", "next"} => linepos[PageOf[p]] < Cols
      BY <3>1 DEF Sound, Begun, Last
    <3>5. proc[p].at \in Steps /\ proc[p].coord \in Coord BY <3>1 DEF ProcSet
    <3>. QED BY <3>2, <3>3, <3>4, <3>5
  <2>. QED BY <2>1 DEF TypeOK, IInv, Typed, Positions
<1>. QED BY <1>1, Always, PTL

\* A line that differs from the page shown has a writer at work that will draw
\* it; so the screen of processes at rest is the page shown, unless a mark, the
\* flag or a byte was lost in one of the ways that "spoilt" names.
THEOREM ScreenCorrect == Spec => []ScreenIsPage
<1>1. IInv => ScreenIsPage
  <2>. SUFFICES ASSUME IInv, ~spoilt, NEW row \in Row, Differs(row)
                PROVE  \E q \in Procs : Shown(q) /\ Announced(q, row)
    BY DEF ScreenIsPage
  <2>1. PICK col \in Col : Unlike(video, videopages, activePage, row, col)
    BY DEF Differs, Unlike, Spot
  <2>2. Covered(video, videopages, activePage, renderline, scrolled, proc) BY DEF IInv, Cover
  <2>3. PICK q \in Procs : /\ PageOf[q] = activePage
                           /\ Coming(q, proc[q], renderline, scrolled, row, col)
    BY <2>1, <2>2 DEF Covered
  <2>4. row > proc[q].row \/ row = proc[q].row => row >= proc[q].row
    <3>1. proc[q].row \in Row BY DEF IInv, Typed, ProcSet
    <3>. QED BY <3>1, Sizes DEF Row
  <2>5. Announced(q, row)
    BY <2>3, <2>4 DEF Coming, Announced, At, LineOf, LineIn
  <2>. QED BY <2>3, <2>5 DEF Shown
<1>. QED BY <1>1, Always, PTL

\* A step of p writes into p's page only, unless p is in a tab that looked
\* elsewhere.
LEMMA WritesOwnPage ==
    ASSUME IInv, NEW p \in Procs, p \notin unseen, Driver(p),
           NEW c \in Cell \ CellsOf(PageOf[p])
    PROVE  videopages'[c] = videopages[c]
<1>1. PICK old \in ProcSet : old = proc[p] /\ Sound(p, old, Last(p), unseen) BY Now
<1>2. CASE Move(p)
  <2>1. old.row \in Row /\ old.col \in Col BY DEF ProcSet
  <2>2. c # CellAt(PageOf[p], old.row, old.col) BY <2>1 DEF CellsOf
  <2>3. videopages' = [videopages EXCEPT ![CellAt(PageOf[p], old.row, old.col)]
                                             = Moved(p, old.row, old.col)]
    BY <1>1, <1>2 DEF Move
  <2>. QED BY <2>2, <2>3 DEF IInv, Typed
<1>3. CASE PutTty(p)
  <2>1. old.at = "put" /\ Tty(p) BY <1>1, <1>3 DEF PutTty, At
  <2>2. old.pos < Cols /\ old.pos \in Nat BY <1>1, <2>1 DEF Sound, ProcSet
  <2>3. old.pos \in Col /\ Rows - 1 \in Row BY <2>2, Sizes DEF Col, Row
  <2>4. PICK cell : cell = CellAt(PageOf[p], Rows - 1, old.pos) OBVIOUS
  <2>5. c # cell BY <2>3, <2>4 DEF CellsOf
  <2>6. videopages' = IF cell \in Cell THEN [videopages EXCEPT ![cell] = old.c] ELSE videopages
    BY <1>1, <1>3, <2>4 DEF PutTty
  <2>. QED BY <2>5, <2>6 DEF IInv, Typed
<1>4. CASE PutCursor(p)
  <2>1. old.coord[1] \in Row /\ old.coord[2] \in Col BY DEF ProcSet, Coord
  <2>2. PICK cell : cell = CellAt(PageOf[p], old.coord[1], old.coord[2]) OBVIOUS
  <2>3. c # cell BY <2>1, <2>2 DEF CellsOf
  <2>4. videopages' = [videopages EXCEPT ![cell] = old.c] BY <1>1, <1>4, <2>2 DEF PutCursor
  <2>. QED BY <2>3, <2>4 DEF IInv, Typed
<1>5. CASE UNCHANGED videopages BY <1>5
<1>6. \/ Move(p) \/ PutTty(p) \/ PutCursor(p) \/ UNCHANGED videopages
  <2>1. CASE ZeroPos(p) \/ Flag(p) \/ TakeTty(p) \/ Mark(p) \/ LoadPos(p) \/ StorePos(p)
    BY <2>1 DEF ZeroPos, Flag, TakeTty, Mark, LoadPos, StorePos, memory
  <2>2. CASE LookShown(p) \/ Test(p) \/ Wrap(p) \/ ZeroShown(p) \/ TakeCursor(p)
    BY <2>2 DEF LookShown, Test, Wrap, ZeroShown, TakeCursor, memory
  <2>3. CASE Ends(p) \/ TestScrolled(p) \/ TestRow(p) \/ LoadByte(p)
    BY <2>3 DEF Ends, TestScrolled, TestRow, LoadByte, memory
  <2>4. CASE StoreByte(p) \/ Unmark(p) \/ ClearMark(p) \/ ClearFlag(p)
    BY <2>4 DEF StoreByte, Unmark, ClearMark, ClearFlag, memory
  <2>. QED BY <2>1, <2>2, <2>3, <2>4 DEF Driver
<1>. QED BY <1>2, <1>3, <1>4, <1>5, <1>6

\* A step of p changes the variables of nobody else.
LEMMA OneSteps ==
    ASSUME NEW p \in Procs, Driver(p), NEW q \in Procs \ {p}, IInv
    PROVE  proc'[q] = proc[q]
<1>1. ASSUME NEW r, Becomes(p, r) PROVE proc'[q] = proc[q] BY <1>1 DEF Becomes, IInv, Typed
<1>2. ASSUME NEW at, Goto(p, at) PROVE proc'[q] = proc[q] BY <1>1, <1>2 DEF Goto
<1>3. ASSUME NEW coord, NEW now, Settle(p, coord, now) PROVE proc'[q] = proc[q]
  BY <1>1, <1>3 DEF Settle
<1>4. CASE Move(p) \/ ZeroPos(p) \/ Flag(p) BY <1>1, <1>2, <1>4 DEF Move, ZeroPos, Flag
<1>5. CASE TakeTty(p) \/ Mark(p) \/ LoadPos(p) \/ StorePos(p) \/ PutTty(p)
  BY <1>1, <1>2, <1>5 DEF TakeTty, Mark, LoadPos, StorePos, PutTty
<1>6. CASE LookShown(p) \/ Test(p) \/ Wrap(p) \/ ZeroShown(p)
  BY <1>1, <1>6 DEF LookShown, Test, Wrap, ZeroShown
<1>7. CASE TakeCursor(p) \/ PutCursor(p) BY <1>1, <1>3, <1>7 DEF TakeCursor, PutCursor
<1>8. CASE Ends(p) \/ TestScrolled(p) \/ TestRow(p) \/ LoadByte(p)
  BY <1>1, <1>2, <1>8 DEF Ends, TestScrolled, TestRow, LoadByte
<1>9. CASE StoreByte(p) \/ Unmark(p) \/ ClearMark(p) \/ ClearFlag(p)
  BY <1>1, <1>9 DEF StoreByte, Unmark, ClearMark, ClearFlag
<1>. QED BY <1>4, <1>5, <1>6, <1>7, <1>8, <1>9 DEF Driver

\* Who is shown throughout his tab, and who writes letters and lines, leaves
\* the pages of the others alone.
THEOREM PagesAreKept == Spec => OnlyUnseenTabsRunOver
<1>1. ASSUME IInv, [Next]_vars, NEW p \in Procs, proc'[p] # proc[p], p \notin unseen,
             NEW c \in Cell \ CellsOf(PageOf[p])
      PROVE  videopages'[c] = videopages[c]
  <2>1. ASSUME NEW q \in Procs, Driver(q) PROVE videopages'[c] = videopages[c]
    <3>1. q = p BY <1>1, <2>1, OneSteps
    <3>. QED BY <1>1, <2>1, <3>1, WritesOwnPage
  <2>2. ASSUME NEW q \in Procs, Calls(q) PROVE UNCHANGED videopages
    BY <2>2 DEF Calls, SysWrite, SysFlush, ClearScreen, SetCursor, memory
  <2>3. CASE (\E page \in Page : SetPage(page)) \/ ResetSelection \/ UNCHANGED vars
    BY <2>3 DEF SetPage, ResetSelection, Redraw, vars, memory
  <2>. QED BY <1>1, <2>1, <2>2, <2>3 DEF Next
<1>2. IInv /\ [Next]_vars => [\A p \in Procs : proc'[p] # proc[p] /\ p \notin unseen =>
          \A c \in Cell \ CellsOf(PageOf[p]) : videopages'[c] = videopages[c]]_vars
  BY <1>1
<1>. QED BY <1>2, Always, PTL DEF Spec, OnlyUnseenTabsRunOver
=============================================================================
