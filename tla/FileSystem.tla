----------------------------- MODULE FileSystem -----------------------------
(***************************************************************************)
(* filesystem.c and the commands mkdir, open, rm and rm -r of the shells.  *)
(*                                                                         *)
(* The file system lives in pages of memory: a directory is a page with a  *)
(* count of entries and the entries, a file a page with the same kind of   *)
(* header.  Entries are marked as deleted, never removed.  The code has no *)
(* lock: mkdir and open are steps here, between which the processes of     *)
(* other shells run; rm is one action, of a shell that runs nothing else.  *)
(* Names are not unique: mkdir never looks whether its name is taken.      *)
(*                                                                         *)
(* Left out: what files contain; the entries "." and ".." (formatPath      *)
(* resolves both before a path is walked, removeDir passes over them);     *)
(* formatPath itself (a path is the sequence of names it leaves).  A page  *)
(* that is present is one that is not free.                                *)
(* Bounds, which the code does not have: commands start only while there   *)
(* are pages left and room for MaxItems entries (WithinBounds).            *)
(***************************************************************************)
EXTENDS Integers, Sequences, FiniteSets, SequencesExt

CONSTANTS Shell,      \* who runs commands, one at a time each
          Name,       \* the names of files and directories
          Page,       \* pages of memory: 1 .. some number
          Path,       \* the paths the commands are given, root not among them
          MaxItems    \* bound: entries a directory ever gets, deleted ones too

ASSUME FileSystemAssumption ==
    /\ 1 \in Page /\ IsFiniteSet(Page) /\ Page \subseteq Nat
    /\ Name # {} /\ MaxItems \in Nat
    /\ Path \subseteq Seq(Name) \ {<< >>}

VARIABLES
    free,      \* mmu.c's stack of free pages, the top first
    items,     \* header.items of each page
    entry,     \* the elements of each page, also behind the last item
    cmd,       \* the command of each shell and its local variables
    made,      \* history: paths entered in their directory, till removed
    leaked     \* history: pages below the subdirectories of removed ones

vars == <<free, items, entry, cmd, made, leaked>>

Slot == 1 .. MaxItems
RootPage == 1

noElement == [name |-> CHOOSE n \in Name : TRUE, page |-> RootPage, type |-> "file",
              deleted |-> TRUE]
root == [name |-> noElement.name, page |-> RootPage, type |-> "dir", deleted |-> FALSE]
idle == [step |-> "idle", op |-> "dir", path |-> << >>, dir |-> RootPage,
         page |-> RootPage, items |-> 0]

\* startFileSystem.
Init ==
    /\ free = SetToSeq(Page \ {RootPage})
    /\ items = [p \in Page |-> 0]
    /\ entry = [p \in Page |-> [k \in Slot |-> noElement]]
    /\ cmd = [s \in Shell |-> idle]
    /\ made = {}
    /\ leaked = {}

-----------------------------------------------------------------------------
(* Looking up.  A pointer to an element is the page and the slot it is in;  *)
(* what may be NULL is the set of the pointer, or of nothing.              *)

RootEntry == <<0, 0>>

element(e) == IF e = RootEntry THEN root ELSE entry[e[1]][e[2]]

live(p) == {k \in 1 .. items[p] : ~entry[p][k].deleted}

findEntry(p, name) ==
    {<<p, k>> : k \in {k \in live(p) : /\ entry[p][k].name = name
                                       /\ \A j \in live(p) : entry[p][j].name = name => k <= j}}

\* Nothing looks whether what is passed through is a directory: a file's
\* header begins with nextBlock, 0, and reads as a directory without items.
getElementFromPath(path) ==
    LET at[n \in 0 .. Len(path)] ==
            IF n = 0 THEN {RootEntry}
            ELSE UNION {findEntry(element(e).page, path[n]) : e \in at[n - 1]}
    IN at[Len(path)]

found(path) == getElementFromPath(path) # {}
getDirectoryFromPath(path) == \E e \in getElementFromPath(path) : element(e).type = "dir"
getFileFromPath(path) == \E e \in getElementFromPath(path) : element(e).type = "file"

entryOf(path) == CHOOSE e \in getElementFromPath(path) : TRUE
pageOf(path) == element(entryOf(path)).page

-----------------------------------------------------------------------------
(* mkdir and open.                                                         *)

inFlight == {s \in Shell : cmd[s].step # "idle"}

goto(s, step) == [cmd EXCEPT ![s].step = step]

\* The bounds of the exploration.  The code looks for neither: without a page
\* getPage answers 0, and what does not fit is written into the next page.
WithinBounds(dir) ==
    /\ Cardinality(inFlight) < Len(free)
    /\ items[dir] + Cardinality(inFlight) < MaxItems

\* The command finds its directory.  An unknown one is reported and changes
\* nothing.
Begin(s, op, path) ==
    /\ s \notin inFlight
    /\ getDirectoryFromPath(Front(path))
    /\ WithinBounds(pageOf(Front(path)))
    /\ cmd' = [cmd EXCEPT ![s] = [idle EXCEPT !.step = "page", !.op = op, !.path = path,
                                              !.dir = pageOf(Front(path))]]
    /\ UNCHANGED <<free, items, entry, made, leaked>>

\* makeDir does not look whether the name is taken ...
mkdir(s, path) == Begin(s, "dir", path)

\* ... openFile creates only what it does not find.
open(s, path) == ~found(path) /\ Begin(s, "file", path)

\* mutation: the page stays on the stack.
pop_Keeps(stack) == stack
pop(stack) == Tail(stack)

getPage(s) ==
    /\ cmd[s].step = "page"
    /\ cmd' = [goto(s, "copy") EXCEPT ![s].page = Head(free)]
    /\ free' = pop(free)
    /\ UNCHANGED <<items, entry, made, leaked>>

\* insertEntry copies the header of the directory ...
CopyHeader(s) ==
    /\ cmd[s].step = "copy"
    /\ cmd' = [goto(s, "write") EXCEPT ![s].items = items[cmd[s].dir]]
    /\ UNCHANGED <<free, items, entry, made, leaked>>

\* ... fills the place behind the last item of the copy ...
WriteEntry(s) ==
    /\ cmd[s].step = "write"
    /\ entry' = [entry EXCEPT ![cmd[s].dir][cmd[s].items + 1] =
           [name |-> Last(cmd[s].path), page |-> cmd[s].page, type |-> cmd[s].op,
            deleted |-> FALSE]]
    /\ cmd' = goto(s, "count")
    /\ UNCHANGED <<free, items, made, leaked>>

\* mutation: "." and ".." of the new directory are counted in its parent.
counted_WithDots(n) == n + 3
counted(n) == n + 1

\* ... and copies the header back.
WriteHeader(s) ==
    /\ cmd[s].step = "count"
    /\ items' = [items EXCEPT ![cmd[s].dir] = counted(cmd[s].items)]
    /\ cmd' = goto(s, "header")
    /\ made' = made \cup {cmd[s].path}
    /\ UNCHANGED <<free, entry, leaked>>

\* mutation: a file's page keeps the header of its last use.
newHeader_OnlyDir(h, p, op) == IF op = "dir" THEN [h EXCEPT ![p] = 0] ELSE h
newHeader(h, p, op) == [h EXCEPT ![p] = 0]

\* makeDirHeader or makeFileHeader; the command is over.
MakeHeader(s) ==
    /\ cmd[s].step = "header"
    /\ items' = newHeader(items, cmd[s].page, cmd[s].op)
    /\ cmd' = [cmd EXCEPT ![s] = idle]
    /\ UNCHANGED <<free, entry, made, leaked>>

-----------------------------------------------------------------------------
(* rm and rm -r.                                                           *)

\* freePage gives up on a page that is not present.
freePage(stack, p) == IF p \in Range(stack) THEN stack ELSE <<p>> \o stack

delete(ent, e) == [ent EXCEPT ![e[1]][e[2]].deleted = TRUE]

forget(path) == made' = {q \in made : ~IsPrefix(path, q)}

removeFile(path) ==
    /\ getDirectoryFromPath(Front(path)) /\ getFileFromPath(path)
    /\ free' = freePage(free, pageOf(path))
    /\ entry' = delete(entry, entryOf(path))
    /\ forget(path)
    /\ UNCHANGED <<items, cmd, leaked>>

elementsFreed(p) ==
    LET after[k \in 0 .. items[p]] ==
            IF k = 0 THEN free
            ELSE IF k \in live(p) THEN freePage(after[k - 1], entry[p][k].page)
            ELSE after[k - 1]
    IN  after[items[p]]

\* mutation: the page of the directory itself is not freed.
freed_OnlyElements(p) == elementsFreed(p)
\* The pages of the elements, then the directory's own.
freed(p) == freePage(elementsFreed(p), p)

\* A page whose header is still that of its last use.
raw == {cmd[s].page : s \in {s \in inFlight : cmd[s].step = "header"}}

elements(p) == {k \in live(p) : entry[p][k].page \notin raw}
children(p) == {entry[p][k].page : k \in elements(p)}

\* The pages below p, p among them: the least set that has it and with each
\* page those of its elements.
under(p) ==
    {q \in Page : \A S \in SUBSET Page :
                      (p \in S /\ \A d \in S : children(d) \subseteq S) => q \in S}

removeDir(path) ==
    /\ getDirectoryFromPath(path)
    /\ LET p == pageOf(path) IN
       /\ free' = freed(p)
       /\ entry' = delete([entry EXCEPT ![p] = [k \in Slot |->
                               IF k <= items[p] THEN [@[k] EXCEPT !.deleted = TRUE]
                               ELSE @[k]]],
                          entryOf(path))
       /\ leaked' = leaked \cup UNION {under(c) \ {c} : c \in children(p)}
    /\ forget(path)
    /\ UNCHANGED <<items, cmd>>

rm(path) == inFlight # Shell /\ (removeFile(path) \/ removeDir(path))

-----------------------------------------------------------------------------
Next ==
    \/ \E s \in Shell :
          \/ \E path \in Path : mkdir(s, path) \/ open(s, path)
          \/ getPage(s) \/ CopyHeader(s) \/ WriteEntry(s) \/ WriteHeader(s) \/ MakeHeader(s)
    \/ \E path \in Path : rm(path)

Spec == Init /\ [][Next]_vars

-----------------------------------------------------------------------------
Element == [name : Name, page : Page, type : {"dir", "file"}, deleted : BOOLEAN]

\* Counts and places are within the bound, pages are pages.
TypeOK ==
    /\ free \in Seq(Page)
    /\ items \in [Page -> 0 .. MaxItems]
    /\ entry \in [Page -> [Slot -> Element]]
    /\ cmd \in [Shell -> [step : {"idle", "page", "copy", "write", "count", "header"},
                          op : {"dir", "file"}, path : Path \cup {<< >>},
                          dir : Page, page : Page, items : 0 .. MaxItems]]
    /\ made \subseteq Path /\ leaked \subseteq Page

\* What can be reached from the root, whether a name finds it or another of
\* its name hides it: the places <<page, slot>> of the elements.
reachable == {e \in under(RootPage) \X Slot : e[2] \in elements(e[1])}

\* No page is in use twice: no two elements lead to one page, none to the root
\* or a page on the stack, and the stack has none twice.
OnePageOneOwner ==
    /\ \A e, f \in reachable : e # f => element(e).page # element(f).page
    /\ \A e \in reachable : element(e).page \notin Range(free) \cup {RootPage}
    /\ RootPage \notin Range(free)
    /\ Cardinality(Range(free)) = Len(free)

\* Every page is free, in the tree, or in the hands of a command; except what
\* was below the subdirectories of a directory removed with rm -r, which is
\* neither freed nor found again.
PagesAccounted ==
    /\ inFlight = {} => Page = Range(free) \cup under(RootPage) \cup leaked
    /\ leaked \cap (Range(free) \cup under(RootPage)) = {}

\* What the pages hold is a tree on which each command has its effect at once:
\* a command works on the first of the elements of a name, nothing else moves,
\* and rm -r leaves nothing of its directory behind, whatever pages are used
\* again for.
Tree == INSTANCE FileTree WITH
    Id <- Page, Root <- RootPage, Place <- Slot,
    tree <- {[id |-> element(e).page, in |-> e[1], at |-> e[2],
              name |-> element(e).name, kind |-> element(e).type] : e \in reachable}
IsATree == Tree!Spec

\* filesystem.h of makeDir: it creates a directory of that name in the parent
\* directory, and the shells run theirs at the same time.
MadeIsThere == \A path \in made : found(path)
=============================================================================
