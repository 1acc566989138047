-------------------------- MODULE FileSystemProofs --------------------------
(***************************************************************************)
(* With one shell at work, whatever it creates, whether the name is taken  *)
(* or not, whatever it removes and however pages are used again: the pages *)
(* in use hold a tree, every command changes it as FileTree says, no page  *)
(* is at two places, and only those below the subdirectories of removed    *)
(* directories are lost.  For any number of pages, names and entries.      *)
(***************************************************************************)
EXTENDS FileSystem, Iteration, FiniteSetTheorems, SequenceTheorems

OneShell == \A s, r \in Shell : s = r

LEMMA FrontAndLast ==
    ASSUME NEW q \in Seq(Name), q # << >>
    PROVE  Front(q) \in Seq(Name) /\ Last(q) \in Name
<1>1. Len(q) \in Nat \ {0} BY EmptySeq
<1>2. PICK n \in Nat \ {0} : n = Len(q) BY <1>1
<1>3. SubSeq(q, 1, n - 1) \in Seq(Name)
  <2>1. \A i \in 1 .. n - 1 : q[i] \in Name BY <1>2
  <2>. QED BY <1>2, <2>1, SubSeqProperties
<1>4. q[n] \in Name BY <1>2
<1>. QED BY <1>2, <1>3, <1>4 DEF Front, Last

-----------------------------------------------------------------------------
(* Looking up.                                                             *)

Entries == {RootEntry} \cup (Page \X Slot)
Places == SUBSET Entries

\* The pages, as far as the type says it.
PagesTyped == items \in [Page -> 0 .. MaxItems] /\ entry \in [Page -> [Slot -> Element]]

LEMMA Numbers ==
    /\ RootPage \in Page /\ IsFiniteSet(Page) /\ Page \subseteq Nat
    /\ MaxItems \in Nat /\ Path \subseteq Seq(Name) /\ << >> \notin Path
BY FileSystemAssumption DEF RootPage

LEMMA LiveIsSlot ==
    ASSUME PagesTyped, NEW p \in Page
    PROVE  /\ live(p) \subseteq Slot /\ live(p) \subseteq 1 .. items[p] /\ items[p] \in 0 .. MaxItems
           /\ \A k \in live(p) : entry[p][k] \in Element
<1>1. items[p] \in 0 .. MaxItems /\ MaxItems \in Nat BY Numbers DEF PagesTyped
<1>2. 1 .. items[p] \subseteq Slot BY <1>1 DEF Slot
<1>3. live(p) \subseteq 1 .. items[p] BY DEF live
<1>. QED BY <1>1, <1>2, <1>3 DEF PagesTyped

\* Elements that are in the array.
LEMMA ElementTyped ==
    ASSUME PagesTyped, NEW e \in Entries
    PROVE  element(e).page \in Page /\ element(e).type \in {"dir", "file"}
<1>1. CASE e = RootEntry BY <1>1, Numbers DEF element, root
<1>2. CASE e # RootEntry
  <2>1. element(e) = entry[e[1]][e[2]] BY <1>2 DEF element
  <2>2. e[1] \in Page /\ e[2] \in Slot BY <1>2 DEF Entries
  <2>3. entry[e[1]][e[2]] \in Element BY <2>2 DEF PagesTyped
  <2>. QED BY <2>1, <2>3 DEF Element
<1>. QED BY <1>1, <1>2

\* One name of a path.
Looked(E, name) == UNION {findEntry(element(e).page, name) : e \in E}

LEMMA LookedTyped ==
    ASSUME PagesTyped, NEW E \in Places, NEW name
    PROVE  Looked(E, name) \in Places
<1>1. ASSUME NEW e \in E PROVE findEntry(element(e).page, name) \subseteq Entries
  <2>. e \in Entries BY DEF Places
  <2>1. PICK p \in Page : p = element(e).page BY ElementTyped
  <2>2. findEntry(p, name) \subseteq {<<p, k>> : k \in live(p)} BY DEF findEntry
  <2>3. {<<p, k>> : k \in live(p)} \subseteq Page \X Slot BY LiveIsSlot
  <2>. QED BY <2>1, <2>2, <2>3 DEF Entries
<1>. QED BY <1>1 DEF Looked, Places

LooksUp(q, at) ==
    /\ getElementFromPath(q) = at[Len(q)]
    /\ at[0] = {RootEntry}
    /\ \A n \in 1 .. Len(q) : at[n] = Looked(at[n - 1], q[n])

LEMMA LookLoop ==
    ASSUME PagesTyped, NEW q \in Seq(Name)
    PROVE  \E at \in [0 .. Len(q) -> Places] : LooksUp(q, at)
<1>. DEFINE size == Len(q)
            at[n \in 0 .. size] ==
                IF n = 0 THEN {RootEntry}
                ELSE UNION {findEntry(element(e).page, q[n]) : e \in at[n - 1]}
            f == [j \in 1 .. size |-> [E \in Places |-> Looked(E, q[j])]]
<1>1. size \in Nat OBVIOUS
<1>2. getElementFromPath(q) = at[size] BY Zenon DEF getElementFromPath
<1>3. f \in [1 .. size -> [Places -> Places]] BY LookedTyped
<1>4. {RootEntry} \in Places BY DEF Entries, Places
<1>5. PICK g \in [0 .. size -> Places] :
         g[0] = {RootEntry} /\ \A j \in 1 .. size : g[j] = f[j][g[j - 1]]
  <2>. HIDE DEF f, at, size
  <2>1. PICK v \in Places : v = {RootEntry} BY <1>4
  <2>2. \E g \in [0 .. size -> Places] : g[0] = v /\ \A j \in 1 .. size : g[j] = f[j][g[j - 1]]
    BY <1>1, <1>3, LoopRuns
  <2>. QED BY <2>1, <2>2
<1>6. g = [n \in 0 .. size |-> IF n = 0 THEN {RootEntry} ELSE Looked(g[n - 1], q[n])]
  <2>1. \A j \in 0 .. size : j # 0 => j \in 1 .. size /\ j - 1 \in 0 .. size BY <1>1
  <2>. HIDE DEF size
  <2>. QED BY <1>5, <2>1
<1>7. at = CHOOSE h : h = [n \in 0 .. size |-> IF n = 0 THEN {RootEntry}
                                               ELSE Looked(h[n - 1], q[n])]
  BY Zenon DEF Looked, at
<1>8. at = [n \in 0 .. size |-> IF n = 0 THEN {RootEntry} ELSE Looked(at[n - 1], q[n])]
  <2>. HIDE DEF size
  <2>. QED BY <1>6, <1>7
<1>. HIDE DEF at, size
<1>9. at[0] = {RootEntry} /\ \A n \in 1 .. size : at[n] = Looked(at[n - 1], q[n])
  <2>1. 0 \in 0 .. size /\ \A j \in 1 .. size : j \in 0 .. size /\ j # 0 BY <1>1
  <2>. QED BY <1>8, <2>1
<1>10. at \in [0 .. size -> Places]
  <2>. DEFINE Good == {j \in 0 .. size : at[j] \in Places}
  <2>1. 0 \in Good
    <3>1. 0 \in 0 .. size BY <1>1
    <3>. QED BY <1>4, <1>9, <3>1
  <2>2. ASSUME NEW j \in 1 .. size, j - 1 \in Good PROVE j \in Good
    <3>1. j \in 0 .. size /\ at[j - 1] \in Places BY <1>1, <2>2
    <3>2. Looked(at[j - 1], q[j]) \in Places BY <3>1, LookedTyped
    <3>. QED BY <1>9, <3>1, <3>2
  <2>3. Good \in SUBSET (0 .. size) OBVIOUS
  <2>. HIDE DEF Good
  <2>4. Good = 0 .. size BY <1>1, <2>1, <2>2, <2>3, RoundByRound
  <2>. QED BY <1>8, <2>4 DEF Good
<1>11. LooksUp(q, at) BY <1>2, <1>9, Zenon DEF LooksUp, size
<1>. QED BY <1>10, <1>11 DEF size

-----------------------------------------------------------------------------
(* The tree.  T are its pages, depth[p] is how far page p is from the root. *)

\* What d leads to is in the tree, one deeper; files lead nowhere.
LeadsOn(T, depth, d) ==
    \A k \in elements(d) :
        /\ entry[d][k].page \in T \ {RootPage}
        /\ depth[entry[d][k].page] = depth[d] + 1
        /\ entry[d][k].type = "file" => live(entry[d][k].page) = {}

Entered(T, x) == \E d \in T : \E k \in elements(d) : entry[d][k].page = x

TreeOf(T, depth) ==
    /\ T \subseteq Page /\ RootPage \in T /\ T \cap raw = {} /\ depth \in [Page -> Nat]
    /\ \A d \in T : LeadsOn(T, depth, d)
    /\ \A d, e \in T : \A k \in live(d), j \in live(e) :
           entry[d][k].page = entry[e][j].page => d = e /\ k = j
    /\ \A x \in T \ {RootPage} : Entered(T, x)

LEMMA ElementsAre ==
    ASSUME PagesTyped, NEW p \in Page
    PROVE  /\ elements(p) \subseteq live(p) /\ elements(p) \subseteq Slot
           /\ children(p) \subseteq Page
           /\ \A k \in elements(p) : entry[p][k] \in Element
<1>1. elements(p) \subseteq live(p) BY DEF elements
<1>2. \A k \in elements(p) : entry[p][k] \in Element BY <1>1, LiveIsSlot
<1>3. children(p) \subseteq Page BY <1>2 DEF children, Element
<1>. QED BY <1>1, <1>2, <1>3, LiveIsSlot

\* The least set.
LEMMA UnderIs ==
    ASSUME PagesTyped, NEW p \in Page
    PROVE  /\ under(p) \subseteq Page /\ p \in under(p)
           /\ \A d \in under(p) : children(d) \subseteq under(p)
           /\ \A S \in SUBSET Page :
                 (p \in S /\ \A d \in S : children(d) \subseteq S) => under(p) \subseteq S
<1>1. under(p) \subseteq Page /\ p \in under(p) BY DEF under
<1>2. ASSUME NEW d \in under(p), NEW c \in children(d) PROVE c \in under(p)
  <2>1. d \in Page /\ c \in Page BY <1>1, <1>2, ElementsAre
  <2>2. ASSUME NEW S \in SUBSET Page, p \in S, \A e \in S : children(e) \subseteq S
        PROVE  c \in S
    <3>1. d \in S BY <2>2 DEF under
    <3>. QED BY <1>2, <2>2, <3>1
  <2>. QED BY <2>1, <2>2 DEF under
<1>3. ASSUME NEW S \in SUBSET Page, p \in S, \A d \in S : children(d) \subseteq S
      PROVE  under(p) \subseteq S
  BY <1>3 DEF under
<1>. QED BY <1>1, <1>2, <1>3

\* A page of the tree is behind its parent.
LEMMA ParentIs ==
    ASSUME PagesTyped, NEW T, NEW depth, TreeOf(T, depth), NEW x \in T \ {RootPage}
    PROVE  \E d \in T : x \in children(d) /\ depth[x] = depth[d] + 1
<1>1. PICK d \in T : \E k \in elements(d) : entry[d][k].page = x BY DEF TreeOf, Entered
<1>2. PICK k \in elements(d) : entry[d][k].page = x BY <1>1
<1>3. depth[x] = depth[d] + 1 BY <1>2 DEF TreeOf, LeadsOn
<1>. QED BY <1>2, <1>3 DEF children

LEMMA ChildIs ==
    ASSUME PagesTyped, NEW T, NEW depth, TreeOf(T, depth), NEW d \in T, NEW c \in children(d)
    PROVE  c \in T \ {RootPage} /\ depth[c] = depth[d] + 1
<1>1. PICK k \in elements(d) : entry[d][k].page = c BY DEF children
<1>. QED BY <1>1 DEF TreeOf, LeadsOn

LEMMA UnderRoot ==
    \A T, depth : PagesTyped /\ TreeOf(T, depth) => under(RootPage) = T
<1>. SUFFICES ASSUME NEW T, NEW depth, PagesTyped, TreeOf(T, depth) PROVE under(RootPage) = T
  OBVIOUS
<1>1. T \in SUBSET Page /\ RootPage \in T /\ depth \in [Page -> Nat] BY DEF TreeOf
<1>2. under(RootPage) \subseteq T
  <2>1. \A d \in T : children(d) \subseteq T BY ChildIs
  <2>. QED BY <1>1, <2>1, UnderIs, Numbers
<1>3. T \subseteq under(RootPage)
  <2>. SUFFICES ASSUME NEW y \in T, y \notin under(RootPage) PROVE FALSE OBVIOUS
  <2>. DEFINE S == {depth[x] : x \in T \ under(RootPage)}
  <2>1. S \in SUBSET Nat /\ S # {} BY <1>1
  <2>2. PICK n \in S : \A m \in S : n <= m BY <2>1, SmallestExists
  <2>3. PICK x \in T \ under(RootPage) : depth[x] = n BY <2>2
  <2>4. x # RootPage BY <2>3, UnderIs, Numbers
  <2>5. PICK d \in T : x \in children(d) /\ depth[x] = depth[d] + 1 BY <2>3, <2>4, ParentIs
  <2>6. d \notin under(RootPage) BY <2>3, <2>5, UnderIs, Numbers
  <2>7. depth[d] \in S BY <2>6
  <2>8. depth[d] \in Nat /\ n \in Nat BY <1>1, <2>1
  <2>9. n <= depth[d] BY <2>2, <2>7
  <2>. QED BY <2>3, <2>5, <2>8, <2>9
<1>. QED BY <1>2, <1>3

\* What is below a page of the tree is in the tree, and deeper.
LEMMA UnderDeeper ==
    ASSUME PagesTyped, NEW T, NEW depth, TreeOf(T, depth), NEW x \in T
    PROVE  /\ under(x) \subseteq T
           /\ \A y \in under(x) : y # x => y # RootPage /\ depth[y] > depth[x]
<1>1. T \subseteq Page /\ depth \in [Page -> Nat] BY DEF TreeOf
<1>. DEFINE S == {y \in T : y # x => y # RootPage /\ depth[y] > depth[x]}
<1>2. S \in SUBSET Page /\ x \in S BY <1>1
<1>3. ASSUME NEW d \in S, NEW c \in children(d) PROVE c \in S
  <2>1. c \in T \ {RootPage} /\ depth[c] = depth[d] + 1 BY ChildIs
  <2>2. depth[d] \in Nat /\ depth[x] \in Nat /\ depth[d] >= depth[x] BY <1>1
  <2>. QED BY <2>1, <2>2
<1>4. under(x) \subseteq S
  <2>1. x \in Page BY <1>1
  <2>. HIDE DEF S
  <2>. QED BY <1>2, <1>3, <2>1, UnderIs
<1>. QED BY <1>4

\* What leads into what is below x is below x itself, but for what leads to x.
LEMMA ParentUnder ==
    ASSUME PagesTyped, NEW T, NEW depth, TreeOf(T, depth), NEW x \in T, NEW y \in under(x), y # x,
           NEW d \in T, y \in children(d)
    PROVE  d \in under(x)
<1>. SUFFICES ASSUME d \notin under(x) PROVE FALSE OBVIOUS
<1>1. x \in Page /\ under(x) \subseteq T /\ T \subseteq Page BY UnderDeeper DEF TreeOf
<1>. DEFINE S == under(x) \ {y}
<1>2. S \in SUBSET Page /\ x \in S BY <1>1, UnderIs
<1>3. ASSUME NEW e \in S, NEW c \in children(e) PROVE c \in S
  <2>1. c \in under(x) BY <1>1, UnderIs
  <2>2. c # y
    <3>. SUFFICES ASSUME c = y PROVE FALSE OBVIOUS
    <3>1. PICK j \in elements(e) : entry[e][j].page = y BY <1>3 DEF children
    <3>2. PICK k \in elements(d) : entry[d][k].page = y BY DEF children
    <3>3. e \in T /\ j \in live(e) /\ k \in live(d) BY <1>1, <3>1, <3>2 DEF elements
    <3>4. \A d1, e1 \in T : \A k1 \in live(d1), j1 \in live(e1) :
              entry[d1][k1].page = entry[e1][j1].page => d1 = e1 /\ k1 = j1
      BY DEF TreeOf
    <3>5. entry[d][k].page = entry[e][j].page BY <3>1, <3>2
    <3>6. d = e BY <3>3, <3>4, <3>5, Zenon
    <3>. QED BY <3>6
  <2>. QED BY <2>1, <2>2
<1>4. under(x) \subseteq S
  <2>. HIDE DEF S
  <2>. QED BY <1>1, <1>2, <1>3, UnderIs
<1>. QED BY <1>4

\* What is below x is x and what is below each of its elements.
LEMMA UnderSplit ==
    ASSUME PagesTyped, NEW x \in Page
    PROVE  under(x) = {x} \cup UNION {under(c) : c \in children(x)}
<1>. DEFINE S == {x} \cup UNION {under(c) : c \in children(x)}
<1>1. \A c \in children(x) : c \in Page BY ElementsAre
<1>2. S \in SUBSET Page BY <1>1, UnderIs
<1>3. ASSUME NEW d \in S, NEW c \in children(d) PROVE c \in S
  <2>1. CASE d = x
    <3>1. c \in children(x) /\ c \in under(c) BY <1>1, <1>3, <2>1, UnderIs
    <3>. QED BY <3>1
  <2>2. CASE d # x
    <3>1. PICK e \in children(x) : d \in under(e) BY <2>2
    <3>2. c \in under(e) BY <1>1, <1>3, <3>1, UnderIs
    <3>. QED BY <3>1, <3>2
  <2>. QED BY <2>1, <2>2
<1>4. under(x) \subseteq S
  <2>1. x \in S OBVIOUS
  <2>. HIDE DEF S
  <2>. QED BY <1>2, <1>3, <2>1, UnderIs
<1>5. ASSUME NEW c \in children(x) PROVE under(c) \subseteq under(x)
  <2>1. c \in under(x) /\ under(x) \in SUBSET Page /\ c \in Page BY <1>1, <1>5, UnderIs
  <2>2. \A d \in under(x) : children(d) \subseteq under(x) BY UnderIs
  <2>. QED BY <2>1, <2>2, UnderIs
<1>6. x \in under(x) BY UnderIs
<1>. QED BY <1>4, <1>5, <1>6

-----------------------------------------------------------------------------
(* What FileTree sees of it.                                               *)

Spots(T) == {e \in T \X Slot : e[2] \in elements(e[1])}
NodeOf(e) == [id |-> element(e).page, in |-> e[1], at |-> e[2],
              name |-> element(e).name, kind |-> element(e).type]
Nodes(T) == {NodeOf(e) : e \in Spots(T)}

Node == [id : Page, in : Page, at : Slot, name : Name, kind : {"dir", "file"}]

LEMMA NodeIs ==
    ASSUME PagesTyped, NEW T, T \subseteq Page, NEW d \in T, NEW k \in elements(d)
    PROVE  /\ <<d, k>> \in Spots(T) /\ NodeOf(<<d, k>>) \in Nodes(T) /\ NodeOf(<<d, k>>) \in Node
           /\ NodeOf(<<d, k>>) = [id |-> entry[d][k].page, in |-> d, at |-> k,
                                  name |-> entry[d][k].name, kind |-> entry[d][k].type]
           /\ element(<<d, k>>) = entry[d][k] /\ <<d, k>> # RootEntry
<1>1. k \in Slot /\ entry[d][k] \in Element /\ d \in Page BY ElementsAre
<1>2. <<d, k>> \in Spots(T) BY <1>1 DEF Spots
<1>3. k # 0 BY <1>1 DEF Slot
<1>4. <<d, k>> # RootEntry BY <1>3 DEF RootEntry
<1>5. element(<<d, k>>) = entry[d][k] BY <1>4 DEF element
<1>. QED BY <1>1, <1>2, <1>4, <1>5 DEF Nodes, NodeOf, Node, Element

LEMMA OfNodes ==
    ASSUME PagesTyped, NEW T, T \subseteq Page, NEW x \in Nodes(T)
    PROVE  \E d \in T : \E k \in elements(d) :
              x = NodeOf(<<d, k>>) /\ x.id = entry[d][k].page /\ x.in = d /\ x.at = k
              /\ x.name = entry[d][k].name /\ x.kind = entry[d][k].type
<1>1. PICK e \in T \X Slot : e[2] \in elements(e[1]) /\ x = NodeOf(e) BY DEF Nodes, Spots
<1>2. PICK d \in T : \E k \in elements(d) : e = <<d, k>> BY <1>1
<1>4. PICK k \in elements(d) : e = <<d, k>> BY <1>2
<1>3. NodeOf(<<d, k>>) = [id |-> entry[d][k].page, in |-> d, at |-> k,
                          name |-> entry[d][k].name, kind |-> entry[d][k].type]
  BY NodeIs
<1>. QED BY <1>1, <1>3, <1>4

LEMMA NodesStay ==
    ASSUME NEW T, T \subseteq Page,
           \A d \in T : elements(d)' = elements(d) /\ \A k \in elements(d) : entry'[d][k] = entry[d][k]
    PROVE  Nodes(T)' = Nodes(T)
<1>1. Spots(T)' = Spots(T) BY DEF Spots
<1>2. ASSUME NEW e \in Spots(T) PROVE NodeOf(e)' = NodeOf(e)
  <2>1. e[1] \in T /\ e[2] \in elements(e[1]) /\ e[2] \in Slot BY DEF Spots
  <2>2. e # RootEntry BY <2>1 DEF RootEntry, Slot
  <2>. QED BY <2>1, <2>2 DEF NodeOf, element
<1>. QED BY <1>1, <1>2, Zenon DEF Nodes

First(N, dir, name) ==
    {x \in N : /\ x.in = dir /\ x.name = name
               /\ \A y \in N : y.in = dir /\ y.name = name => x.at <= y.at}

Finds(N, path) ==
    LET at[n \in 0 .. Len(path)] ==
            IF n = 0 THEN {RootPage}
            ELSE UNION {{x.id : x \in First(N, dir, path[n])} : dir \in at[n - 1]}
    IN at[Len(path)]

\* One name of a path, as FileTree sees it.
Seeks(N, D, name) == UNION {{x.id : x \in First(N, dir, name)} : dir \in D}

SeeksUp(N, q, at) ==
    /\ Finds(N, q) = at[Len(q)]
    /\ at[0] = {RootPage}
    /\ \A n \in 1 .. Len(q) : at[n] = Seeks(N, at[n - 1], q[n])

LEMMA SeekLoop ==
    ASSUME NEW N \in SUBSET Node, NEW q \in Seq(Name)
    PROVE  \E at \in [0 .. Len(q) -> SUBSET Page] : SeeksUp(N, q, at)
<1>. DEFINE size == Len(q)
            at[n \in 0 .. size] ==
                IF n = 0 THEN {RootPage}
                ELSE UNION {{x.id : x \in First(N, dir, q[n])} : dir \in at[n - 1]}
            f == [j \in 1 .. size |-> [D \in SUBSET Page |-> Seeks(N, D, q[j])]]
<1>1. size \in Nat OBVIOUS
<1>2. Finds(N, q) = at[size] BY Zenon DEF Finds
<1>3. \A D, name : Seeks(N, D, name) \in SUBSET Page BY DEF Seeks, First, Node
<1>4. f \in [1 .. size -> [SUBSET Page -> SUBSET Page]] BY <1>3
<1>5. {RootPage} \in SUBSET Page BY Numbers
<1>6. PICK g \in [0 .. size -> SUBSET Page] :
         g[0] = {RootPage} /\ \A j \in 1 .. size : g[j] = f[j][g[j - 1]]
  <2>. HIDE DEF f, at, size
  <2>1. PICK V : V = SUBSET Page OBVIOUS
  <2>2. PICK v \in V : v = {RootPage} BY <1>5, <2>1
  <2>4. f \in [1 .. size -> [V -> V]] BY <1>4, <2>1, Zenon
  <2>3. \E g \in [0 .. size -> V] : g[0] = v /\ \A j \in 1 .. size : g[j] = f[j][g[j - 1]]
    BY <1>1, <2>4, LoopRuns
  <2>. QED BY <2>1, <2>2, <2>3
<1>7. g = [n \in 0 .. size |-> IF n = 0 THEN {RootPage} ELSE Seeks(N, g[n - 1], q[n])]
  <2>1. \A j \in 0 .. size : j # 0 => j \in 1 .. size /\ j - 1 \in 0 .. size BY <1>1
  <2>. HIDE DEF size
  <2>. QED BY <1>6, <2>1
<1>8. at = CHOOSE h : h = [n \in 0 .. size |-> IF n = 0 THEN {RootPage}
                                               ELSE Seeks(N, h[n - 1], q[n])]
  BY Zenon DEF Seeks, at
<1>9. at = [n \in 0 .. size |-> IF n = 0 THEN {RootPage} ELSE Seeks(N, at[n - 1], q[n])]
  <2>. HIDE DEF size
  <2>. QED BY <1>7, <1>8
<1>. HIDE DEF at, size
<1>10. at[0] = {RootPage} /\ \A n \in 1 .. size : at[n] = Seeks(N, at[n - 1], q[n])
  <2>1. 0 \in 0 .. size /\ \A j \in 1 .. size : j \in 0 .. size /\ j # 0 BY <1>1
  <2>. QED BY <1>9, <2>1
<1>11. at \in [0 .. size -> SUBSET Page]
  <2>1. \A n \in 0 .. size : (IF n = 0 THEN {RootPage} ELSE Seeks(N, at[n - 1], q[n])) \in SUBSET Page
    BY <1>3, <1>5
  <2>. QED BY <1>9, <2>1
<1>12. SeeksUp(N, q, at) BY <1>2, <1>10, Zenon DEF SeeksUp, size
<1>. QED BY <1>11, <1>12 DEF size

\* The first entry of a name in the page is the first node of it in the tree.
LEMMA OneNameDown ==
    ASSUME PagesTyped, NEW T, NEW depth, TreeOf(T, depth), raw = {}, NEW d \in T, NEW name
    PROVE  /\ {x.id : x \in First(Nodes(T), d, name)} = {element(e).page : e \in findEntry(d, name)}
           /\ \A e \in findEntry(d, name) : e[1] = d /\ e[2] \in elements(d) /\ e = <<e[1], e[2]>>
           /\ \A e, f \in findEntry(d, name) : e = f
<1>1. elements(d) = live(d) /\ T \subseteq Page /\ d \in Page BY DEF elements, TreeOf
<1>. DEFINE Least(k) == /\ k \in live(d) /\ entry[d][k].name = name
                        /\ \A j \in live(d) : entry[d][j].name = name => k <= j
<1>2. findEntry(d, name) = {<<d, k>> : k \in {k \in live(d) : Least(k)}}
  BY Zenon DEF findEntry
<1>3. ASSUME NEW x \in Nodes(T), x.in = d
      PROVE  \E k \in live(d) : x = NodeOf(<<d, k>>) /\ x.at = k /\ x.name = entry[d][k].name
  <2>1. PICK e \in T : \E k \in elements(e) :
              x = NodeOf(<<e, k>>) /\ x.id = entry[e][k].page /\ x.in = e /\ x.at = k
              /\ x.name = entry[e][k].name /\ x.kind = entry[e][k].type
    BY <1>1, OfNodes
  <2>. QED BY <1>1, <1>3, <2>1
<1>4. ASSUME NEW k \in live(d)
      PROVE  /\ NodeOf(<<d, k>>) \in Nodes(T) /\ NodeOf(<<d, k>>).in = d /\ NodeOf(<<d, k>>).at = k
             /\ NodeOf(<<d, k>>).name = entry[d][k].name
             /\ NodeOf(<<d, k>>).id = element(<<d, k>>).page
  <2>1. k \in elements(d) BY <1>1
  <2>2. /\ NodeOf(<<d, k>>) \in Nodes(T) /\ element(<<d, k>>) = entry[d][k]
        /\ NodeOf(<<d, k>>) = [id |-> entry[d][k].page, in |-> d, at |-> k,
                               name |-> entry[d][k].name, kind |-> entry[d][k].type]
    BY <1>1, <2>1, NodeIs
  <2>. QED BY <2>2
<1>5. ASSUME NEW x \in First(Nodes(T), d, name)
      PROVE  \E k \in live(d) : Least(k) /\ x.id = element(<<d, k>>).page
  <2>1. x \in Nodes(T) /\ x.in = d /\ x.name = name
        /\ \A y \in Nodes(T) : y.in = d /\ y.name = name => x.at <= y.at
    BY DEF First
  <2>2. PICK k \in live(d) : x = NodeOf(<<d, k>>) /\ x.at = k /\ x.name = entry[d][k].name
    BY <1>3, <2>1
  <2>3. \A j \in live(d) : entry[d][j].name = name => k <= j
    BY <1>4, <2>1, <2>2
  <2>. QED BY <1>4, <2>1, <2>2, <2>3
<1>6. ASSUME NEW k \in live(d), Least(k) PROVE NodeOf(<<d, k>>) \in First(Nodes(T), d, name)
  <2>1. ASSUME NEW y \in Nodes(T), y.in = d, y.name = name PROVE k <= y.at
    BY <1>3, <1>6, <2>1
  <2>. QED BY <1>4, <1>6, <2>1 DEF First
<1>7. live(d) \subseteq Nat BY <1>1, LiveIsSlot DEF Slot
<1>8. \A j, k \in live(d) : Least(j) /\ Least(k) => j = k BY <1>7
<1>9. {x.id : x \in First(Nodes(T), d, name)} = {element(e).page : e \in findEntry(d, name)}
  <2>. HIDE DEF Least
  <2>1. \A y : y \in {x.id : x \in First(Nodes(T), d, name)} =>
               y \in {element(e).page : e \in findEntry(d, name)}
    BY <1>2, <1>5
  <2>2. ASSUME NEW e \in findEntry(d, name)
        PROVE  element(e).page \in {x.id : x \in First(Nodes(T), d, name)}
    <3>1. PICK k \in live(d) : Least(k) /\ e = <<d, k>> BY <1>2
    <3>. QED BY <1>4, <1>6, <3>1
  <2>. QED BY <2>1, <2>2
<1>10. \A e \in findEntry(d, name) : e[1] = d /\ e[2] \in elements(d) /\ e = <<e[1], e[2]>>
  BY <1>1, <1>2
<1>11. ASSUME NEW e \in findEntry(d, name), NEW f \in findEntry(d, name) PROVE e = f
  <2>. HIDE DEF Least
  <2>1. PICK j \in live(d), k \in live(d) : Least(j) /\ Least(k) /\ e = <<d, j>> /\ f = <<d, k>>
    BY <1>2
  <2>. QED BY <1>8, <2>1
<1>. QED BY <1>9, <1>10, <1>11

\* The places a path may lead to.
InTree(T, e) == e = RootEntry \/ (e \in Page \X Slot /\ e[1] \in T /\ e[2] \in elements(e[1]))

LEMMA PageOfPlace ==
    ASSUME PagesTyped, NEW T, NEW depth, TreeOf(T, depth), NEW e, InTree(T, e)
    PROVE  element(e).page \in T
<1>1. CASE e = RootEntry BY <1>1 DEF element, root, TreeOf
<1>2. CASE e # RootEntry
  <2>1. PICK d \in T : d = e[1] BY <1>2 DEF InTree
  <2>2. PICK k \in elements(d) : k = e[2] BY <1>2, <2>1 DEF InTree
  <2>3. element(e) = entry[d][k] BY <1>2, <2>1, <2>2 DEF element
  <2>. QED BY <2>3 DEF TreeOf, LeadsOn
<1>. QED BY <1>1, <1>2

LEMMA LookUp ==
    ASSUME PagesTyped, NEW T, NEW depth, TreeOf(T, depth), raw = {}, NEW q \in Seq(Name)
    PROVE  /\ Finds(Nodes(T), q) = {element(e).page : e \in getElementFromPath(q)}
           /\ \A e \in getElementFromPath(q) : InTree(T, e)
           /\ \A e, f \in getElementFromPath(q) : e = f
           /\ q # << >> => RootEntry \notin getElementFromPath(q)
<1>. DEFINE N == Nodes(T)
<1>1. T \subseteq Page BY DEF TreeOf
<1>2. N \in SUBSET Node
  <2>1. ASSUME NEW x \in N PROVE x \in Node
    <3>1. PICK d \in T : \E k \in elements(d) : x = NodeOf(<<d, k>>) BY <1>1, OfNodes
    <3>. QED BY <1>1, <3>1, NodeIs
  <2>. QED BY <2>1
<1>3. PICK at \in [0 .. Len(q) -> Places] : LooksUp(q, at) BY LookLoop
<1>4. PICK bt \in [0 .. Len(q) -> SUBSET Page] : SeeksUp(N, q, bt) BY <1>2, SeekLoop
<1>5. PICK size \in Nat : size = Len(q) OBVIOUS
<1>. DEFINE Alike(j) == /\ bt[j] = {element(e).page : e \in at[j]}
                        /\ \A e \in at[j] : InTree(T, e)
                        /\ \A e, f \in at[j] : e = f
                        /\ j # 0 => RootEntry \notin at[j]
            Good == {j \in 0 .. size : Alike(j)}
<1>6. 0 \in Good
  <2>1. at[0] = {RootEntry} /\ bt[0] = {RootPage} BY <1>3, <1>4 DEF LooksUp, SeeksUp
  <2>2. element(RootEntry).page = RootPage BY DEF element, root
  <2>. QED BY <2>1, <2>2 DEF InTree
<1>7. ASSUME NEW j \in 1 .. size, j - 1 \in Good PROVE j \in Good
  <2>1. Alike(j - 1) BY <1>7
  <2>2. at[j] = Looked(at[j - 1], q[j]) /\ bt[j] = Seeks(N, bt[j - 1], q[j])
    BY <1>3, <1>4, <1>5 DEF LooksUp, SeeksUp
  <2>3. PICK name : name = q[j] OBVIOUS
  <2>4. CASE at[j - 1] = {}
    <3>1. at[j] = {} /\ bt[j] = {} BY <2>1, <2>2, <2>4 DEF Looked, Seeks
    <3>. QED BY <3>1
  <2>5. CASE at[j - 1] # {}
    <3>1. PICK e \in at[j - 1] : at[j - 1] = {e} BY <2>1, <2>5
    <3>2. PICK d \in T : d = element(e).page BY <2>1, <3>1, PageOfPlace
    <3>3. at[j] = findEntry(d, name) BY <2>2, <2>3, <3>1, <3>2 DEF Looked
    <3>4. bt[j - 1] = {d} BY <2>1, <3>1, <3>2
    <3>5. bt[j] = {x.id : x \in First(N, d, name)} BY <2>2, <2>3, <3>4 DEF Seeks
    <3>6. /\ {x.id : x \in First(N, d, name)} = {element(f).page : f \in findEntry(d, name)}
          /\ \A f \in findEntry(d, name) : f[1] = d /\ f[2] \in elements(d) /\ f = <<f[1], f[2]>>
          /\ \A f, g \in findEntry(d, name) : f = g
      BY OneNameDown
    <3>7. ASSUME NEW f \in at[j] PROVE InTree(T, f) /\ f # RootEntry
      <4>1. f[1] = d /\ f[2] \in elements(d) /\ f = <<f[1], f[2]>> BY <3>3, <3>6
      <4>2. d \in Page /\ elements(d) \subseteq Slot BY <1>1, ElementsAre
      <4>3. f[2] # 0 BY <4>1, <4>2 DEF Slot
      <4>. QED BY <4>1, <4>2, <4>3 DEF InTree, RootEntry
    <3>8. Alike(j)
      <4>1. bt[j] = {element(f).page : f \in at[j]} BY <3>3, <3>5, <3>6, Zenon
      <4>2. \A f, g \in at[j] : f = g BY <3>3, <3>6, Zenon
      <4>. QED BY <3>7, <4>1, <4>2, Zenon
    <3>9. j \in 0 .. size OBVIOUS
    <3>. HIDE DEF Alike
    <3>. QED BY <3>8, <3>9
  <2>. QED BY <2>4, <2>5
<1>8. Good \in SUBSET (0 .. size) OBVIOUS
<1>. HIDE DEF Good
<1>9. Good = 0 .. size BY <1>6, <1>7, <1>8, RoundByRound
<1>10. Alike(size) BY <1>9 DEF Good
<1>11. q # << >> => size # 0 BY <1>5, EmptySeq
<1>. QED BY <1>3, <1>4, <1>5, <1>10, <1>11 DEF LooksUp, SeeksUp

-----------------------------------------------------------------------------
(* The invariant.                                                          *)

\* A page taken from the stack and not yet in the tree.
held == {cmd[s].page : s \in {s \in Shell : cmd[s].step \in {"copy", "write", "count"}}}

\* Every page has one owner, or is leaked.
Owned(T) ==
    /\ IsInjective(free)
    /\ Range(free) \cap T = {} /\ (held \cup raw) \cap (T \cup Range(free)) = {}
    /\ leaked \cap (T \cup Range(free) \cup held \cup raw) = {}
    /\ Page = T \cup Range(free) \cup held \cup raw \cup leaked

\* What the command has found out is so until it is over.
Ready(N, path, op, dir) ==
    /\ dir \in Finds(N, Front(path))
    /\ \A x \in N : ~(x.id = dir /\ x.kind = "file")
    /\ op = "file" => Finds(N, path) = {}

Written(c, k) == entry[c.dir][k] = [name |-> Last(c.path), page |-> c.page, type |-> c.op,
                                    deleted |-> FALSE]

\* What a command that creates has done so far.
AtWork(T, c) ==
    /\ c.path \in Path /\ c.dir \in T
    /\ Ready(Nodes(T), c.path, c.op, c.dir)
    /\ c.step = "page" => free # << >>
    /\ c.step # "header" => items[c.dir] < MaxItems
    /\ c.step \in {"write", "count"} => c.items = items[c.dir]
    /\ c.step = "count" => Written(c, c.items + 1)
    /\ c.step = "header" => items[c.dir] \in live(c.dir) /\ Written(c, items[c.dir])

Holding(T, depth) ==
    /\ TreeOf(T, depth)
    /\ Owned(T)
    /\ \A s \in inFlight : AtWork(T, cmd[s])

IInv == TypeOK /\ \E T, depth : Holding(T, depth)

Step == {"idle", "page", "copy", "write", "count", "header"}
Command == [step : Step, op : {"dir", "file"}, path : Path \cup {<< >>},
            dir : Page, page : Page, items : 0 .. MaxItems]

LEMMA TypeParts ==
    ASSUME TypeOK
    PROVE  PagesTyped /\ free \in Seq(Page) /\ cmd \in [Shell -> Command]
BY Zenon DEF TypeOK, PagesTyped, Command, Step

\* With one shell, its command is the only one.
RawOf(c) == {c[s].page : s \in {s \in {s \in Shell : c[s].step # "idle"} : c[s].step = "header"}}
HeldOf(c) == {c[s].page : s \in {s \in Shell : c[s].step \in {"copy", "write", "count"}}}

LEMMA OfOne ==
    ASSUME OneShell, NEW s \in Shell, NEW c
    PROVE  /\ RawOf(c) = IF c[s].step = "header" THEN {c[s].page} ELSE {}
           /\ HeldOf(c) = IF c[s].step \in {"copy", "write", "count"} THEN {c[s].page} ELSE {}
<1>1. \A r \in Shell : r = s BY DEF OneShell
<1>2. CASE c[s].step = "header" BY <1>1, <1>2 DEF RawOf, HeldOf
<1>3. CASE c[s].step # "header" BY <1>1, <1>3 DEF RawOf, HeldOf
<1>. QED BY <1>2, <1>3

LEMMA RawAndHeld == raw = RawOf(cmd) /\ held = HeldOf(cmd)
BY DEF raw, held, inFlight, RawOf, HeldOf

LEMMA RawAndHeldNext == raw' = RawOf(cmd') /\ held' = HeldOf(cmd')
BY DEF raw, held, inFlight, RawOf, HeldOf

\* Where no command runs.
LEMMA IdleShell ==
    ASSUME OneShell, NEW s \in Shell, cmd[s].step = "idle"
    PROVE  raw = {} /\ held = {} /\ inFlight = {}
<1>1. inFlight = {} BY DEF inFlight, OneShell
<1>. QED BY <1>1, OfOne, RawAndHeld

\* The tree stays where its entries do.
LEMMA TreeStays ==
    ASSUME PagesTyped, NEW T, NEW depth, TreeOf(T, depth), raw = {}, raw' = {},
           \A d \in T : live(d)' = live(d) /\ \A k \in live(d) : entry'[d][k] = entry[d][k]
    PROVE  TreeOf(T, depth)' /\ Nodes(T)' = Nodes(T)
<1>1. T \subseteq Page BY DEF TreeOf
<1>2. \A d \in T : elements(d) = live(d) /\ elements(d)' = elements(d) BY DEF elements
<1>3. ASSUME NEW d \in T PROVE LeadsOn(T, depth, d)'
  <2>1. LeadsOn(T, depth, d) BY DEF TreeOf
  <2>2. \A k \in elements(d) : entry[d][k].page \in T BY <2>1 DEF LeadsOn
  <2>. QED BY <1>2, <2>1, <2>2 DEF LeadsOn
<1>4. \A x \in T \ {RootPage} : Entered(T, x)' BY <1>2 DEF TreeOf, Entered
<1>5. Nodes(T)' = Nodes(T) BY <1>1, <1>2, NodesStay
<1>6. (T \subseteq Page /\ RootPage \in T /\ T \cap raw = {} /\ depth \in [Page -> Nat])'
  BY DEF TreeOf
<1>7. (\A d, e \in T : \A k \in live(d), j \in live(e) :
           entry[d][k].page = entry[e][j].page => d = e /\ k = j)'
  BY DEF TreeOf
<1>. QED BY <1>3, <1>4, <1>5, <1>6, <1>7 DEF TreeOf

LEMMA SamePages ==
    ASSUME items' = items, entry' = entry
    PROVE  \A d : live(d)' = live(d)
BY DEF live

-----------------------------------------------------------------------------
(* The stack of free pages.                                                *)

LEMMA Popped ==
    ASSUME NEW st \in Seq(Page), st # << >>, IsInjective(st)
    PROVE  /\ pop(st) \in Seq(Page) /\ IsInjective(pop(st))
           /\ Range(pop(st)) = Range(st) \ {Head(st)}
           /\ Head(st) \in Page /\ Head(st) \in Range(st)
<1>1. PICK n \in Nat \ {0} : n = Len(st) BY EmptySeq, Len(st) \in Nat
<1>2. PICK u \in Seq(Page) : u = Tail(st) BY HeadTailProperties
<1>3. Len(u) = n - 1 /\ \A i \in 1 .. n - 1 : u[i] = st[i + 1] BY <1>1, <1>2, HeadTailProperties
<1>4. DOMAIN u = 1 .. n - 1 /\ DOMAIN st = 1 .. n /\ Head(st) = st[1] BY <1>1, <1>3, LenProperties
<1>5. \A i, j \in 1 .. n : st[i] = st[j] => i = j BY <1>4 DEF IsInjective
<1>6. IsInjective(u)
  <2>1. \A i, j \in 1 .. n - 1 : u[i] = u[j] => i = j BY <1>3, <1>5
  <2>. QED BY <1>4, <2>1 DEF IsInjective
<1>7. \A i \in 1 .. n : i # 1 => i - 1 \in 1 .. n - 1 /\ u[i - 1] = st[i] BY <1>3
<1>8. \A i \in 1 .. n - 1 : i + 1 \in 1 .. n /\ i + 1 # 1 /\ u[i] = st[i + 1] BY <1>3
<1>9. 1 \in 1 .. n BY <1>1
<1>10. Range(u) = Range(st) \ {Head(st)}
  <2>1. ASSUME NEW i \in 1 .. n - 1 PROVE \E j \in 1 .. n : u[i] = st[j] /\ u[i] # st[1]
    BY <1>5, <1>8, <1>9
  <2>2. ASSUME NEW j \in 1 .. n, st[j] # st[1] PROVE \E i \in 1 .. n - 1 : u[i] = st[j]
    BY <1>7, <2>2
  <2>3. Range(u) = {u[i] : i \in 1 .. n - 1} /\ Range(st) = {st[j] : j \in 1 .. n}
    BY <1>4, Zenon DEF Range
  <2>4. ASSUME NEW y PROVE y \in Range(u) <=> (y \in Range(st) /\ y # st[1])
    <3>1. y \in Range(u) <=> \E i \in 1 .. n - 1 : u[i] = y BY <2>3, Zenon
    <3>2. y \in Range(st) <=> \E j \in 1 .. n : st[j] = y BY <2>3, Zenon
    <3>. QED BY <2>1, <2>2, <3>1, <3>2, Zenon
  <2>. QED BY <1>4, <2>4, Zenon
<1>11. Head(st) \in Range(st) BY <1>4, <1>9 DEF Range
<1>12. st[1] \in Page BY <1>1, <1>9
<1>. QED BY <1>2, <1>4, <1>6, <1>10, <1>11, <1>12 DEF pop

LEMMA Pushed ==
    ASSUME NEW st \in Seq(Page), IsInjective(st), NEW p \in Page
    PROVE  /\ freePage(st, p) \in Seq(Page) /\ IsInjective(freePage(st, p))
           /\ Range(freePage(st, p)) = Range(st) \cup {p}
<1>1. CASE p \in Range(st)
  <2>1. freePage(st, p) = st BY <1>1 DEF freePage
  <2>. QED BY <1>1, <2>1
<1>2. CASE p \notin Range(st)
  <2>1. PICK n \in Nat : n = Len(st) OBVIOUS
  <2>2. <<p>> \in Seq(Page) /\ Len(<<p>>) = 1 /\ <<p>>[1] = p OBVIOUS
  <2>3. PICK v \in Seq(Page) : v = <<p>> /\ Len(v) = 1 /\ v[1] = p BY <2>2
  <2>4. PICK u \in Seq(Page) : u = v \o st BY ConcatProperties
  <2>5. /\ Len(u) = n + 1 /\ u[1] = p /\ \A i \in 2 .. n + 1 : u[i] = st[i - 1]
    BY <2>1, <2>3, <2>4, ConcatProperties
  <2>6. DOMAIN u = 1 .. n + 1 /\ DOMAIN st = 1 .. n BY <2>1, <2>5, LenProperties
  <2>7. \A i, j \in 1 .. n : st[i] = st[j] => i = j BY <2>6 DEF IsInjective
  <2>8. \A i \in 1 .. n : st[i] # p BY <1>2, <2>6 DEF Range
  <2>9. \A i \in 1 .. n + 1 : i = 1 \/ (i \in 2 .. n + 1 /\ i - 1 \in 1 .. n /\ u[i] = st[i - 1])
    BY <2>5
  <2>10. \A i, j \in 1 .. n + 1 : u[i] = u[j] => i = j BY <2>5, <2>7, <2>8, <2>9
  <2>11. Range(u) = Range(st) \cup {p}
    <3>1. \A i \in 1 .. n : i + 1 \in 1 .. n + 1 /\ u[i + 1] = st[i] BY <2>5
    <3>2. 1 \in 1 .. n + 1 OBVIOUS
    <3>3. \A i \in 1 .. n + 1 : u[i] = p \/ \E j \in 1 .. n : u[i] = st[j] BY <2>5, <2>9
    <3>4. Range(u) = {u[i] : i \in 1 .. n + 1} /\ Range(st) = {st[j] : j \in 1 .. n}
      BY <2>6, Zenon DEF Range
    <3>. QED BY <2>5, <3>1, <3>2, <3>3, <3>4
  <2>12. freePage(st, p) = u BY <1>2, <2>3, <2>4 DEF freePage
  <2>. QED BY <2>6, <2>10, <2>11, <2>12 DEF IsInjective
<1>. QED BY <1>1, <1>2

\* Counting a finite set out leaves nothing over.
LEMMA CountedOut ==
    ASSUME NEW S, IsFiniteSet(S)
    PROVE  /\ SetToSeq(S) \in Seq(S) /\ IsInjective(SetToSeq(S)) /\ Range(SetToSeq(S)) = S
<1>1. PICK n \in Nat : n = Cardinality(S) BY FS_CardinalityType
<1>2. PICK g : g \in Bijection(1 .. n, S) BY <1>1, FS_CardinalityType DEF ExistsBijection
<1>3. g \in [1 .. n -> S] /\ IsInjective(g)
  BY <1>2 DEF Bijection, Injection, IsInjective
<1>4. PICK f : f = SetToSeq(S) OBVIOUS
<1>5. f \in [1 .. n -> S] /\ IsInjective(f)
  <2>1. f = CHOOSE h \in [1 .. n -> S] : IsInjective(h) BY <1>1, <1>4, Zenon DEF SetToSeq
  <2>. QED BY <1>3, <2>1, Zenon
<1>6. IsFiniteSet(1 .. n) /\ Cardinality(1 .. n) = n BY FS_Interval
<1>7. f \in Surjection(1 .. n, S)
  <2>1. f \in Injection(1 .. n, S) BY <1>5 DEF Injection, IsInjective
  <2>. QED BY <1>1, <1>6, <2>1, FS_Injection
<1>8. Range(f) = S
  <2>1. \A y \in S : \E i \in 1 .. n : f[i] = y BY <1>7 DEF Surjection
  <2>. QED BY <1>5, <2>1 DEF Range
<1>. QED BY <1>4, <1>5, <1>8

-----------------------------------------------------------------------------
(* What the steps do to the tree.                                          *)

Creates(N, next, path, op) ==
    \E dir \in Finds(N, Front(path)), id \in Page, place \in Slot :
        /\ ~\E x \in N : x.id = dir /\ x.kind = "file"
        /\ op = "file" => Finds(N, path) = {}
        /\ id # RootPage /\ \A x \in N : x.id # id
        /\ \A x \in N : x.in = dir => x.at < place
        /\ next = N \cup {[id |-> id, in |-> dir, at |-> place,
                           name |-> Last(path), kind |-> op]}

Below(N, top) ==
    {id \in Page : \A S \in SUBSET Page :
                      (top \in S /\ \A x \in N : x.in \in S => x.id \in S) => id \in S}

Unlinks(N, next, path) ==
    \E top \in Finds(N, path) : next = {x \in N : x.id \notin Below(N, top)}

Moves(N, next) ==
    \/ next = N
    \/ \E q \in Path : Unlinks(N, next, q) \/ \E op \in {"dir", "file"} : Creates(N, next, q, op)

-----------------------------------------------------------------------------
(* The steps.                                                              *)

LEMMA InitHolding ==
    ASSUME Init
    PROVE  /\ TypeOK
           /\ \E T, depth : Holding(T, depth) /\ Nodes(T) = {}
<1>. DEFINE T == {RootPage}
            depth == [x \in Page |-> 0]
<1>1. PICK n \in Name : n = noElement.name
  <2>1. noElement.name = CHOOSE m \in Name : TRUE BY Zenon DEF noElement
  <2>. QED BY <2>1, FileSystemAssumption
<1>2. noElement \in Element
  <2>1. noElement = [name |-> n, page |-> RootPage, type |-> "file", deleted |-> TRUE]
    BY <1>1 DEF noElement
  <2>. QED BY <2>1, Numbers DEF Element
<1>3. IsFiniteSet(Page \ {RootPage}) BY Numbers, FS_Subset
<1>4. /\ free \in Seq(Page \ {RootPage}) /\ IsInjective(free)
      /\ Range(free) = Page \ {RootPage}
  BY <1>3, CountedOut, Zenon DEF Init
<1>5. TypeOK
  <2>1. free \in Seq(Page) BY <1>4
  <2>2. items \in [Page -> 0 .. MaxItems] BY Numbers DEF Init
  <2>3. entry \in [Page -> [Slot -> Element]] BY <1>2 DEF Init
  <2>4. idle \in Command BY Numbers DEF idle, Command, Step
  <2>5. cmd \in [Shell -> Command] BY <2>4 DEF Init
  <2>. QED BY <2>1, <2>2, <2>3, <2>5, Zenon DEF Init, TypeOK, Command, Step
<1>6. inFlight = {} BY DEF Init, inFlight, idle
<1>7. raw = {} /\ held = {} BY <1>6 DEF raw, held, inFlight
<1>8. live(RootPage) = {} /\ elements(RootPage) = {}
  <2>1. items[RootPage] = 0 BY Numbers DEF Init
  <2>2. live(RootPage) = {} BY <2>1 DEF live
  <2>. QED BY <2>2 DEF elements
<1>9. TreeOf(T, depth)
  <2>1. LeadsOn(T, depth, RootPage) BY <1>8 DEF LeadsOn
  <2>2. depth \in [Page -> Nat] OBVIOUS
  <2>. HIDE DEF depth
  <2>. QED BY <1>7, <1>8, <2>1, <2>2, Numbers DEF TreeOf
<1>10. Owned(T) BY <1>4, <1>7, Numbers DEF Owned, Init
<1>11. Holding(T, depth) BY <1>6, <1>9, <1>10 DEF Holding
<1>12. Nodes(T) = {} BY <1>8 DEF Nodes, Spots
<1>. QED BY <1>5, <1>11, <1>12

\* With one shell at work nothing else happens between the steps.
LEMMA HoldingNext ==
    ASSUME OneShell, NEW T, NEW depth, NEW s \in Shell,
           TreeOf(T, depth)', Owned(T)',
           cmd'[s].step # "idle" => AtWork(T, cmd[s])'
    PROVE  Holding(T, depth)'
<1>1. \A r \in inFlight' : r = s /\ cmd'[r].step # "idle" BY DEF inFlight, OneShell
<1>2. \A r \in inFlight' : AtWork(T, cmd[r])' BY <1>1
<1>. QED BY <1>2 DEF Holding

LEMMA Working ==
    ASSUME TypeOK, NEW T, NEW depth, Holding(T, depth), NEW s \in Shell,
           cmd[s].step # "idle"
    PROVE  /\ AtWork(T, cmd[s]) /\ cmd[s] \in Command
           /\ TreeOf(T, depth) /\ Owned(T)
<1>1. s \in inFlight BY DEF inFlight
<1>. QED BY <1>1, TypeParts DEF Holding

\* A directory that is found is one in the tree, too.
LEMMA DirectoryFound ==
    ASSUME PagesTyped, NEW T, NEW depth, TreeOf(T, depth), raw = {}, NEW q \in Seq(Name),
           getDirectoryFromPath(q)
    PROVE  /\ pageOf(q) \in T /\ pageOf(q) \in Finds(Nodes(T), q)
           /\ \A x \in Nodes(T) : ~(x.id = pageOf(q) /\ x.kind = "file")
<1>1. PICK e \in getElementFromPath(q) : element(e).type = "dir" BY DEF getDirectoryFromPath
<1>2. /\ Finds(Nodes(T), q) = {element(f).page : f \in getElementFromPath(q)}
      /\ InTree(T, e) /\ \A f, g \in getElementFromPath(q) : f = g
  BY LookUp
<1>3. entryOf(q) = e BY <1>2 DEF entryOf
<1>4. element(e).page \in T BY <1>2, PageOfPlace
<1>5. ASSUME NEW x \in Nodes(T), x.id = element(e).page, x.kind = "file" PROVE FALSE
  <2>1. T \subseteq Page BY DEF TreeOf
  <2>2. PICK d \in T : \E k \in elements(d) :
              x = NodeOf(<<d, k>>) /\ x.id = entry[d][k].page /\ x.in = d /\ x.at = k
              /\ x.name = entry[d][k].name /\ x.kind = entry[d][k].type
    BY <2>1, OfNodes
  <2>3. PICK k \in elements(d) : x.id = entry[d][k].page /\ x.kind = entry[d][k].type BY <2>2
  <2>4. CASE e = RootEntry
    <3>1. entry[d][k].page = RootPage BY <1>5, <2>3, <2>4 DEF element, root
    <3>. QED BY <3>1 DEF TreeOf, LeadsOn
  <2>5. CASE e # RootEntry
    <3>1. PICK g \in T : g = e[1] BY <1>2, <2>5 DEF InTree
    <3>2. PICK j \in elements(g) : j = e[2] BY <1>2, <2>5, <3>1 DEF InTree
    <3>3. element(e) = entry[g][j] BY <2>5, <3>1, <3>2 DEF element
    <3>4. j \in live(g) /\ k \in live(d) BY DEF elements
    <3>5. \A d1, e1 \in T : \A k1 \in live(d1), j1 \in live(e1) :
              entry[d1][k1].page = entry[e1][j1].page => d1 = e1 /\ k1 = j1
      BY DEF TreeOf
    <3>6. entry[d][k].page = entry[g][j].page BY <1>5, <2>3, <3>3
    <3>7. d = g /\ k = j BY <3>4, <3>5, <3>6, Zenon
    <3>. QED BY <1>1, <1>5, <2>3, <3>3, <3>7
  <2>. QED BY <2>4, <2>5
<1>. QED BY <1>2, <1>3, <1>4, <1>5 DEF pageOf

LEMMA BeginKeeps ==
    ASSUME OneShell, TypeOK, NEW T, NEW depth, Holding(T, depth),
           NEW s \in Shell, NEW op \in {"dir", "file"}, NEW path \in Path, Begin(s, op, path),
           op = "file" => ~found(path)
    PROVE  TypeOK' /\ Holding(T, depth)' /\ Nodes(T)' = Nodes(T)
<1>1. PagesTyped /\ free \in Seq(Page) /\ cmd \in [Shell -> Command] BY TypeParts
<1>2. cmd[s].step = "idle" BY DEF Begin, inFlight
<1>3. raw = {} /\ held = {} /\ inFlight = {} BY <1>2, IdleShell
<1>4. TreeOf(T, depth) /\ Owned(T) BY DEF Holding
<1>5. path \in Seq(Name) /\ path # << >> /\ Front(path) \in Seq(Name) BY Numbers, FrontAndLast
<1>6. PICK d : d = pageOf(Front(path)) OBVIOUS
<1>7. /\ d \in T /\ d \in Finds(Nodes(T), Front(path)) /\ d \in Page
      /\ \A x \in Nodes(T) : ~(x.id = d /\ x.kind = "file")
  <2>1. getDirectoryFromPath(Front(path)) BY DEF Begin
  <2>2. PICK q \in Seq(Name) : q = Front(path) BY <1>5
  <2>3. getDirectoryFromPath(q) /\ d = pageOf(q) BY <1>6, <2>1, <2>2
  <2>4. /\ d \in T /\ d \in Finds(Nodes(T), q)
        /\ \A x \in Nodes(T) : ~(x.id = d /\ x.kind = "file")
    BY <1>1, <1>3, <1>4, <2>3, DirectoryFound
  <2>5. T \subseteq Page BY <1>4 DEF TreeOf
  <2>. QED BY <2>2, <2>4, <2>5
<1>8. op = "file" => Finds(Nodes(T), path) = {}
  <2>1. Finds(Nodes(T), path) = {element(e).page : e \in getElementFromPath(path)}
    BY <1>1, <1>3, <1>4, <1>5, LookUp
  <2>. QED BY <2>1 DEF found
<1>9. items[d] < MaxItems /\ free # << >>
  <2>1. Cardinality(inFlight) = 0 BY <1>3, FS_EmptySet
  <2>2. Len(free) > 0 BY <1>1, <2>1 DEF Begin, WithinBounds
  <2>3. items[d] + 0 < MaxItems /\ items[d] \in 0 .. MaxItems /\ MaxItems \in Nat
    BY <1>1, <1>6, <1>7, <2>1, Numbers DEF Begin, WithinBounds, PagesTyped
  <2>. QED BY <2>2, <2>3
<1>10. PICK i \in Command : i = idle
  <2>1. idle \in Command BY Numbers DEF idle, Command, Step
  <2>. QED BY <2>1
<1>11. PICK c : c = [i EXCEPT !.step = "page", !.op = op, !.path = path, !.dir = d] OBVIOUS
<1>12. /\ cmd' \in [Shell -> Command] /\ cmd'[s] = c /\ c.step = "page" /\ c.path = path
       /\ c.dir = d /\ c.op = op
  <2>1. c \in Command BY <1>7, <1>11 DEF Command, Step
  <2>2. cmd' = [cmd EXCEPT ![s] = c] BY <1>6, <1>10, <1>11 DEF Begin
  <2>3. c.step = "page" /\ c.path = path /\ c.dir = d /\ c.op = op BY <1>11 DEF Command
  <2>. QED BY <1>1, <2>1, <2>2, <2>3
<1>13. UNCHANGED <<free, items, entry, made, leaked>> BY DEF Begin
<1>14. TypeOK' BY <1>12, <1>13 DEF TypeOK, Command, Step
<1>15. raw' = {} /\ held' = {} BY <1>12, OfOne, RawAndHeldNext
<1>16. TreeOf(T, depth)' /\ Nodes(T)' = Nodes(T)
  BY <1>1, <1>3, <1>4, <1>13, <1>15, SamePages, TreeStays
<1>17. Owned(T)' BY <1>3, <1>4, <1>13, <1>15 DEF Owned
<1>18. AtWork(T, cmd[s])'
  <2>1. Ready(Nodes(T), path, op, d) BY <1>7, <1>8 DEF Ready
  <2>. QED BY <1>7, <1>9, <1>12, <1>13, <1>16, <2>1 DEF AtWork
<1>. QED BY <1>14, <1>16, <1>17, <1>18, HoldingNext

LEMMA getPageKeeps ==
    ASSUME OneShell, TypeOK, NEW T, NEW depth, Holding(T, depth),
           NEW s \in Shell, getPage(s)
    PROVE  TypeOK' /\ Holding(T, depth)' /\ Nodes(T)' = Nodes(T)
<1>1. PagesTyped /\ free \in Seq(Page) /\ cmd \in [Shell -> Command] BY TypeParts
<1>2. cmd[s].step = "page" BY DEF getPage
<1>3. raw = {} /\ held = {} BY <1>2, OfOne, RawAndHeld
<1>4. AtWork(T, cmd[s]) /\ cmd[s] \in Command /\ TreeOf(T, depth) /\ Owned(T)
  BY <1>2, Working
<1>5. free # << >> /\ IsInjective(free) BY <1>2, <1>4 DEF AtWork, Owned
<1>6. /\ pop(free) \in Seq(Page) /\ IsInjective(pop(free))
      /\ Range(pop(free)) = Range(free) \ {Head(free)}
      /\ Head(free) \in Page /\ Head(free) \in Range(free)
  BY <1>1, <1>5, Popped
<1>7. PICK p \in Page : p = Head(free) BY <1>6
<1>8. PICK c \in Command : c = cmd[s] BY <1>4
<1>9. cmd' = [cmd EXCEPT ![s] = [c EXCEPT !.step = "copy", !.page = p]]
  BY <1>1, <1>7, <1>8 DEF getPage, goto
<1>10. cmd' \in [Shell -> Command] /\ cmd'[s] = [c EXCEPT !.step = "copy", !.page = p]
  <2>1. [c EXCEPT !.step = "copy", !.page = p] \in Command BY DEF Command, Step
  <2>. QED BY <1>1, <1>9, <2>1
<1>11. free' = pop(free) /\ UNCHANGED <<items, entry, made, leaked>> BY DEF getPage
<1>12. TypeOK' BY <1>6, <1>10, <1>11 DEF TypeOK, Command, Step
<1>13. /\ cmd'[s].step = "copy" /\ cmd'[s].page = p /\ cmd'[s].path = c.path
       /\ cmd'[s].dir = c.dir /\ cmd'[s].op = c.op
  BY <1>10 DEF Command
<1>14. raw' = {} /\ held' = {p} BY <1>13, OfOne, RawAndHeldNext
<1>15. TreeOf(T, depth)' /\ Nodes(T)' = Nodes(T)
  BY <1>1, <1>3, <1>4, <1>11, <1>14, SamePages, TreeStays
<1>16. Owned(T)'
  <2>1. Range(free') = Range(free) \ {p} /\ p \in Range(free) /\ IsInjective(free')
    BY <1>6, <1>7, <1>11
  <2>. QED BY <1>3, <1>4, <1>11, <1>14, <2>1 DEF Owned
<1>17. AtWork(T, cmd[s])'
  <2>1. c.path \in Path /\ c.dir \in T /\ Ready(Nodes(T), c.path, c.op, c.dir)
        /\ items[c.dir] < MaxItems
    BY <1>2, <1>4, <1>8 DEF AtWork
  <2>. QED BY <1>11, <1>13, <1>15, <2>1 DEF AtWork
<1>. QED BY <1>12, <1>15, <1>16, <1>17, HoldingNext

LEMMA CopyHeaderKeeps ==
    ASSUME OneShell, TypeOK, NEW T, NEW depth, Holding(T, depth),
           NEW s \in Shell, CopyHeader(s)
    PROVE  TypeOK' /\ Holding(T, depth)' /\ Nodes(T)' = Nodes(T)
<1>1. PagesTyped /\ free \in Seq(Page) /\ cmd \in [Shell -> Command] BY TypeParts
<1>2. cmd[s].step = "copy" BY DEF CopyHeader
<1>3. raw = {} /\ held = {cmd[s].page} BY <1>2, OfOne, RawAndHeld
<1>4. AtWork(T, cmd[s]) /\ cmd[s] \in Command /\ TreeOf(T, depth) /\ Owned(T)
  BY <1>2, Working
<1>5. PICK c \in Command : c = cmd[s] BY <1>4
<1>6. PICK n \in 0 .. MaxItems : n = items[c.dir] BY <1>1, <1>5 DEF PagesTyped, Command
<1>7. cmd' = [cmd EXCEPT ![s] = [c EXCEPT !.step = "write", !.items = n]]
  BY <1>1, <1>5, <1>6 DEF CopyHeader, goto
<1>8. cmd' \in [Shell -> Command] /\ cmd'[s] = [c EXCEPT !.step = "write", !.items = n]
  <2>1. [c EXCEPT !.step = "write", !.items = n] \in Command BY DEF Command, Step
  <2>. QED BY <1>1, <1>7, <2>1
<1>9. UNCHANGED <<free, items, entry, made, leaked>> BY DEF CopyHeader
<1>10. TypeOK' BY <1>8, <1>9 DEF TypeOK, Command, Step
<1>11. /\ cmd'[s].step = "write" /\ cmd'[s].page = c.page /\ cmd'[s].items = n
       /\ cmd'[s].path = c.path /\ cmd'[s].dir = c.dir /\ cmd'[s].op = c.op
  BY <1>8 DEF Command
<1>12. raw' = {} /\ held' = {c.page} BY <1>11, OfOne, RawAndHeldNext
<1>13. TreeOf(T, depth)' /\ Nodes(T)' = Nodes(T)
  BY <1>1, <1>3, <1>4, <1>9, <1>12, SamePages, TreeStays
<1>14. Owned(T)' BY <1>3, <1>4, <1>5, <1>9, <1>12 DEF Owned
<1>15. AtWork(T, cmd[s])'
  <2>1. c.path \in Path /\ c.dir \in T /\ Ready(Nodes(T), c.path, c.op, c.dir)
        /\ items[c.dir] < MaxItems
    BY <1>2, <1>4, <1>5 DEF AtWork
  <2>. QED BY <1>6, <1>9, <1>11, <1>13, <2>1 DEF AtWork
<1>. QED BY <1>10, <1>13, <1>14, <1>15, HoldingNext

\* The entry stands behind the last item, where nobody looks.
LEMMA WriteEntryKeeps ==
    ASSUME OneShell, TypeOK, NEW T, NEW depth, Holding(T, depth),
           NEW s \in Shell, WriteEntry(s)
    PROVE  TypeOK' /\ Holding(T, depth)' /\ Nodes(T)' = Nodes(T)
<1>1. PagesTyped /\ free \in Seq(Page) /\ cmd \in [Shell -> Command] BY TypeParts
<1>2. cmd[s].step = "write" BY DEF WriteEntry
<1>3. raw = {} /\ held = {cmd[s].page} BY <1>2, OfOne, RawAndHeld
<1>4. AtWork(T, cmd[s]) /\ cmd[s] \in Command /\ TreeOf(T, depth) /\ Owned(T)
  BY <1>2, Working
<1>5. PICK c \in Command : c = cmd[s] BY <1>4
<1>6. PICK d \in Page : d = c.dir BY <1>5 DEF Command
<1>7. PICK n \in 0 .. MaxItems : n = c.items /\ n = items[d] /\ n + 1 \in Slot
  <2>1. c.items = items[d] /\ items[d] < MaxItems BY <1>2, <1>4, <1>5, <1>6 DEF AtWork
  <2>2. items[d] \in 0 .. MaxItems /\ MaxItems \in Nat BY <1>1, Numbers DEF PagesTyped
  <2>. QED BY <2>1, <2>2 DEF Slot
<1>8. c.path \in Path /\ Last(c.path) \in Name
  <2>1. c.path \in Path BY <1>2, <1>4, <1>5 DEF AtWork
  <2>. QED BY <2>1, Numbers, FrontAndLast
<1>9. PICK new \in Element : new = [name |-> Last(c.path), page |-> c.page, type |-> c.op,
                                    deleted |-> FALSE]
  BY <1>5, <1>8 DEF Element, Command
<1>10. entry' = [entry EXCEPT ![d][n + 1] = new]
  BY <1>5, <1>6, <1>7, <1>9 DEF WriteEntry
<1>11. entry' \in [Page -> [Slot -> Element]] /\ entry'[d][n + 1] = new
       /\ \A x \in Page : \A k \in Slot : (x # d \/ k # n + 1) => entry'[x][k] = entry[x][k]
  BY <1>1, <1>7, <1>10 DEF PagesTyped
<1>12. cmd' = [cmd EXCEPT ![s] = [c EXCEPT !.step = "count"]]
  BY <1>1, <1>5 DEF WriteEntry, goto
<1>13. cmd' \in [Shell -> Command] /\ cmd'[s] = [c EXCEPT !.step = "count"]
  <2>1. [c EXCEPT !.step = "count"] \in Command BY DEF Command, Step
  <2>. QED BY <1>1, <1>12, <2>1
<1>14. UNCHANGED <<free, items, made, leaked>> BY DEF WriteEntry
<1>15. TypeOK' BY <1>11, <1>13, <1>14 DEF TypeOK, Command, Step
<1>16. /\ cmd'[s].step = "count" /\ cmd'[s].page = c.page /\ cmd'[s].items = n
       /\ cmd'[s].path = c.path /\ cmd'[s].dir = d /\ cmd'[s].op = c.op
  BY <1>6, <1>7, <1>13 DEF Command
<1>17. raw' = {} /\ held' = {c.page} BY <1>16, OfOne, RawAndHeldNext
<1>18. TreeOf(T, depth)' /\ Nodes(T)' = Nodes(T)
  <2>1. ASSUME NEW x \in T
        PROVE  live(x)' = live(x) /\ \A k \in live(x) : entry'[x][k] = entry[x][k]
    <3>1. x \in Page BY <1>4 DEF TreeOf
    <3>2. items[x] \in 0 .. MaxItems /\ 1 .. items[x] \subseteq Slot
      BY <1>1, <3>1, Numbers DEF PagesTyped, Slot
    <3>3. \A k \in 1 .. items[x] : x # d \/ k # n + 1 BY <1>7, <3>2
    <3>4. \A k \in 1 .. items[x] : entry'[x][k] = entry[x][k] BY <1>11, <3>1, <3>2, <3>3
    <3>5. live(x)' = live(x) BY <1>14, <3>4 DEF live
    <3>6. live(x) \subseteq 1 .. items[x] BY DEF live
    <3>. QED BY <3>4, <3>5, <3>6
  <2>. QED BY <1>1, <1>3, <1>4, <1>17, <2>1, TreeStays
<1>19. Owned(T)' BY <1>3, <1>4, <1>5, <1>14, <1>17 DEF Owned
<1>20. AtWork(T, cmd[s])'
  <2>1. /\ c.path \in Path /\ d \in T /\ Ready(Nodes(T), c.path, c.op, d) /\ items[d] < MaxItems
    BY <1>2, <1>4, <1>5, <1>6 DEF AtWork
  <2>2. Written(cmd[s], n + 1)' BY <1>9, <1>11, <1>16 DEF Written
  <2>. QED BY <1>7, <1>14, <1>16, <1>18, <2>1, <2>2 DEF AtWork
<1>. QED BY <1>15, <1>18, <1>19, <1>20, HoldingNext

\* The entry appears; its page, with an old header, is not yet in the tree.
LEMMA WriteHeaderKeeps ==
    ASSUME OneShell, TypeOK, NEW T, NEW depth, Holding(T, depth),
           NEW s \in Shell, WriteHeader(s)
    PROVE  TypeOK' /\ Holding(T, depth)' /\ Nodes(T)' = Nodes(T)
<1>1. PagesTyped /\ free \in Seq(Page) /\ cmd \in [Shell -> Command] BY TypeParts
<1>2. cmd[s].step = "count" BY DEF WriteHeader
<1>3. raw = {} /\ held = {cmd[s].page} BY <1>2, OfOne, RawAndHeld
<1>4. AtWork(T, cmd[s]) /\ cmd[s] \in Command /\ TreeOf(T, depth) /\ Owned(T)
  BY <1>2, Working
<1>5. PICK c \in Command : c = cmd[s] BY <1>4
<1>6. PICK d \in Page : d = c.dir BY <1>5 DEF Command
<1>7. PICK p \in Page : p = c.page BY <1>5 DEF Command
<1>8. PICK path \in Path : path = c.path BY <1>2, <1>4, <1>5 DEF AtWork
<1>9. PICK n \in 0 .. MaxItems : n = c.items /\ n = items[d] /\ n + 1 \in 0 .. MaxItems
                                 /\ n + 1 \in Slot
  <2>1. c.items = items[d] /\ items[d] < MaxItems BY <1>2, <1>4, <1>5, <1>6 DEF AtWork
  <2>2. items[d] \in 0 .. MaxItems /\ MaxItems \in Nat BY <1>1, Numbers DEF PagesTyped
  <2>. QED BY <2>1, <2>2 DEF Slot
<1>10. /\ d \in T /\ Ready(Nodes(T), path, c.op, d)
       /\ entry[d][n + 1] = [name |-> Last(path), page |-> p, type |-> c.op, deleted |-> FALSE]
  BY <1>2, <1>4, <1>5, <1>6, <1>7, <1>8, <1>9 DEF AtWork, Written
<1>11. p \notin T \cup Range(free) \cup leaked BY <1>3, <1>4, <1>5, <1>7 DEF Owned
<1>12. cmd' = [cmd EXCEPT ![s] = [c EXCEPT !.step = "header"]]
  BY <1>1, <1>5 DEF WriteHeader, goto
<1>13. cmd' \in [Shell -> Command] /\ cmd'[s] = [c EXCEPT !.step = "header"]
  <2>1. [c EXCEPT !.step = "header"] \in Command BY DEF Command, Step
  <2>. QED BY <1>1, <1>12, <2>1
<1>14. /\ cmd'[s].step = "header" /\ cmd'[s].page = p
       /\ cmd'[s].path = path /\ cmd'[s].dir = d /\ cmd'[s].op = c.op
  BY <1>6, <1>7, <1>8, <1>13 DEF Command
<1>15. UNCHANGED <<free, entry, leaked>> /\ made' = made \cup {path}
  BY <1>5, <1>8 DEF WriteHeader
<1>16. items' = [items EXCEPT ![d] = n + 1]
  BY <1>5, <1>6, <1>9 DEF WriteHeader, counted
<1>17. items' \in [Page -> 0 .. MaxItems] /\ items'[d] = n + 1
       /\ \A x \in Page : x # d => items'[x] = items[x]
  BY <1>1, <1>9, <1>16 DEF PagesTyped
<1>18. TypeOK'
  <2>1. made' \subseteq Path BY <1>15 DEF TypeOK
  <2>. QED BY <1>13, <1>15, <1>17, <2>1 DEF TypeOK, Command, Step
<1>19. raw' = {p} /\ held' = {} BY <1>14, OfOne, RawAndHeldNext
<1>20. T \subseteq Page BY <1>4 DEF TreeOf
<1>21. ASSUME NEW x \in T, x # d PROVE live(x)' = live(x)
  <2>1. items'[x] = items[x] BY <1>17, <1>20, <1>21
  <2>. QED BY <1>15, <2>1 DEF live
<1>22. live(d)' = live(d) \cup {n + 1} /\ n + 1 \notin live(d)
  <2>1. ~entry[d][n + 1].deleted BY <1>10
  <2>2. 1 .. n + 1 = (1 .. n) \cup {n + 1} /\ n + 1 \notin 1 .. n BY <1>9
  <2>. QED BY <1>9, <1>15, <1>17, <2>1, <2>2 DEF live
<1>23. ASSUME NEW x \in T
       PROVE  elements(x)' = elements(x) /\ elements(x) = live(x)
              /\ \A k \in live(x) : entry[x][k].page \in T
  <2>1. elements(x) = live(x) BY <1>3 DEF elements
  <2>2. \A k \in live(x) : entry[x][k].page \in T BY <1>4, <2>1 DEF TreeOf, LeadsOn
  <2>3. \A k \in live(x) : entry[x][k].page # p BY <1>11, <2>2
  <2>4. entry[d][n + 1].page = p BY <1>10
  <2>5. elements(x)' = live(x)
    <3>1. CASE x = d BY <1>15, <1>19, <1>22, <2>3, <2>4, <3>1 DEF elements
    <3>2. CASE x # d BY <1>15, <1>19, <1>21, <2>3, <3>2 DEF elements
    <3>. QED BY <3>1, <3>2
  <2>. QED BY <2>1, <2>2, <2>5
<1>24. TreeOf(T, depth)'
  <2>1. ASSUME NEW x \in T PROVE LeadsOn(T, depth, x)'
    <3>1. LeadsOn(T, depth, x) BY <1>4 DEF TreeOf
    <3>2. ASSUME NEW k \in elements(x), entry[x][k].type = "file", NEW y, y = entry[x][k].page
          PROVE  live(y)' = {}
      <4>1. y \in T /\ live(y) = {} BY <1>23, <3>1, <3>2 DEF LeadsOn
      <4>2. y # d
        <5>. SUFFICES ASSUME y = d PROVE FALSE OBVIOUS
        <5>1. /\ NodeOf(<<x, k>>) \in Nodes(T)
              /\ NodeOf(<<x, k>>) = [id |-> entry[x][k].page, in |-> x, at |-> k,
                                     name |-> entry[x][k].name, kind |-> entry[x][k].type]
          BY <1>1, <1>20, <3>2, NodeIs
        <5>. QED BY <1>10, <3>2, <5>1 DEF Ready
      <4>. QED BY <1>21, <4>1, <4>2
    <3>. QED BY <1>15, <1>23, <3>1, <3>2 DEF LeadsOn
  <2>2. ASSUME NEW x \in T, NEW y \in T, NEW k \in live(x)', NEW j \in live(y)',
               entry[x][k].page = entry[y][j].page
        PROVE  x = y /\ k = j
    <3>1. \A d1, e1 \in T : \A k1 \in live(d1), j1 \in live(e1) :
              entry[d1][k1].page = entry[e1][j1].page => d1 = e1 /\ k1 = j1
      BY <1>4 DEF TreeOf
    <3>2. \A z \in T : \A i \in live(z)' : i \in live(z) \/ (z = d /\ i = n + 1)
      BY <1>21, <1>22
    <3>3. entry[d][n + 1].page = p BY <1>10
    <3>4. CASE k \in live(x) /\ j \in live(y) BY <2>2, <3>1, <3>4, Zenon
    <3>5. CASE k \notin live(x) /\ j \notin live(y) BY <3>2, <3>5
    <3>6. CASE k \in live(x) /\ j \notin live(y)
      <4>1. entry[x][k].page = p BY <2>2, <3>2, <3>3, <3>6
      <4>2. entry[x][k].page \in T BY <1>23, <3>6
      <4>. QED BY <1>11, <4>1, <4>2
    <3>7. CASE k \notin live(x) /\ j \in live(y)
      <4>1. entry[y][j].page = p BY <2>2, <3>2, <3>3, <3>7
      <4>2. entry[y][j].page \in T BY <1>23, <3>7
      <4>. QED BY <1>11, <4>1, <4>2
    <3>. QED BY <3>4, <3>5, <3>6, <3>7
  <2>3. (\A x, y \in T : \A k \in live(x), j \in live(y) :
             entry[x][k].page = entry[y][j].page => x = y /\ k = j)'
    BY <1>15, <2>2
  <2>4. ASSUME NEW x \in T \ {RootPage} PROVE Entered(T, x)'
    <3>1. PICK y \in T : \E k \in elements(y) : entry[y][k].page = x
      BY <1>4, <2>4 DEF TreeOf, Entered
    <3>. QED BY <1>15, <1>23, <3>1 DEF Entered
  <2>5. (T \subseteq Page /\ RootPage \in T /\ T \cap raw = {} /\ depth \in [Page -> Nat])'
    BY <1>4, <1>11, <1>19 DEF TreeOf
  <2>. QED BY <2>1, <2>3, <2>4, <2>5 DEF TreeOf
<1>25. Nodes(T)' = Nodes(T) BY <1>15, <1>20, <1>23, NodesStay
<1>26. Owned(T)' BY <1>3, <1>4, <1>5, <1>7, <1>15, <1>19 DEF Owned
<1>27. AtWork(T, cmd[s])'
  <2>1. Written(cmd[s], n + 1)' BY <1>10, <1>14, <1>15 DEF Written
  <2>2. n + 1 \in live(d)' BY <1>22
  <2>. QED BY <1>10, <1>14, <1>17, <1>25, <2>1, <2>2 DEF AtWork
<1>. QED BY <1>18, <1>24, <1>25, <1>26, <1>27, HoldingNext

\* The command is over: what it created is in the tree.
LEMMA MakeHeaderKeeps ==
    ASSUME OneShell, TypeOK, NEW T, NEW depth, Holding(T, depth),
           NEW s \in Shell, MakeHeader(s)
    PROVE  /\ TypeOK'
           /\ \E U, h : /\ Holding(U, h)'
                        /\ \E q \in Path, op \in {"dir", "file"} :
                              Creates(Nodes(T), Nodes(U)', q, op)
<1>1. PagesTyped /\ free \in Seq(Page) /\ cmd \in [Shell -> Command] BY TypeParts
<1>2. cmd[s].step = "header" BY DEF MakeHeader
<1>3. raw = {cmd[s].page} /\ held = {} BY <1>2, OfOne, RawAndHeld
<1>4. AtWork(T, cmd[s]) /\ cmd[s] \in Command /\ TreeOf(T, depth) /\ Owned(T)
  BY <1>2, Working
<1>5. PICK c \in Command : c = cmd[s] BY <1>4
<1>6. PICK p \in Page : p = c.page BY <1>5 DEF Command
<1>7. PICK path \in Path : path = c.path BY <1>2, <1>4, <1>5 DEF AtWork
<1>8. PICK op \in {"dir", "file"} : op = c.op BY <1>5 DEF Command
<1>9. PICK d \in Page : d = c.dir BY <1>5 DEF Command
<1>10. raw = {p} /\ p \notin T \cup Range(free) \cup leaked
  BY <1>3, <1>4, <1>5, <1>6 DEF Owned
<1>11. PICK n \in Slot : n = items[d] /\ n \in live(d)
  <2>1. items[d] \in live(d) BY <1>2, <1>4, <1>5, <1>9 DEF AtWork
  <2>. QED BY <1>1, <2>1, LiveIsSlot
<1>12. /\ d \in T /\ Ready(Nodes(T), path, op, d)
       /\ entry[d][n] = [name |-> Last(path), page |-> p, type |-> op, deleted |-> FALSE]
  BY <1>2, <1>4, <1>5, <1>6, <1>7, <1>8, <1>9, <1>11 DEF AtWork, Written
<1>13. cmd' = [cmd EXCEPT ![s] = idle] BY DEF MakeHeader
<1>14. cmd' \in [Shell -> Command] /\ cmd'[s].step = "idle"
  <2>1. idle \in Command /\ idle.step = "idle" BY Numbers DEF Command, Step, idle
  <2>. QED BY <1>1, <1>13, <2>1
<1>15. UNCHANGED <<free, entry, made, leaked>> BY DEF MakeHeader
<1>16. items' = [items EXCEPT ![p] = 0] BY <1>5, <1>6 DEF MakeHeader, newHeader
<1>17. items' \in [Page -> 0 .. MaxItems] /\ items'[p] = 0
       /\ \A x \in Page : x # p => items'[x] = items[x]
  BY <1>1, <1>16, Numbers DEF PagesTyped
<1>18. TypeOK' BY <1>14, <1>15, <1>17 DEF TypeOK, Command, Step
<1>19. raw' = {} /\ held' = {} BY <1>14, OfOne, RawAndHeldNext
<1>20. T \subseteq Page /\ depth \in [Page -> Nat] BY <1>4 DEF TreeOf
<1>21. PICK U : U = T \cup {p} OBVIOUS
<1>22. PICK h : h = [depth EXCEPT ![p] = depth[d] + 1] OBVIOUS
<1>23. h \in [Page -> Nat] /\ h[p] = depth[d] + 1 /\ \A x \in T : h[x] = depth[x]
  BY <1>10, <1>20, <1>22
<1>24. live(p)' = {} /\ elements(p)' = {}
  <2>1. live(p)' = {} BY <1>17 DEF live
  <2>. QED BY <2>1 DEF elements
<1>25. ASSUME NEW x \in T PROVE live(x)' = live(x) /\ elements(x)' = live(x)
  <2>1. x # p /\ x \in Page BY <1>10, <1>20
  <2>2. live(x)' = live(x) BY <1>15, <1>17, <2>1 DEF live
  <2>. QED BY <1>19, <2>2 DEF elements
<1>26. /\ \A x \in T : \A k \in live(x) : k \in elements(x) \/ (x = d /\ k = n)
       /\ n \notin elements(d)
  <2>1. \A d1, e1 \in T : \A k1 \in live(d1), j1 \in live(e1) :
            entry[d1][k1].page = entry[e1][j1].page => d1 = e1 /\ k1 = j1
    BY <1>4 DEF TreeOf
  <2>2. entry[d][n].page = p BY <1>12
  <2>3. ASSUME NEW x \in T, NEW k \in live(x), k \notin elements(x) PROVE x = d /\ k = n
    <3>1. entry[x][k].page = entry[d][n].page BY <1>10, <2>2, <2>3 DEF elements
    <3>. QED BY <1>11, <1>12, <2>1, <2>3, <3>1
  <2>. QED BY <1>10, <2>2, <2>3 DEF elements
<1>27. \A x \in T : elements(x) \subseteq live(x) /\ LeadsOn(T, depth, x)
  BY <1>4 DEF TreeOf, elements
<1>28. TreeOf(U, h)'
  <2>1. ASSUME NEW x \in U PROVE LeadsOn(U, h, x)'
    <3>1. CASE x = p BY <1>24, <3>1 DEF LeadsOn
    <3>2. CASE x \in T
      <4>1. ASSUME NEW k \in live(x)
            PROVE  /\ entry[x][k].page \in U \ {RootPage} /\ h[entry[x][k].page] = h[x] + 1
                   /\ entry[x][k].type = "file" => \A y : y = entry[x][k].page => live(y)' = {}
        <5>1. CASE k \in elements(x)
          <6>1. /\ entry[x][k].page \in T \ {RootPage} /\ depth[entry[x][k].page] = depth[x] + 1
                /\ entry[x][k].type = "file" => live(entry[x][k].page) = {}
            BY <1>27, <3>2, <5>1 DEF LeadsOn
          <6>. QED BY <1>21, <1>23, <1>25, <3>2, <6>1
        <5>2. CASE x = d /\ k = n
          <6>1. p # RootPage BY <1>4, <1>10 DEF TreeOf
          <6>2. entry[x][k].page = p BY <1>12, <5>2
          <6>. QED BY <1>12, <1>21, <1>23, <1>24, <5>2, <6>1, <6>2
        <5>. QED BY <1>26, <3>2, <5>1, <5>2
      <4>. QED BY <1>15, <1>25, <3>2, <4>1 DEF LeadsOn
    <3>. QED BY <1>21, <3>1, <3>2
  <2>2. (\A x, y \in U : \A k \in live(x), j \in live(y) :
             entry[x][k].page = entry[y][j].page => x = y /\ k = j)'
    <3>1. \A d1, e1 \in T : \A k1 \in live(d1), j1 \in live(e1) :
              entry[d1][k1].page = entry[e1][j1].page => d1 = e1 /\ k1 = j1
      BY <1>4 DEF TreeOf
    <3>2. \A x \in U : \A k \in live(x)' : x \in T /\ k \in live(x) BY <1>21, <1>24, <1>25
    <3>3. ASSUME NEW x \in U, NEW y \in U, NEW k \in live(x)', NEW j \in live(y)',
                 entry[x][k].page = entry[y][j].page
          PROVE  x = y /\ k = j
      <4>1. x \in T /\ y \in T /\ k \in live(x) /\ j \in live(y) BY <3>2, <3>3
      <4>. QED BY <3>1, <3>3, <4>1
    <3>. QED BY <1>15, <3>3
  <2>3. ASSUME NEW x \in U \ {RootPage} PROVE Entered(U, x)'
    <3>1. CASE x = p
      <4>1. n \in elements(d)' /\ entry'[d][n].page = p BY <1>11, <1>12, <1>15, <1>25
      <4>. QED BY <1>12, <1>21, <3>1, <4>1 DEF Entered
    <3>2. CASE x \in T
      <4>1. PICK y \in T : \E k \in elements(y) : entry[y][k].page = x
        BY <1>4, <2>3, <3>2 DEF TreeOf, Entered
      <4>. QED BY <1>15, <1>21, <1>25, <1>27, <4>1 DEF Entered
    <3>. QED BY <1>21, <2>3, <3>1, <3>2
  <2>4. (U \subseteq Page /\ RootPage \in U /\ U \cap raw = {} /\ h \in [Page -> Nat])'
    BY <1>4, <1>19, <1>20, <1>21, <1>23 DEF TreeOf
  <2>. QED BY <2>1, <2>2, <2>3, <2>4 DEF TreeOf
<1>29. Owned(U)' BY <1>3, <1>4, <1>5, <1>6, <1>10, <1>15, <1>19, <1>21 DEF Owned
<1>30. Holding(U, h)' BY <1>14, <1>28, <1>29, HoldingNext
<1>31. PICK new : new = [id |-> p, in |-> d, at |-> n, name |-> Last(path), kind |-> op] OBVIOUS
<1>32. Nodes(U)' = Nodes(T) \cup {new}
  <2>1. Spots(U)' = Spots(T) \cup {<<d, n>>}
    <3>1. ASSUME NEW e \in U \X Slot
          PROVE  e[2] \in elements(e[1])' <=>
                     (e[1] \in T /\ (e[2] \in elements(e[1]) \/ e = <<d, n>>))
      <4>1. CASE e[1] \in T
        <5>1. e[2] \in elements(e[1])' <=> e[2] \in live(e[1]) BY <1>25, <4>1
        <5>2. e = <<d, n>> <=> (e[1] = d /\ e[2] = n) OBVIOUS
        <5>. QED BY <1>11, <1>26, <1>27, <4>1, <5>1, <5>2
      <4>2. CASE e[1] \notin T
        <5>1. e[1] = p BY <1>21, <4>2
        <5>. QED BY <1>24, <4>2, <5>1
      <4>. QED BY <4>1, <4>2
    <3>2. <<d, n>> \in U \X Slot BY <1>12, <1>21
    <3>. QED BY <1>12, <1>21, <3>1, <3>2 DEF Spots
  <2>2. ASSUME NEW e \in Spots(U)' PROVE NodeOf(e)' = NodeOf(e)
    BY <1>15 DEF NodeOf, element
  <2>3. NodeOf(<<d, n>>) = new
    <3>1. n # 0 BY DEF Slot
    <3>2. element(<<d, n>>) = entry[d][n] BY <3>1 DEF element, RootEntry
    <3>. QED BY <1>12, <1>31, <3>2 DEF NodeOf
  <2>4. Nodes(U)' = {NodeOf(e) : e \in Spots(T) \cup {<<d, n>>}} BY <2>1, <2>2, Zenon DEF Nodes
  <2>. QED BY <2>3, <2>4 DEF Nodes
<1>33. Creates(Nodes(T), Nodes(U)', path, op)
  <2>1. ASSUME NEW x \in Nodes(T) PROVE x.id # p /\ (x.in = d => x.at < n)
    <3>1. PICK y \in T : \E k \in elements(y) :
              x = NodeOf(<<y, k>>) /\ x.id = entry[y][k].page /\ x.in = y /\ x.at = k
              /\ x.name = entry[y][k].name /\ x.kind = entry[y][k].type
      BY <1>1, <1>20, OfNodes
    <3>2. PICK k \in elements(y) : x.id = entry[y][k].page /\ x.in = y /\ x.at = k BY <3>1
    <3>3. x.id \in T BY <1>27, <3>2 DEF LeadsOn
    <3>4. ASSUME y = d PROVE k < n
      <4>1. k # n BY <1>26, <3>4
      <4>2. k \in 1 .. items[d] /\ items[d] \in 0 .. MaxItems /\ n \in Nat
        BY <1>1, <1>27, <3>4, LiveIsSlot, <1>11 DEF Slot
      <4>3. k <= n BY <1>11, <4>2
      <4>. QED BY <4>1, <4>2, <4>3
    <3>. QED BY <1>10, <3>2, <3>3, <3>4
  <2>2. p # RootPage BY <1>4, <1>10 DEF TreeOf
  <2>. QED BY <1>11, <1>12, <1>31, <1>32, <2>1, <2>2 DEF Creates, Ready
<1>. QED BY <1>18, <1>30, <1>33

-----------------------------------------------------------------------------
(* rm and rm -r.                                                           *)

\* What FileTree says is below a node are the pages below its page.
LEMMA BelowIs ==
    ASSUME PagesTyped, NEW T, NEW depth, TreeOf(T, depth), NEW x \in T
    PROVE  Below(Nodes(T), x) = under(x)
<1>1. T \subseteq Page /\ under(x) \subseteq T /\ x \in Page BY UnderDeeper DEF TreeOf
<1>2. ASSUME NEW y \in Nodes(T), y.in \in under(x) PROVE y.id \in under(x)
  <2>1. PICK d \in T : \E k \in elements(d) :
              y = NodeOf(<<d, k>>) /\ y.id = entry[d][k].page /\ y.in = d /\ y.at = k
              /\ y.name = entry[d][k].name /\ y.kind = entry[d][k].type
    BY <1>1, OfNodes
  <2>2. y.id \in children(d) /\ d \in under(x) BY <1>2, <2>1 DEF children
  <2>. QED BY <1>1, <2>2, UnderIs
<1>3. Below(Nodes(T), x) \subseteq under(x)
  <2>1. x \in under(x) /\ under(x) \in SUBSET Page BY <1>1, UnderIs
  <2>. QED BY <1>2, <2>1 DEF Below
<1>4. ASSUME NEW S \in SUBSET Page, x \in S, \A y \in Nodes(T) : y.in \in S => y.id \in S
      PROVE  under(x) \subseteq S
  <2>1. PICK R : R = S \cap T OBVIOUS
  <2>2. R \in SUBSET Page /\ x \in R BY <1>4, <2>1
  <2>3. ASSUME NEW d \in R, NEW c \in children(d) PROVE c \in R
    <3>1. PICK k \in elements(d) : entry[d][k].page = c BY DEF children
    <3>2. d \in T /\ c \in T BY <2>1, ChildIs
    <3>3. /\ NodeOf(<<d, k>>) \in Nodes(T)
          /\ NodeOf(<<d, k>>) = [id |-> entry[d][k].page, in |-> d, at |-> k,
                                 name |-> entry[d][k].name, kind |-> entry[d][k].type]
      BY <1>1, <3>2, NodeIs
    <3>4. c \in S BY <1>4, <2>1, <3>1, <3>3
    <3>. QED BY <2>1, <3>2, <3>4
  <2>4. under(x) \subseteq R BY <1>1, <2>2, <2>3, UnderIs
  <2>. QED BY <2>1, <2>4
<1>5. under(x) \subseteq Below(Nodes(T), x)
  <2>. SUFFICES ASSUME NEW y \in under(x) PROVE y \in Below(Nodes(T), x) OBVIOUS
  <2>1. ASSUME NEW S \in SUBSET Page, x \in S, \A z \in Nodes(T) : z.in \in S => z.id \in S
        PROVE  y \in S
    BY <1>4, <2>1
  <2>2. y \in Page BY <1>1
  <2>. QED BY <2>1, <2>2 DEF Below
<1>. QED BY <1>3, <1>5

\* With the element of x all that is below x leaves the tree, some of it to the
\* stack, the rest for good.
Removal(T, depth, x, d, k, path, F, L, U) ==
    /\ PagesTyped /\ TreeOf(T, depth) /\ Owned(T)
    /\ raw = {} /\ held = {} /\ raw' = {} /\ held' = {} /\ inFlight' = {}
    /\ x \in T \ {RootPage} /\ d \in T /\ k \in elements(d) /\ entry[d][k].page = x
    /\ path \in Path /\ x \in Finds(Nodes(T), path)
    /\ F \cup L = under(x) /\ F \cap L = {}
    /\ Range(free') = Range(free) \cup F /\ leaked' = leaked \cup L /\ IsInjective(free')
    /\ U = T \ under(x)
    /\ \A e \in U : /\ live(e)' = {j \in live(e) : ~(e = d /\ j = k)}
                    /\ \A j \in live(e)' : entry'[e][j] = entry[e][j]

LEMMA RemovalKeeps ==
    ASSUME NEW T, NEW depth, NEW x, NEW d, NEW k, NEW path, NEW F, NEW L, NEW U,
           Removal(T, depth, x, d, k, path, F, L, U)
    PROVE  Holding(U, depth)' /\ Unlinks(Nodes(T), Nodes(U)', path)
<1>. /\ PagesTyped /\ TreeOf(T, depth) /\ Owned(T)
     /\ raw = {} /\ held = {} /\ raw' = {} /\ held' = {} /\ inFlight' = {}
     /\ x \in T \ {RootPage} /\ d \in T /\ k \in elements(d) /\ entry[d][k].page = x
     /\ path \in Path /\ x \in Finds(Nodes(T), path)
     /\ F \cup L = under(x) /\ F \cap L = {}
     /\ Range(free') = Range(free) \cup F /\ leaked' = leaked \cup L /\ IsInjective(free')
     /\ U = T \ under(x)
     /\ \A e \in U : /\ live(e)' = {j \in live(e) : ~(e = d /\ j = k)}
                     /\ \A j \in live(e)' : entry'[e][j] = entry[e][j]
  BY DEF Removal
<1>1. T \subseteq Page /\ RootPage \in T /\ depth \in [Page -> Nat] /\ x \in Page
      /\ under(x) \subseteq T
  BY UnderDeeper DEF TreeOf
<1>2. x \in under(x) /\ RootPage \notin under(x) BY <1>1, UnderIs, UnderDeeper
<1>3. \A d1, e1 \in T : \A k1 \in live(d1), j1 \in live(e1) :
          entry[d1][k1].page = entry[e1][j1].page => d1 = e1 /\ k1 = j1
  BY DEF TreeOf
<1>4. \A e \in T : elements(e) = live(e) BY DEF elements
<1>5. \A e \in U : elements(e)' = live(e)' BY DEF elements
<1>6. ASSUME NEW e \in U, NEW j \in live(e)'
      PROVE  /\ j \in live(e) /\ j \in elements(e) /\ entry'[e][j] = entry[e][j]
             /\ entry[e][j].page \in U \ {RootPage}
  <2>1. e \in T /\ e \notin under(x) OBVIOUS
  <2>2. j \in live(e) /\ ~(e = d /\ j = k) /\ entry'[e][j] = entry[e][j] OBVIOUS
  <2>3. j \in elements(e) BY <1>4, <2>1, <2>2
  <2>4. PICK y : y = entry[e][j].page OBVIOUS
  <2>5. y \in T \ {RootPage} /\ y \in children(e) BY <2>1, <2>3, <2>4 DEF TreeOf, LeadsOn, children
  <2>6. y # x
    <3>. SUFFICES ASSUME y = x PROVE FALSE OBVIOUS
    <3>1. entry[e][j].page = entry[d][k].page BY <2>4
    <3>2. k \in live(d) BY <1>4
    <3>3. e = d /\ j = k BY <1>3, <2>1, <2>2, <3>1, <3>2
    <3>. QED BY <2>2, <3>3
  <2>7. y \notin under(x) BY <2>1, <2>5, <2>6, ParentUnder
  <2>. QED BY <2>2, <2>3, <2>4, <2>5, <2>7
<1>7. ASSUME NEW e \in U, NEW j \in elements(e), entry[e][j].page # x PROVE j \in live(e)'
  <2>1. j \in live(e) BY <1>4
  <2>. QED BY <1>7, <2>1
<1>8. TreeOf(U, depth)'
  <2>1. ASSUME NEW e \in U PROVE LeadsOn(U, depth, e)'
    <3>1. ASSUME NEW j \in live(e)'
          PROVE  /\ entry'[e][j].page \in U \ {RootPage}
                 /\ depth[entry'[e][j].page] = depth[e] + 1
                 /\ entry'[e][j].type = "file" => \A y : y = entry'[e][j].page => live(y)' = {}
      <4>1. j \in elements(e) /\ entry'[e][j] = entry[e][j] /\ entry[e][j].page \in U \ {RootPage}
        BY <1>6
      <4>2. /\ depth[entry[e][j].page] = depth[e] + 1
            /\ entry[e][j].type = "file" => live(entry[e][j].page) = {}
        BY <4>1 DEF TreeOf, LeadsOn
      <4>3. ASSUME entry[e][j].type = "file", NEW y, y = entry[e][j].page PROVE live(y)' = {}
        BY <4>1, <4>2, <4>3
      <4>. QED BY <4>1, <4>2, <4>3
    <3>. QED BY <1>5, <3>1 DEF LeadsOn
  <2>2. ASSUME NEW e \in U, NEW g \in U, NEW i \in live(e)', NEW j \in live(g)',
               entry'[e][i].page = entry'[g][j].page
        PROVE  e = g /\ i = j
    <3>1. e \in T /\ g \in T /\ i \in live(e) /\ j \in live(g) BY <1>6
    <3>2. entry[e][i].page = entry[g][j].page BY <1>6, <2>2
    <3>. QED BY <1>3, <3>1, <3>2
  <2>3. ASSUME NEW y \in U \ {RootPage} PROVE Entered(U, y)'
    <3>1. PICK e \in T : \E j \in elements(e) : entry[e][j].page = y BY DEF TreeOf, Entered
    <3>2. PICK j \in elements(e) : entry[e][j].page = y BY <3>1
    <3>3. e \notin under(x)
      <4>. SUFFICES ASSUME e \in under(x) PROVE FALSE OBVIOUS
      <4>1. y \in children(e) BY <3>2 DEF children
      <4>. QED BY <1>1, <4>1, UnderIs
    <3>4. y # x BY <1>2
    <3>5. e \in U /\ j \in live(e)' BY <1>7, <3>2, <3>3, <3>4
    <3>6. entry'[e][j].page = y BY <1>6, <3>2, <3>5
    <3>. QED BY <1>5, <3>5, <3>6 DEF Entered
  <2>4. U \subseteq Page /\ RootPage \in U /\ U \cap raw' = {} /\ depth \in [Page -> Nat]
    BY <1>1, <1>2
  <2>. QED BY <2>1, <2>2, <2>3, <2>4 DEF TreeOf
<1>9. Owned(U)'
  <2>1. F \subseteq T /\ L \subseteq T BY <1>1
  <2>. QED BY <2>1, Zenon DEF Owned
<1>10. Holding(U, depth)' BY <1>8, <1>9 DEF Holding
<1>11. Nodes(U)' = {z \in Nodes(T) : z.id \notin under(x)}
  <2>1. ASSUME NEW e \in Spots(U)'
        PROVE  NodeOf(e)' = NodeOf(e) /\ e \in Spots(T) /\ NodeOf(e).id \notin under(x)
    <3>1. PICK g \in U : g = e[1] BY DEF Spots
    <3>2. PICK j \in Slot : j = e[2] /\ j \in live(g)' BY <1>5, <3>1 DEF Spots
    <3>3. /\ j \in elements(g) /\ entry'[g][j] = entry[g][j]
          /\ entry[g][j].page \in U \ {RootPage}
      BY <1>6, <3>2
    <3>4. e # RootEntry BY <3>2 DEF RootEntry, Slot
    <3>5. element(e) = entry[g][j] /\ element(e)' = entry'[g][j]
      BY <3>1, <3>2, <3>4 DEF element
    <3>6. NodeOf(e)' = NodeOf(e) /\ NodeOf(e).id = entry[g][j].page BY <3>3, <3>5 DEF NodeOf
    <3>7. e \in Spots(T) BY <3>1, <3>2, <3>3 DEF Spots
    <3>. QED BY <3>3, <3>6, <3>7
  <2>2. ASSUME NEW e \in Spots(T), NodeOf(e).id \notin under(x) PROVE e \in Spots(U)'
    <3>1. PICK g \in T : g = e[1] BY DEF Spots
    <3>2. PICK j \in Slot : j = e[2] /\ j \in elements(g) BY <3>1 DEF Spots
    <3>3. e # RootEntry BY <3>2 DEF RootEntry, Slot
    <3>4. element(e) = entry[g][j] BY <3>1, <3>2, <3>3 DEF element
    <3>5. entry[g][j].page \notin under(x) BY <2>2, <3>4 DEF NodeOf
    <3>6. entry[g][j].page \in children(g) BY <3>2 DEF children
    <3>7. g \in U BY <1>1, <3>5, <3>6, UnderIs
    <3>8. j \in live(g)' BY <1>2, <1>7, <3>2, <3>5, <3>7
    <3>9. e \in U \X Slot BY <3>1, <3>2, <3>7 DEF Spots
    <3>. QED BY <1>5, <3>1, <3>2, <3>7, <3>8, <3>9 DEF Spots
  <2>3. Nodes(U)' = {NodeOf(e)' : e \in Spots(U)'} BY DEF Nodes
  <2>4. ASSUME NEW z PROVE z \in Nodes(U)' <=> z \in Nodes(T) /\ z.id \notin under(x)
    <3>1. z \in Nodes(U)' <=> \E e \in Spots(U)' : z = NodeOf(e)
      <4>1. z \in Nodes(U)' <=> \E e \in Spots(U)' : z = NodeOf(e)' BY <2>3
      <4>. QED BY <2>1, <4>1
    <3>2. z \in Nodes(T) <=> \E e \in Spots(T) : z = NodeOf(e) BY DEF Nodes
    <3>. QED BY <2>1, <2>2, <3>1, <3>2
  <2>. QED BY <2>4
<1>12. Below(Nodes(T), x) = under(x) BY BelowIs
<1>13. Unlinks(Nodes(T), Nodes(U)', path)
  <2>1. PICK N : N = Nodes(T) OBVIOUS
  <2>2. PICK M : M = Nodes(U)' OBVIOUS
  <2>3. M = {z \in N : z.id \notin Below(N, x)} BY <1>11, <1>12, <2>1, <2>2
  <2>4. x \in Finds(N, path) BY <2>1
  <2>5. Unlinks(N, M, path) BY <2>3, <2>4, Zenon DEF Unlinks
  <2>. QED BY <2>1, <2>2, <2>5
<1>. QED BY <1>10, <1>13

\* What a path finds that is not the root is the page of one element.
LEMMA StandsThere ==
    ASSUME PagesTyped, NEW T, NEW depth, TreeOf(T, depth), raw = {}, NEW path \in Path, found(path)
    PROVE  \E x \in T \ {RootPage}, d \in T : \E k \in elements(d) :
              /\ pageOf(path) = x /\ entryOf(path) = <<d, k>> /\ entry[d][k].page = x
              /\ x \in Finds(Nodes(T), path)
              /\ \A e \in getElementFromPath(path) : element(e) = entry[d][k]
<1>1. path \in Seq(Name) /\ path # << >> BY Numbers
<1>2. /\ Finds(Nodes(T), path) = {element(e).page : e \in getElementFromPath(path)}
      /\ \A e \in getElementFromPath(path) : InTree(T, e)
      /\ \A e, f \in getElementFromPath(path) : e = f
      /\ RootEntry \notin getElementFromPath(path)
  BY <1>1, LookUp
<1>3. PICK e \in getElementFromPath(path) : TRUE BY DEF found
<1>4. entryOf(path) = e BY <1>2, <1>3 DEF entryOf
<1>5. e # RootEntry /\ InTree(T, e) BY <1>2, <1>3
<1>6. PICK d \in T : d = e[1] BY <1>5 DEF InTree
<1>7. PICK k \in elements(d) : k = e[2] BY <1>5, <1>6 DEF InTree
<1>8. e = <<d, k>> BY <1>5, <1>6, <1>7 DEF InTree
<1>9. element(e) = entry[d][k] BY <1>5, <1>6, <1>7 DEF element
<1>10. PICK x : x = entry[d][k].page OBVIOUS
<1>11. x \in T \ {RootPage} BY <1>10 DEF TreeOf, LeadsOn
<1>12. pageOf(path) = x BY <1>4, <1>9, <1>10 DEF pageOf
<1>13. x \in Finds(Nodes(T), path) BY <1>2, <1>3, <1>9, <1>10
<1>14. \A f \in getElementFromPath(path) : element(f) = entry[d][k] BY <1>2, <1>3, <1>9
<1>. QED BY <1>4, <1>8, <1>10, <1>11, <1>12, <1>13, <1>14

LEMMA Resting ==
    ASSUME OneShell, inFlight # Shell
    PROVE  raw = {} /\ held = {} /\ inFlight = {}
<1>1. PICK s \in Shell : cmd[s].step = "idle" BY DEF inFlight
<1>. QED BY <1>1, IdleShell

LEMMA StillResting ==
    ASSUME raw = {}, held = {}, inFlight = {}, cmd' = cmd
    PROVE  raw' = {} /\ held' = {} /\ inFlight' = {}
BY DEF raw, held, inFlight

LEMMA Deleted ==
    ASSUME NEW ent \in [Page -> [Slot -> Element]], NEW d \in Page, NEW k \in Slot,
           NEW new, new = delete(ent, <<d, k>>)
    PROVE  /\ new \in [Page -> [Slot -> Element]]
           /\ \A e \in Page, j \in Slot : (e # d \/ j # k) => new[e][j] = ent[e][j]
           /\ new[d][k].page = ent[d][k].page /\ new[d][k].name = ent[d][k].name
           /\ new[d][k].type = ent[d][k].type /\ new[d][k].deleted
<1>1. new = [ent EXCEPT ![d][k].deleted = TRUE] BY DEF delete
<1>2. PICK old \in Element : old = ent[d][k] OBVIOUS
<1>3. PICK y : y = [old EXCEPT !.deleted = TRUE] OBVIOUS
<1>4. y \in Element /\ y.page = old.page /\ y.name = old.name /\ y.type = old.type /\ y.deleted
  BY <1>3 DEF Element
<1>5. PICK row \in [Slot -> Element] : /\ new = [ent EXCEPT ![d] = row] /\ row[k] = y
                                        /\ \A j \in Slot : j # k => row[j] = ent[d][j]
  <2>1. PICK t \in [Slot -> Element] : t = ent[d] OBVIOUS
  <2>2. [t EXCEPT ![k] = y] \in [Slot -> Element] BY <1>4
  <2>3. new = [ent EXCEPT ![d] = [t EXCEPT ![k] = y]] BY <1>1, <1>2, <1>3, <2>1
  <2>. QED BY <2>1, <2>2, <2>3
<1>6. new \in [Page -> [Slot -> Element]] BY <1>5
<1>7. new[d][k] = y BY <1>5
<1>8. \A e \in Page, j \in Slot : (e # d \/ j # k) => new[e][j] = ent[e][j] BY <1>5
<1>. QED BY <1>2, <1>4, <1>6, <1>7, <1>8

LEMMA removeFileKeeps ==
    ASSUME OneShell, TypeOK, NEW T, NEW depth, Holding(T, depth),
           NEW path \in Path, inFlight # Shell, removeFile(path)
    PROVE  /\ TypeOK'
           /\ \E U : Holding(U, depth)' /\ Unlinks(Nodes(T), Nodes(U)', path)
<1>1. PagesTyped /\ free \in Seq(Page) /\ cmd \in [Shell -> Command] BY TypeParts
<1>2. UNCHANGED <<items, cmd, leaked>> BY DEF removeFile
<1>3. raw = {} /\ held = {} /\ inFlight = {} BY Resting
<1>4. raw' = {} /\ held' = {} /\ inFlight' = {} BY <1>2, <1>3, StillResting
<1>5. TreeOf(T, depth) /\ Owned(T) BY DEF Holding
<1>6. PICK e \in getElementFromPath(path) : element(e).type = "file"
  BY DEF removeFile, getFileFromPath
<1>7. found(path) BY <1>6 DEF found
<1>8. PICK x \in T \ {RootPage}, d \in T : \E k \in elements(d) :
              /\ pageOf(path) = x /\ entryOf(path) = <<d, k>> /\ entry[d][k].page = x
              /\ x \in Finds(Nodes(T), path)
              /\ \A f \in getElementFromPath(path) : element(f) = entry[d][k]
  BY <1>1, <1>3, <1>5, <1>7, StandsThere
<1>9. PICK k \in elements(d) :
              /\ pageOf(path) = x /\ entryOf(path) = <<d, k>> /\ entry[d][k].page = x
              /\ x \in Finds(Nodes(T), path) /\ entry[d][k].type = "file"
  BY <1>6, <1>8
<1>10. x \in Page /\ d \in Page /\ k \in Slot /\ T \subseteq Page
  BY <1>1, <1>5, ElementsAre DEF TreeOf
<1>11. free' = freePage(free, x) /\ entry' = delete(entry, <<d, k>>)
  BY <1>9 DEF removeFile
<1>12. /\ free' \in Seq(Page) /\ IsInjective(free') /\ Range(free') = Range(free) \cup {x}
  BY <1>1, <1>5, <1>10, <1>11, Pushed DEF Owned
<1>13. /\ entry' \in [Page -> [Slot -> Element]]
       /\ \A g \in Page, j \in Slot : (g # d \/ j # k) => entry'[g][j] = entry[g][j]
       /\ entry'[d][k].deleted
  BY <1>1, <1>10, <1>11, Deleted DEF PagesTyped
<1>14. TypeOK'
  <2>1. made' \subseteq Path BY DEF removeFile, forget, TypeOK
  <2>. QED BY <1>1, <1>2, <1>12, <1>13, <2>1 DEF TypeOK, Command, Step
<1>15. under(x) = {x}
  <2>1. live(x) = {} BY <1>5, <1>9 DEF TreeOf, LeadsOn
  <2>2. children(x) = {} BY <2>1 DEF children, elements
  <2>. QED BY <1>1, <1>10, <2>2, UnderSplit
<1>16. PICK U : U = T \ under(x) OBVIOUS
<1>17. ASSUME NEW g \in U
       PROVE  /\ live(g)' = {j \in live(g) : ~(g = d /\ j = k)}
              /\ \A j \in live(g)' : entry'[g][j] = entry[g][j]
  <2>1. g \in Page BY <1>10, <1>16
  <2>2. live(g) \subseteq Slot /\ 1 .. items[g] \subseteq Slot
    BY <1>1, <2>1, LiveIsSlot, Numbers DEF PagesTyped, Slot
  <2>3. live(g)' = {j \in live(g) : ~(g = d /\ j = k)}
    BY <1>2, <1>13, <2>1, <2>2 DEF live
  <2>4. \A j \in live(g)' : j \in Slot /\ (g # d \/ j # k) BY <2>2, <2>3
  <2>. QED BY <1>13, <2>1, <2>3, <2>4
<1>18. PICK F, L : F = {x} /\ L = {} OBVIOUS
<1>19. /\ F \cup L = under(x) /\ F \cap L = {} /\ Range(free') = Range(free) \cup F
       /\ leaked' = leaked \cup L /\ IsInjective(free')
       /\ entry[d][k].page = x /\ x \in Finds(Nodes(T), path)
  BY <1>2, <1>9, <1>12, <1>15, <1>18
<1>20. Removal(T, depth, x, d, k, path, F, L, U)
  BY <1>1, <1>3, <1>4, <1>5, <1>9, <1>16, <1>17, <1>19, Zenon DEF Removal
<1>21. Holding(U, depth)' /\ Unlinks(Nodes(T), Nodes(U)', path) BY <1>20, RemovalKeeps, Zenon
<1>. QED BY <1>14, <1>21

\* removeDir frees what each element points to.
Stacks == {st \in Seq(Page) : IsInjective(st)}

FreesElements(p, after) ==
    /\ elementsFreed(p) = after[items[p]]
    /\ after[0] = free
    /\ \A k \in 1 .. items[p] :
          after[k] = IF k \in live(p) THEN freePage(after[k - 1], entry[p][k].page)
                     ELSE after[k - 1]

LEMMA FreeingLoop ==
    ASSUME PagesTyped, NEW p \in Page, free \in Stacks
    PROVE  \E after \in [0 .. items[p] -> Stacks] : FreesElements(p, after)
<1>. DEFINE size == items[p]
            after[k \in 0 .. size] ==
                IF k = 0 THEN free
                ELSE IF k \in live(p) THEN freePage(after[k - 1], entry[p][k].page)
                ELSE after[k - 1]
            f == [k \in 1 .. size |-> [st \in Stacks |->
                     IF k \in live(p) THEN freePage(st, entry[p][k].page) ELSE st]]
<1>1. size \in Nat BY Numbers DEF PagesTyped
<1>2. elementsFreed(p) = after[size] BY Zenon DEF elementsFreed
<1>3. ASSUME NEW k \in live(p), NEW st \in Stacks PROVE freePage(st, entry[p][k].page) \in Stacks
  <2>1. entry[p][k].page \in Page BY LiveIsSlot DEF Element
  <2>. QED BY <2>1, Pushed DEF Stacks
<1>4. f \in [1 .. size -> [Stacks -> Stacks]] BY <1>3
<1>5. PICK g \in [0 .. size -> Stacks] :
         g[0] = free /\ \A j \in 1 .. size : g[j] = f[j][g[j - 1]]
  <2>. HIDE DEF f, after, size
  <2>1. PICK v \in Stacks : v = free OBVIOUS
  <2>2. \E g \in [0 .. size -> Stacks] : g[0] = v /\ \A j \in 1 .. size : g[j] = f[j][g[j - 1]]
    BY <1>1, <1>4, <2>1, LoopRuns
  <2>. QED BY <2>1, <2>2
<1>6. g = [k \in 0 .. size |->
              IF k = 0 THEN free
              ELSE IF k \in live(p) THEN freePage(g[k - 1], entry[p][k].page)
              ELSE g[k - 1]]
  <2>1. \A j \in 0 .. size : j # 0 => j \in 1 .. size /\ j - 1 \in 0 .. size BY <1>1
  <2>. HIDE DEF size
  <2>. QED BY <1>5, <2>1
<1>7. after = CHOOSE h : h = [k \in 0 .. size |->
              IF k = 0 THEN free
              ELSE IF k \in live(p) THEN freePage(h[k - 1], entry[p][k].page)
              ELSE h[k - 1]]
  BY Zenon DEF after
<1>8. after = [k \in 0 .. size |->
              IF k = 0 THEN free
              ELSE IF k \in live(p) THEN freePage(after[k - 1], entry[p][k].page)
              ELSE after[k - 1]]
  <2>. HIDE DEF size
  <2>. QED BY <1>6, <1>7, Zenon
<1>. HIDE DEF after, size
<1>9. /\ after[0] = free
      /\ \A k \in 1 .. size :
            after[k] = IF k \in live(p) THEN freePage(after[k - 1], entry[p][k].page)
                       ELSE after[k - 1]
  <2>1. 0 \in 0 .. size /\ \A j \in 1 .. size : j \in 0 .. size /\ j # 0 BY <1>1
  <2>. QED BY <1>8, <2>1
<1>10. after \in [0 .. size -> Stacks]
  <2>. DEFINE Good == {j \in 0 .. size : after[j] \in Stacks}
  <2>1. 0 \in Good
    <3>1. 0 \in 0 .. size BY <1>1
    <3>. QED BY <1>9, <3>1
  <2>2. ASSUME NEW j \in 1 .. size, j - 1 \in Good PROVE j \in Good
    <3>1. j \in 0 .. size /\ after[j - 1] \in Stacks BY <1>1, <2>2
    <3>2. CASE j \in live(p)
      <4>1. freePage(after[j - 1], entry[p][j].page) \in Stacks BY <1>3, <3>1, <3>2
      <4>. QED BY <1>9, <3>1, <3>2, <4>1
    <3>3. CASE j \notin live(p) BY <1>9, <3>1, <3>3
    <3>. QED BY <3>2, <3>3
  <2>3. Good \in SUBSET (0 .. size) OBVIOUS
  <2>. HIDE DEF Good
  <2>4. Good = 0 .. size BY <1>1, <2>1, <2>2, <2>3, RoundByRound
  <2>5. \A j \in 0 .. size : after[j] \in Stacks BY <2>4 DEF Good
  <2>. QED BY <1>8, <2>5
<1>11. FreesElements(p, after) BY <1>2, <1>9, Zenon DEF FreesElements, size
<1>. QED BY <1>10, <1>11 DEF size

ElementPages(p) == {entry[p][k].page : k \in live(p)}

LEMMA ElementsFreed ==
    ASSUME PagesTyped, NEW p \in Page, free \in Seq(Page), IsInjective(free)
    PROVE  /\ freed(p) \in Seq(Page) /\ IsInjective(freed(p))
           /\ Range(freed(p)) = Range(free) \cup ElementPages(p) \cup {p}
<1>1. free \in Stacks BY DEF Stacks
<1>2. PICK after \in [0 .. items[p] -> Stacks] : FreesElements(p, after) BY <1>1, FreeingLoop
<1>3. PICK size \in Nat : size = items[p] BY Numbers DEF PagesTyped
<1>. DEFINE Done(j) == {entry[p][k].page : k \in {k \in live(p) : k <= j}}
            Good == {j \in 0 .. size : Range(after[j]) = Range(free) \cup Done(j)}
<1>4. 0 \in Good
  <2>1. \A k \in live(p) : ~(k <= 0) BY LiveIsSlot DEF Slot
  <2>2. after[0] = free BY <1>2 DEF FreesElements
  <2>. QED BY <2>1, <2>2
<1>5. ASSUME NEW j \in 1 .. size, j - 1 \in Good PROVE j \in Good
  <2>1. Range(after[j - 1]) = Range(free) \cup Done(j - 1) BY <1>5
  <2>2. after[j] = IF j \in live(p) THEN freePage(after[j - 1], entry[p][j].page)
                   ELSE after[j - 1]
    BY <1>2, <1>3 DEF FreesElements
  <2>3. live(p) \subseteq Nat BY LiveIsSlot DEF Slot
  <2>4. \A k \in live(p) : k <= j <=> (k <= j - 1 \/ k = j) BY <2>3
  <2>5. CASE j \in live(p)
    <3>1. entry[p][j].page \in Page BY <2>5, LiveIsSlot DEF Element
    <3>2. after[j - 1] \in Stacks BY <1>3
    <3>3. Range(after[j]) = Range(after[j - 1]) \cup {entry[p][j].page}
      BY <2>2, <2>5, <3>1, <3>2, Pushed DEF Stacks
    <3>4. Done(j) = Done(j - 1) \cup {entry[p][j].page} BY <2>4, <2>5
    <3>5. Range(after[j]) = Range(free) \cup Done(j) BY <2>1, <3>3, <3>4, Zenon
    <3>6. j \in 0 .. size OBVIOUS
    <3>. QED BY <3>5, <3>6, Zenon
  <2>6. CASE j \notin live(p)
    <3>1. Done(j) = Done(j - 1) BY <2>4, <2>6
    <3>. QED BY <2>1, <2>2, <2>6, <3>1
  <2>. QED BY <2>5, <2>6
<1>6. Good \in SUBSET (0 .. size) OBVIOUS
<1>. HIDE DEF Good
<1>7. Good = 0 .. size BY <1>4, <1>5, <1>6, RoundByRound
<1>8. size \in Good BY <1>7
<1>9. \A k \in live(p) : k <= size BY <1>3, LiveIsSlot
<1>10. Done(size) = ElementPages(p) BY <1>9 DEF ElementPages
<1>11. /\ elementsFreed(p) \in Stacks
       /\ Range(elementsFreed(p)) = Range(free) \cup ElementPages(p)
  BY <1>2, <1>3, <1>8, <1>10 DEF Good, FreesElements
<1>. QED BY <1>11, Pushed DEF freed, Stacks

LEMMA removeDirKeeps ==
    ASSUME OneShell, TypeOK, NEW T, NEW depth, Holding(T, depth),
           NEW path \in Path, inFlight # Shell, removeDir(path)
    PROVE  /\ TypeOK'
           /\ \E U : Holding(U, depth)' /\ Unlinks(Nodes(T), Nodes(U)', path)
<1>1. PagesTyped /\ free \in Seq(Page) /\ cmd \in [Shell -> Command] BY TypeParts
<1>2. UNCHANGED <<items, cmd>> BY DEF removeDir
<1>3. raw = {} /\ held = {} /\ inFlight = {} BY Resting
<1>4. raw' = {} /\ held' = {} /\ inFlight' = {} BY <1>2, <1>3, StillResting
<1>5. TreeOf(T, depth) /\ Owned(T) BY DEF Holding
<1>6. found(path) BY DEF removeDir, getDirectoryFromPath, found
<1>7. PICK x \in T \ {RootPage}, d \in T : \E k \in elements(d) :
              /\ pageOf(path) = x /\ entryOf(path) = <<d, k>> /\ entry[d][k].page = x
              /\ x \in Finds(Nodes(T), path)
              /\ \A f \in getElementFromPath(path) : element(f) = entry[d][k]
  BY <1>1, <1>3, <1>5, <1>6, StandsThere
<1>8. PICK k \in elements(d) :
              /\ pageOf(path) = x /\ entryOf(path) = <<d, k>> /\ entry[d][k].page = x
              /\ x \in Finds(Nodes(T), path)
  BY <1>7
<1>9. x \in Page /\ d \in Page /\ k \in Slot /\ T \subseteq Page /\ depth \in [Page -> Nat]
  BY <1>1, <1>5, ElementsAre DEF TreeOf
<1>10. children(x) = ElementPages(x) BY <1>3 DEF children, elements, ElementPages
<1>11. free' = freed(x) BY <1>8 DEF removeDir
<1>12. /\ free' \in Seq(Page) /\ IsInjective(free')
       /\ Range(free') = Range(free) \cup children(x) \cup {x}
  BY <1>1, <1>5, <1>9, <1>10, <1>11, ElementsFreed DEF Owned
<1>13. PICK row \in [Slot -> Element] : row = [j \in Slot |->
                               IF j <= items[x] THEN [entry[x][j] EXCEPT !.deleted = TRUE]
                               ELSE entry[x][j]]
  <2>1. ASSUME NEW j \in Slot
        PROVE  entry[x][j] \in Element /\ [entry[x][j] EXCEPT !.deleted = TRUE] \in Element
    <3>1. PICK old \in Element : old = entry[x][j] BY <1>1, <1>9 DEF PagesTyped
    <3>2. [old EXCEPT !.deleted = TRUE] \in Element BY DEF Element
    <3>. QED BY <3>1, <3>2
  <2>. QED BY <2>1
<1>14. entry' = delete([entry EXCEPT ![x] = row], <<d, k>>)
  BY <1>1, <1>8, <1>9, <1>13 DEF removeDir, PagesTyped
<1>15. PICK ent \in [Page -> [Slot -> Element]] : /\ ent = [entry EXCEPT ![x] = row]
                                                  /\ \A g \in Page : g # x => ent[g] = entry[g]
  BY <1>1, <1>9, <1>13 DEF PagesTyped
<1>16. entry' = delete(ent, <<d, k>>) BY <1>14, <1>15
<1>17. /\ entry' \in [Page -> [Slot -> Element]]
       /\ \A g \in Page, j \in Slot : (g # d \/ j # k) => entry'[g][j] = ent[g][j]
       /\ entry'[d][k].deleted
  BY <1>9, <1>16, Deleted
<1>18. PICK F, L : F = {x} \cup children(x) /\ L = UNION {under(c) \ {c} : c \in children(x)}
  OBVIOUS
<1>19. leaked' = leaked \cup L BY <1>8, <1>18 DEF removeDir
<1>20. children(x) \subseteq T /\ \A c \in children(x) : c \in Page /\ depth[c] = depth[x] + 1
  BY <1>1, <1>5, <1>9, ChildIs
<1>21. F \cup L = under(x)
  <2>1. under(x) = {x} \cup UNION {under(c) : c \in children(x)} BY <1>1, <1>9, UnderSplit
  <2>2. \A c \in children(x) : c \in under(c) BY <1>1, <1>20, UnderIs
  <2>. QED BY <1>18, <2>1, <2>2
<1>22. F \cap L = {}
  <2>. SUFFICES ASSUME NEW y \in F, NEW c \in children(x), y \in under(c), y # c PROVE FALSE
    BY <1>18
  <2>1. y \in T /\ depth[y] > depth[c] BY <1>1, <1>5, <1>20, UnderDeeper
  <2>2. depth[c] = depth[x] + 1 /\ depth[x] \in Nat BY <1>9, <1>20
  <2>3. y = x \/ depth[y] = depth[x] + 1 BY <1>18, <1>20
  <2>. QED BY <2>1, <2>2, <2>3
<1>23. TypeOK'
  <2>1. made' \subseteq Path BY DEF removeDir, forget, TypeOK
  <2>2. under(x) \subseteq Page BY <1>1, <1>9, UnderIs
  <2>3. leaked' \subseteq Page BY <1>19, <1>21, <2>2 DEF TypeOK
  <2>. QED BY <1>1, <1>2, <1>12, <1>17, <2>1, <2>3 DEF TypeOK, Command, Step
<1>24. PICK U : U = T \ under(x) OBVIOUS
<1>25. ASSUME NEW g \in U
       PROVE  /\ live(g)' = {j \in live(g) : ~(g = d /\ j = k)}
              /\ \A j \in live(g)' : entry'[g][j] = entry[g][j]
  <2>1. g \in Page /\ g # x BY <1>1, <1>9, <1>24, UnderIs
  <2>2. live(g) \subseteq Slot /\ 1 .. items[g] \subseteq Slot
    BY <1>1, <2>1, LiveIsSlot, Numbers DEF PagesTyped, Slot
  <2>3. \A j \in Slot : (g # d \/ j # k) => entry'[g][j] = entry[g][j] BY <1>15, <1>17, <2>1
  <2>4. live(g)' = {j \in live(g) : ~(g = d /\ j = k)}
    BY <1>2, <1>17, <2>2, <2>3 DEF live
  <2>5. \A j \in live(g)' : j \in Slot /\ (g # d \/ j # k) BY <2>2, <2>4
  <2>. QED BY <2>3, <2>4, <2>5
<1>26. /\ Range(free') = Range(free) \cup F /\ IsInjective(free')
       /\ entry[d][k].page = x /\ x \in Finds(Nodes(T), path)
  BY <1>8, <1>12, <1>18
<1>27. Removal(T, depth, x, d, k, path, F, L, U)
  BY <1>1, <1>3, <1>4, <1>5, <1>8, <1>19, <1>21, <1>22, <1>24, <1>25, <1>26, Zenon DEF Removal
<1>28. Holding(U, depth)' /\ Unlinks(Nodes(T), Nodes(U)', path) BY <1>27, RemovalKeeps, Zenon
<1>. QED BY <1>23, <1>28

LEMMA NextKeeps ==
    ASSUME OneShell, TypeOK, NEW T, NEW depth, Holding(T, depth), [Next]_vars
    PROVE  /\ TypeOK'
           /\ \E U, h : Holding(U, h)' /\ Moves(Nodes(T), Nodes(U)')
<1>. DEFINE Goal == /\ TypeOK'
                    /\ \E U, h : Holding(U, h)' /\ Moves(Nodes(T), Nodes(U)')
<1>1. ASSUME NEW s \in Shell, NEW path \in Path, mkdir(s, path) PROVE Goal
  <2>1. Begin(s, "dir", path) BY <1>1 DEF mkdir
  <2>2. TypeOK' /\ Holding(T, depth)' /\ Nodes(T)' = Nodes(T) BY <2>1, BeginKeeps
  <2>. QED BY <2>2, Zenon DEF Moves
<1>2. ASSUME NEW s \in Shell, NEW path \in Path, open(s, path) PROVE Goal
  <2>1. Begin(s, "file", path) /\ ~found(path) BY <1>2 DEF open
  <2>2. TypeOK' /\ Holding(T, depth)' /\ Nodes(T)' = Nodes(T) BY <2>1, BeginKeeps
  <2>. QED BY <2>2, Zenon DEF Moves
<1>3. ASSUME NEW s \in Shell, getPage(s) PROVE Goal
  BY <1>3, getPageKeeps, Zenon DEF Moves
<1>4. ASSUME NEW s \in Shell, CopyHeader(s) PROVE Goal
  BY <1>4, CopyHeaderKeeps, Zenon DEF Moves
<1>5. ASSUME NEW s \in Shell, WriteEntry(s) PROVE Goal
  BY <1>5, WriteEntryKeeps, Zenon DEF Moves
<1>6. ASSUME NEW s \in Shell, WriteHeader(s) PROVE Goal
  BY <1>6, WriteHeaderKeeps, Zenon DEF Moves
<1>7. ASSUME NEW s \in Shell, MakeHeader(s) PROVE Goal
  BY <1>7, MakeHeaderKeeps, Zenon DEF Moves
<1>8. ASSUME NEW path \in Path, rm(path) PROVE Goal
  <2>1. inFlight # Shell BY <1>8 DEF rm
  <2>2. TypeOK' /\ \E U : Holding(U, depth)' /\ Unlinks(Nodes(T), Nodes(U)', path)
    <3>1. CASE removeFile(path) BY <2>1, <3>1, removeFileKeeps
    <3>2. CASE removeDir(path) BY <2>1, <3>2, removeDirKeeps
    <3>. QED BY <1>8, <3>1, <3>2 DEF rm
  <2>. QED BY <2>2, Zenon DEF Moves
<1>9. CASE UNCHANGED vars
  <2>1. UNCHANGED <<free, items, entry, cmd, made, leaked>> BY <1>9 DEF vars
  <2>2. TypeOK' BY <2>1 DEF TypeOK
  <2>3. raw' = raw /\ held' = held /\ inFlight' = inFlight BY <2>1 DEF raw, held, inFlight
  <2>4. \A d : live(d)' = live(d) BY <2>1, SamePages
  <2>5. \A d : elements(d)' = elements(d) BY <2>1, <2>3, <2>4 DEF elements
  <2>6. TreeOf(T, depth)'
    <3>1. TreeOf(T, depth) BY DEF Holding
    <3>2. ASSUME NEW d \in T PROVE LeadsOn(T, depth, d)'
      <4>1. ASSUME NEW k \in elements(d)', NEW y, y = entry'[d][k].page,
                   entry'[d][k].type = "file"
            PROVE  live(y)' = {}
        BY <2>1, <2>4, <2>5, <3>1, <4>1 DEF TreeOf, LeadsOn
      <4>. QED BY <2>1, <2>5, <3>1, <4>1 DEF TreeOf, LeadsOn
    <3>3. \A y : Entered(T, y)' <=> Entered(T, y) BY <2>1, <2>5 DEF Entered
    <3>. QED BY <2>1, <2>3, <2>4, <2>5, <3>1, <3>2, <3>3 DEF TreeOf
  <2>7. Nodes(T)' = Nodes(T)
    <3>1. T \subseteq Page BY DEF Holding, TreeOf
    <3>. QED BY <2>1, <2>5, <3>1, NodesStay
  <2>8. Owned(T)' BY <2>1, <2>3 DEF Holding, Owned
  <2>9. \A s \in inFlight' : AtWork(T, cmd[s])'
    BY <2>1, <2>3, <2>4, <2>7 DEF Holding, AtWork, Written
  <2>. QED BY <2>2, <2>6, <2>7, <2>8, <2>9 DEF Holding, Moves
<1>. QED BY <1>1, <1>2, <1>3, <1>4, <1>5, <1>6, <1>7, <1>8, <1>9, Zenon DEF Next

\* What FileTree is told, in the state and behind the step.
Seen == {[id |-> element(e).page, in |-> e[1], at |-> e[2],
          name |-> element(e).name, kind |-> element(e).type] : e \in reachable}

LEMMA SeenIs ==
    \A T, depth : TypeOK /\ Holding(T, depth) => Seen = Nodes(T)
<1>. SUFFICES ASSUME NEW T, NEW depth, TypeOK, Holding(T, depth) PROVE Seen = Nodes(T)
  OBVIOUS
<1>1. under(RootPage) = T BY UnderRoot, TypeParts DEF Holding
<1>2. reachable = Spots(T) BY <1>1, Zenon DEF reachable, Spots
<1>. QED BY <1>2, Zenon DEF Seen, Nodes, NodeOf

LEMMA NextIInv ==
    ASSUME OneShell
    PROVE  IInv /\ [Next]_vars => IInv' /\ [Tree!Next]_Seen
<1>1. (\A T, depth : TypeOK /\ Holding(T, depth) => Seen = Nodes(T))'
  BY SeenIs, PTL
<1>. SUFFICES ASSUME IInv, [Next]_vars PROVE IInv' /\ [Tree!Next]_Seen OBVIOUS
<1>2. PICK T, depth : TypeOK /\ Holding(T, depth) BY DEF IInv
<1>3. PICK U, h : TypeOK' /\ Holding(U, h)' /\ Moves(Nodes(T), Nodes(U)')
  BY <1>2, NextKeeps
<1>4. Seen = Nodes(T) /\ Seen' = Nodes(U)' BY <1>1, <1>2, <1>3, SeenIs, Zenon
<1>5. Moves(Seen, Seen') BY <1>3, <1>4, Zenon
<1>6. [Tree!Next]_Seen
  <2>1. \A q : Tree!Front(q) = Front(q) /\ Tree!Last(q) = Last(q)
    BY Zenon DEF Front, Tree!Front, Last, Tree!Last
  <2>2. \A dir, name : Tree!first(dir, name) = First(Seen, dir, name)
    BY Zenon DEF First, Tree!first, Seen
  <2>3. \A q : Tree!find(q) = Finds(Seen, q)
    BY Zenon DEF Finds, Tree!find, First, Tree!first, Seen
  <2>4. \A top : Tree!below(top) = Below(Seen, top) BY Zenon DEF Below, Tree!below, Seen
  <2>5. ASSUME NEW q \in Path, NEW op \in {"dir", "file"}, Creates(Seen, Seen', q, op)
        PROVE  Tree!Create(q, op)
    BY <2>1, <2>3, <2>5, Zenon DEF Creates, Tree!Create, Tree!isFile, Seen
  <2>6. ASSUME NEW q \in Path, Unlinks(Seen, Seen', q) PROVE Tree!Unlink(q)
    BY <2>3, <2>4, <2>6, Zenon DEF Unlinks, Tree!Unlink, Seen
  <2>. QED BY <1>5, <2>5, <2>6, Zenon DEF Moves, Tree!Next
<1>7. IInv' BY <1>3, Zenon DEF IInv
<1>. QED BY <1>6, <1>7

-----------------------------------------------------------------------------
(* The theorems.                                                           *)

LEMMA Invariance == ASSUME OneShell PROVE Spec => []IInv
<1>1. IInv /\ [Next]_vars => IInv' BY NextIInv
<1>2. Init => IInv BY InitHolding DEF IInv
<1>. QED BY <1>1, <1>2, PTL DEF Spec

\* What elements and commands point to are pages, and counts are within the
\* bound at which the commands stop.
LEMMA TypeCorrect == ASSUME OneShell PROVE Spec => []TypeOK
<1>1. IInv => TypeOK BY DEF IInv
<1>. QED BY Invariance, <1>1, PTL

\* No two elements lead to one page, though names may be the same, and the
\* stack holds no page of the tree and none twice, however pages are recycled
\* by removeFile and removeDir.
THEOREM OwnersUnique == ASSUME OneShell PROVE Spec => []OnePageOneOwner
<1>1. IInv => OnePageOneOwner
  <2>. SUFFICES ASSUME IInv PROVE OnePageOneOwner OBVIOUS
  <2>1. PICK T, depth : TypeOK /\ Holding(T, depth) BY DEF IInv
  <2>2. PagesTyped /\ free \in Seq(Page) /\ TreeOf(T, depth) /\ Owned(T)
    BY <2>1, TypeParts DEF Holding
  <2>3. under(RootPage) = T BY <2>2, UnderRoot
  <2>4. ASSUME NEW e \in reachable
        PROVE  \E d \in T : \E k \in elements(d) :
                  e = <<d, k>> /\ k \in live(d) /\ element(e).page = entry[d][k].page
                  /\ entry[d][k].page \in T \ {RootPage}
    <3>1. PICK d \in T, k \in Slot : e = <<d, k>> /\ k \in elements(d) BY <2>3 DEF reachable
    <3>2. T \subseteq Page BY <2>2 DEF TreeOf
    <3>3. element(<<d, k>>) = entry[d][k] BY <2>2, <3>1, <3>2, NodeIs
    <3>4. entry[d][k].page \in T \ {RootPage} BY <2>2, <3>1 DEF TreeOf, LeadsOn
    <3>. QED BY <3>1, <3>3, <3>4 DEF elements
  <2>5. ASSUME NEW e \in reachable, NEW f \in reachable, element(e).page = element(f).page
        PROVE  e = f
    <3>1. \A d1, e1 \in T : \A k1 \in live(d1), j1 \in live(e1) :
              entry[d1][k1].page = entry[e1][j1].page => d1 = e1 /\ k1 = j1
      BY <2>2 DEF TreeOf
    <3>. QED BY <2>4, <2>5, <3>1
  <2>6. RootPage \notin Range(free) BY <2>2 DEF Owned, TreeOf
  <2>7. \A e \in reachable : element(e).page \notin Range(free) \cup {RootPage}
    BY <2>2, <2>4 DEF Owned
  <2>8. Cardinality(Range(free)) = Len(free)
    <3>1. PICK n \in Nat : n = Len(free) BY <2>2
    <3>2. DOMAIN free = 1 .. n /\ IsInjective(free) BY <2>2, <3>1, LenProperties DEF Owned
    <3>3. PICK S : S = Range(free) OBVIOUS
    <3>4. free \in [1 .. n -> S] /\ \A y \in S : \E i \in 1 .. n : free[i] = y
      BY <2>2, <3>1, <3>2, <3>3 DEF Range
    <3>5. free \in Bijection(1 .. n, S) BY <3>2, <3>4 DEF Bijection, Injection, Surjection
    <3>6. Cardinality(S) = n BY <3>5, FS_CountingElements DEF ExistsBijection
    <3>. QED BY <3>1, <3>3, <3>6
  <2>. QED BY <2>5, <2>6, <2>7, <2>8 DEF OnePageOneOwner
<1>. QED BY Invariance, <1>1, PTL

\* Between two commands every page is free, in the tree, or was lost by an
\* rm -r that does not go down: a name made twice loses none.
THEOREM NoOtherPageLost == ASSUME OneShell PROVE Spec => []PagesAccounted
<1>1. IInv => PagesAccounted
  <2>. SUFFICES ASSUME IInv PROVE PagesAccounted OBVIOUS
  <2>1. PICK T, depth : TypeOK /\ Holding(T, depth) BY DEF IInv
  <2>2. PagesTyped /\ TreeOf(T, depth) /\ Owned(T) BY <2>1, TypeParts DEF Holding
  <2>3. under(RootPage) = T BY <2>2, UnderRoot
  <2>4. inFlight = {} => raw = {} /\ held = {} BY DEF raw, held, inFlight
  <2>5. inFlight = {} => Page = Range(free) \cup T \cup leaked BY <2>2, <2>4 DEF Owned
  <2>6. leaked \cap (Range(free) \cup T) = {} BY <2>2 DEF Owned
  <2>. QED BY <2>3, <2>5, <2>6 DEF PagesAccounted
<1>. QED BY Invariance, <1>1, PTL

\* What the pages hold is a tree, and mkdir, open, rm and rm -r have on it the
\* effect that FileTree says, at once and no other.
THEOREM Implements == ASSUME OneShell PROVE Spec => IsATree
<1>1. Init => Tree!Init
  <2>. SUFFICES ASSUME Init PROVE Seen = {} BY DEF Tree!Init, Seen
  <2>1. PICK T, depth : TypeOK /\ Holding(T, depth) /\ Nodes(T) = {}
    BY InitHolding
  <2>. QED BY <2>1, SeenIs
<1>2. IInv /\ [Next]_vars => [Tree!Next]_Seen BY NextIInv
<1>3. Spec => [][Tree!Next]_Seen BY Invariance, <1>2, PTL DEF Spec
<1>. QED BY <1>1, <1>3, PTL DEF IsATree, Tree!Spec, Seen, Spec

=============================================================================
