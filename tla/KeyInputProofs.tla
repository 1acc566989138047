---------------------------- MODULE KeyInputProofs ----------------------------
(***************************************************************************)
(* The circular buffer of a terminal is a queue: for any number of         *)
(* terminals and any size of the buffer, whatever interrupts fall into     *)
(* sysread, the keys are read in order and the semaphore counts them,      *)
(* until a key is dropped.                                                 *)
(***************************************************************************)
EXTENDS KeyInput, TLAPS

\* How many places are filled, and the j-th of them, without the "%".
Filled(b) == IF b.tail >= b.head THEN b.tail - b.head ELSE b.tail - b.head + BufferSize
Place(b, j) == IF b.head + j < BufferSize THEN b.head + j ELSE b.head + j - BufferSize

Wakes(b) == IF b.reader \in {"granted", "loaded"} THEN b.value + 1 ELSE b.value

\* A buffer that holds the keys n + 1 .. m, those typed and not yet read.
Holds(b, n, m) ==
    /\ m = n + Filled(b)
    /\ Filled(b) = Wakes(b)
    /\ b.reader = "loaded" => b.key = n + 1
    /\ \A j \in 0 .. Filled(b) - 1 : b.buffer[Place(b, j)] = n + 1 + j

InOrder(keys) == \A n \in DOMAIN keys : keys[n] = n

Queue ==
    \A t \in Tty : ~dropped[t] => Holds(term[t], Len(got[t]), typed[t]) /\ InOrder(got[t])

IInv == TypeOK /\ Queue

Descriptor == [buffer : [Index -> Nat], head : Index, tail : Index, value : Nat,
               reader : {"user", "asleep", "granted", "loaded"}, key : Nat]

-----------------------------------------------------------------------------
(* One descriptor.                                                         *)

LEMMA SuccIsIndex == ASSUME NEW x \in Index PROVE Succ(x) \in Index
BY KeyInputAssumption DEF Succ, Index

LEMMA StoreHasType ==
    ASSUME NEW b \in Descriptor, NEW k \in Nat
    PROVE  store(b, k) \in Descriptor
BY SuccIsIndex DEF store, Descriptor

LEMMA AddHasType ==
    ASSUME NEW b \in Descriptor, NEW k \in Nat
    PROVE  bufferAdd(b, k) \in Descriptor
<1>1. store(b, k) \in Descriptor BY StoreHasType
<1>2. ASSUME NEW c \in Descriptor PROVE semInc(c) \in Descriptor BY DEF semInc, Descriptor
<1>. QED BY <1>1, <1>2 DEF bufferAdd

\* A key that is not dropped goes behind those the buffer holds, and wakes or
\* is counted, but not both.
LEMMA AddHolds ==
    ASSUME NEW b \in Descriptor, NEW n \in Nat, NEW m \in Nat,
           Holds(b, n, m), ~isBufferFull(b)
    PROVE  Holds(bufferAdd(b, m + 1), n, m + 1)
<1>. DEFINE c == store(b, m + 1)
            d == semInc(c)
<1>1. c = [b EXCEPT !.buffer = [b.buffer EXCEPT ![b.tail] = m + 1], !.tail = Succ(b.tail)]
  BY DEF store, Descriptor
<1>2. /\ c.buffer = [b.buffer EXCEPT ![b.tail] = m + 1]
      /\ c.head = b.head /\ c.tail = Succ(b.tail) /\ c.value = b.value
      /\ c.reader = b.reader /\ c.key = b.key
  BY <1>1 DEF Descriptor
<1>3. /\ d.buffer = c.buffer /\ d.head = c.head /\ d.tail = c.tail /\ d.key = c.key
      /\ IF c.reader = "asleep" THEN d.reader = "granted" /\ d.value = c.value
         ELSE d.reader = c.reader /\ d.value = c.value + 1
  <2>1. c \in Descriptor BY StoreHasType
  <2>. HIDE DEF c
  <2>. QED BY <2>1 DEF semInc, Descriptor
<1>4. /\ b.head \in Index /\ b.tail \in Index /\ b.value \in Nat
      /\ BufferSize \in Nat /\ BufferSize >= 2
      /\ b.buffer \in [Index -> Nat]
  BY KeyInputAssumption DEF Descriptor
<1>. HIDE DEF c, d
<1>5. Filled(d) = Filled(b) + 1 /\ Filled(b) \in Nat /\ Filled(b) < BufferSize
  <2>1. d.head = b.head /\ d.tail = Succ(b.tail) BY <1>2, <1>3, Zenon
  <2>2. b.head \in Int /\ b.tail \in Int /\ Succ(b.tail) # b.head
    BY <1>4 DEF Index, isBufferFull
  <2>. DEFINE h == b.head
              e == b.tail
  <2>3. h \in 0 .. BufferSize - 1 /\ e \in 0 .. BufferSize - 1 BY <1>4 DEF Index
  <2>4. Filled(b) = IF e >= h THEN e - h ELSE e - h + BufferSize BY DEF Filled
  <2>5. Filled(d) = IF Succ(e) >= h THEN Succ(e) - h ELSE Succ(e) - h + BufferSize
    BY <2>1, Zenon DEF Filled
  <2>6. Succ(e) # h /\ Succ(e) = IF e = BufferSize - 1 THEN 0 ELSE e + 1
    BY <2>2 DEF Succ
  <2>. HIDE DEF h, e
  <2>. QED BY <1>4, <2>3, <2>4, <2>5, <2>6
<1>6. Wakes(d) = Wakes(b) + 1
  BY <1>2, <1>3, <1>4, SMT DEF Wakes
<1>7. ASSUME NEW j \in 0 .. Filled(d) - 1 PROVE d.buffer[Place(d, j)] = n + 1 + j
  <2>1. Place(d, j) = Place(b, j) /\ Place(b, j) \in Index
    <3>1. Place(d, j) = Place(b, j) BY <1>2, <1>3, Zenon DEF Place
    <3>2. j \in Nat /\ j < BufferSize BY <1>4, <1>5
    <3>. QED BY <1>4, <3>1, <3>2 DEF Place, Index
  <2>2. CASE j = Filled(b)
    <3>1. Place(b, j) = b.tail BY <1>4, <2>2, SMT DEF Place, Filled, Index
    <3>2. m + 1 = n + 1 + j BY <1>5, <2>2 DEF Holds
    <3>. QED BY <1>2, <1>3, <1>4, <2>1, <3>1, <3>2
  <2>3. CASE j # Filled(b)
    <3>1. j \in 0 .. Filled(b) - 1 BY <1>5, <2>3
    <3>2. Place(b, j) # b.tail BY <1>4, <3>1, SMT DEF Place, Filled, Index
    <3>3. b.buffer[Place(b, j)] = n + 1 + j BY <3>1 DEF Holds
    <3>. QED BY <1>2, <1>3, <1>4, <2>1, <3>2, <3>3
  <2>. QED BY <2>2, <2>3
<1>8. d.reader = "loaded" => d.key = n + 1
  BY <1>2, <1>3 DEF Holds
<1>9. m + 1 = n + Filled(d) /\ Filled(d) = Wakes(d) BY <1>5, <1>6 DEF Holds
<1>10. bufferAdd(b, m + 1) = d BY DEF bufferAdd, c, d
<1>. QED BY <1>7, <1>8, <1>9, <1>10 DEF Holds

\* What SemDec, Load and Return make of the descriptor.
Taken(b) == IF b.value > 0 THEN [b EXCEPT !.value = b.value - 1, !.reader = "granted"]
            ELSE [b EXCEPT !.reader = "asleep"]
Loaded(b) == [b EXCEPT !.key = b.buffer[b.head], !.reader = "loaded"]
Returned(b) == [advance(b) EXCEPT !.reader = "user", !.key = Nothing]

\* semDec takes a wake or falls asleep; the reader that has one takes the key.
LEMMA TakeHolds ==
    ASSUME NEW b \in Descriptor, b.reader = "user"
    PROVE  /\ Taken(b) \in Descriptor
           /\ \A n \in Nat, m \in Nat : Holds(b, n, m) => Holds(Taken(b), n, m)
<1>. DEFINE c == Taken(b)
<1>1. b.value \in Nat BY DEF Descriptor
<1>2. c \in Descriptor
  <2>1. CASE b.value > 0
    <3>1. b.value - 1 \in Nat BY <1>1, <2>1
    <3>. QED BY <2>1, <3>1 DEF Descriptor, Taken
  <2>2. CASE ~(b.value > 0) BY <2>2 DEF Descriptor, Taken
  <2>. QED BY <2>1, <2>2
<1>3. /\ c.buffer = b.buffer /\ c.head = b.head /\ c.tail = b.tail
      /\ c.reader \in {"granted", "asleep"} /\ Wakes(c) = Wakes(b)
  BY <1>1 DEF Descriptor, Wakes, Taken
<1>. HIDE DEF c
<1>4. Filled(c) = Filled(b) BY <1>3, Zenon DEF Filled
<1>5. \A j : c.buffer[Place(c, j)] = b.buffer[Place(b, j)] BY <1>3, Zenon DEF Place
<1>6. c.reader # "loaded" BY <1>3
<1>7. ASSUME NEW n \in Nat, NEW m \in Nat, Holds(b, n, m) PROVE Holds(c, n, m)
  BY <1>3, <1>4, <1>5, <1>6, <1>7 DEF Holds
<1>. QED BY <1>2, <1>7 DEF c

LEMMA LoadHolds ==
    ASSUME NEW b \in Descriptor, b.reader = "granted"
    PROVE  /\ Loaded(b) \in Descriptor
           /\ \A n \in Nat, m \in Nat : Holds(b, n, m) => Holds(Loaded(b), n, m)
<1>. DEFINE c == Loaded(b)
<1>1. c \in Descriptor BY DEF Descriptor, Loaded
<1>2. /\ c.buffer = b.buffer /\ c.head = b.head /\ c.tail = b.tail
      /\ c.key = b.buffer[b.head] /\ Wakes(c) = Wakes(b)
  BY DEF Descriptor, Wakes, Loaded
<1>. HIDE DEF c
<1>3. ASSUME NEW n \in Nat, NEW m \in Nat, Holds(b, n, m) PROVE b.buffer[b.head] = n + 1
  <2>1. b.head \in Index /\ b.tail \in Index /\ b.value \in Nat BY DEF Descriptor
  <2>2. Filled(b) \in Nat /\ Filled(b) > 0
    BY <1>3, <2>1, KeyInputAssumption DEF Holds, Wakes, Filled, Index
  <2>3. Place(b, 0) = b.head BY <2>1, KeyInputAssumption DEF Place, Index
  <2>4. b.buffer[Place(b, 0)] = n + 1 + 0 BY <1>3, <2>2 DEF Holds
  <2>. QED BY <2>3, <2>4
<1>4. Filled(c) = Filled(b) BY <1>2, Zenon DEF Filled
<1>5. \A j : c.buffer[Place(c, j)] = b.buffer[Place(b, j)] BY <1>2, Zenon DEF Place
<1>6. ASSUME NEW n \in Nat, NEW m \in Nat, Holds(b, n, m) PROVE Holds(c, n, m)
  BY <1>2, <1>3, <1>4, <1>5, <1>6 DEF Holds
<1>. QED BY <1>1, <1>6 DEF c

\* The new head leaves the first key to the reader.
LEMMA ReturnHolds ==
    ASSUME NEW b \in Descriptor, b.reader = "loaded"
    PROVE  /\ Returned(b) \in Descriptor
           /\ \A n \in Nat, m \in Nat :
                 Holds(b, n, m) => Holds(Returned(b), n + 1, m) /\ b.key = n + 1
<1>. DEFINE c == Returned(b)
<1>1. c \in Descriptor BY SuccIsIndex DEF Descriptor, advance, Nothing, Returned
<1>2. /\ c.buffer = b.buffer /\ c.head = Succ(b.head) /\ c.tail = b.tail
      /\ c.reader = "user" /\ c.value = b.value
  BY DEF Descriptor, advance, Returned
<1>. HIDE DEF c
<1>3. /\ b.head \in Index /\ b.tail \in Index /\ b.value \in Nat /\ BufferSize \in Nat
  BY KeyInputAssumption DEF Descriptor
<1>4. ASSUME NEW n \in Nat, NEW m \in Nat, Holds(b, n, m)
      PROVE  Holds(c, n + 1, m) /\ b.key = n + 1
  <2>1. Filled(b) = b.value + 1 BY <1>4 DEF Holds, Wakes
  <2>2. Filled(c) = Filled(b) - 1
    BY <1>2, <1>3, <2>1, SMT DEF Filled, Succ, Index
  <2>3. ASSUME NEW j \in 0 .. Filled(c) - 1
        PROVE  c.buffer[Place(c, j)] = n + 1 + 1 + j
    <3>1. Place(c, j) = Place(b, j + 1)
      BY <1>2, <1>3, <2>1, <2>2, SMT DEF Place, Succ, Index, Filled
    <3>2. j + 1 \in 0 .. Filled(b) - 1 BY <1>3, <2>1, <2>2
    <3>3. b.buffer[Place(b, j + 1)] = n + 1 + (j + 1) BY <1>4, <3>2 DEF Holds
    <3>. QED BY <1>2, <3>1, <3>3
  <2>4. m = (n + 1) + Filled(c) /\ Filled(c) = Wakes(c)
    BY <1>2, <1>3, <1>4, <2>1, <2>2 DEF Holds, Wakes
  <2>. QED BY <1>2, <1>4, <2>3, <2>4 DEF Holds
<1>. QED BY <1>1, <1>4 DEF c

-----------------------------------------------------------------------------
(* The invariant.                                                          *)

LEMMA Types ==
    TypeOK <=> /\ term \in [Tty -> Descriptor]
               /\ active \in Tty /\ control \in BOOLEAN /\ pasting \in 0 .. MaxPaste
               /\ typed \in [Tty -> 0 .. MaxKeys]
               /\ dropped \in [Tty -> BOOLEAN]
               /\ got \in [Tty -> Seq(Nat)]
BY DEF TypeOK, Descriptor

LEMMA InitIInv == Init => IInv
<1> SUFFICES ASSUME Init PROVE IInv OBVIOUS
<1>1. opened \in Descriptor BY KeyInputAssumption DEF opened, Descriptor, Index, Nothing
<1>2. TypeOK BY <1>1, Types, KeyInputAssumption DEF Init, WorkPage
<1>3. Holds(opened, 0, 0)
  BY KeyInputAssumption DEF Holds, opened, Filled, Wakes
<1>4. InOrder(<< >>) /\ Len(<< >>) = 0 BY DEF InOrder
<1>. QED BY <1>2, <1>3, <1>4 DEF Init, IInv, Queue

LEMMA AddIInv ==
    ASSUME IInv, Add PROVE
        /\ term' \in [Tty -> Descriptor] /\ typed' \in [Tty -> 0 .. MaxKeys]
        /\ dropped' \in [Tty -> BOOLEAN] /\ got' \in [Tty -> Seq(Nat)] /\ Queue'
<1>. DEFINE b == term[active]
            k == typed[active] + 1
<1>0. /\ term \in [Tty -> Descriptor] /\ active \in Tty /\ typed \in [Tty -> 0 .. MaxKeys]
      /\ dropped \in [Tty -> BOOLEAN] /\ got \in [Tty -> Seq(Nat)]
      /\ MaxKeys \in Nat
  BY Types, KeyInputAssumption DEF IInv
<1>1. b \in Descriptor /\ k \in Nat /\ k - 1 \in Nat BY <1>0
<1>2. /\ term' = [term EXCEPT ![active] = bufferAdd(b, k)]
      /\ typed' = [typed EXCEPT ![active] = k] /\ got' = got
      /\ dropped' = [dropped EXCEPT ![active] = dropped[active] \/ isBufferFull(b)]
      /\ k <= MaxKeys
  BY <1>0 DEF Add
<1>3. bufferAdd(b, k) \in Descriptor BY <1>1, AddHasType
<1>4. isBufferFull(b) \in BOOLEAN BY DEF isBufferFull
<1>5. ASSUME NEW t \in Tty, ~dropped'[t]
      PROVE  Holds(term'[t], Len(got'[t]), typed'[t]) /\ InOrder(got'[t])
  <2>1. ~dropped[t] /\ (t = active => ~isBufferFull(b)) BY <1>0, <1>2, <1>5, Zenon
  <2>2. Holds(term[t], Len(got[t]), typed[t]) /\ InOrder(got[t]) BY <2>1 DEF IInv, Queue
  <2>3. CASE t # active BY <1>0, <1>2, <2>2, <2>3
  <2>4. CASE t = active
    <3>1. Len(got[t]) \in Nat BY <1>0
    <3>2. Holds(bufferAdd(b, (k - 1) + 1), Len(got[t]), (k - 1) + 1)
      BY <1>0, <1>1, <2>1, <2>2, <2>4, <3>1, AddHolds
    <3>3. (k - 1) + 1 = k BY <1>1
    <3>4. term'[t] = bufferAdd(b, k) /\ typed'[t] = k BY <1>0, <1>2, <2>4
    <3>. QED BY <1>2, <2>2, <3>2, <3>3, <3>4
  <2>. QED BY <2>3, <2>4
<1>6. Queue' BY <1>5 DEF Queue
<1>7. term' \in [Tty -> Descriptor] /\ typed' \in [Tty -> 0 .. MaxKeys] /\ got' \in [Tty -> Seq(Nat)]
  BY <1>0, <1>1, <1>2, <1>3
<1>8. dropped' \in [Tty -> BOOLEAN] BY <1>0, <1>2, <1>4, Zenon
<1>. QED BY <1>6, <1>7, <1>8

\* One descriptor changes and nobody types.
LEMMA ReadIInv ==
    ASSUME IInv, NEW t \in Tty, sysread(t) PROVE IInv'
<1>0. /\ term \in [Tty -> Descriptor] /\ typed \in [Tty -> 0 .. MaxKeys]
      /\ dropped \in [Tty -> BOOLEAN] /\ got \in [Tty -> Seq(Nat)] /\ MaxKeys \in Nat
  BY Types, KeyInputAssumption DEF IInv
<1>1. Len(got[t]) \in Nat /\ typed[t] \in Nat /\ term[t] \in Descriptor BY <1>0
<1>2. CASE SemDec(t) \/ Load(t)
  <2>1. PICK c \in Descriptor :
           /\ term' = [term EXCEPT ![t] = c]
           /\ \A n \in Nat, m \in Nat : Holds(term[t], n, m) => Holds(c, n, m)
    <3>1. CASE SemDec(t)
      <4>. DEFINE c == Taken(term[t])
      <4>1. term' = [term EXCEPT ![t] = c] /\ term[t].reader = "user"
        BY <1>0, <3>1 DEF SemDec, Taken
      <4>2. c \in Descriptor
            /\ \A n \in Nat, m \in Nat : Holds(term[t], n, m) => Holds(c, n, m)
        BY <1>1, <4>1, TakeHolds
      <4>. QED BY <4>1, <4>2
    <3>2. CASE Load(t)
      <4>. DEFINE c == Loaded(term[t])
      <4>1. term' = [term EXCEPT ![t] = c] /\ term[t].reader = "granted"
        BY <1>0, <3>2 DEF Load, Loaded
      <4>2. c \in Descriptor
            /\ \A n \in Nat, m \in Nat : Holds(term[t], n, m) => Holds(c, n, m)
        BY <1>1, <4>1, LoadHolds
      <4>. QED BY <4>1, <4>2
    <3>. QED BY <1>2, <3>1, <3>2
  <2>2. UNCHANGED <<active, control, pasting, typed, dropped, got>>
    BY <1>2 DEF SemDec, Load, history
  <2>3. TypeOK' BY <1>0, <2>1, <2>2, Types DEF IInv, TypeOK, Descriptor
  <2>4. Queue' BY <1>0, <1>1, <2>1, <2>2 DEF IInv, Queue
  <2>. QED BY <2>3, <2>4 DEF IInv
<1>3. CASE Return(t)
  <2>. DEFINE c == Returned(term[t])
  <2>1. /\ term' = [term EXCEPT ![t] = c] /\ term[t].reader = "loaded"
        /\ got' = [got EXCEPT ![t] = Append(got[t], term[t].key)]
        /\ UNCHANGED <<active, control, pasting, typed, dropped>>
    BY <1>0, <1>3 DEF Return, Returned
  <2>2. /\ c \in Descriptor
        /\ \A n \in Nat, m \in Nat :
              Holds(term[t], n, m) => Holds(c, n + 1, m) /\ term[t].key = n + 1
    BY <1>1, <2>1, ReturnHolds
  <2>. HIDE DEF c
  <2>3. term[t].key \in Nat BY <1>1 DEF Descriptor
  <2>4. TypeOK'
    <3>1. term' \in [Tty -> Descriptor] BY <1>0, <2>1, <2>2
    <3>2. got' \in [Tty -> Seq(Nat)] BY <1>0, <2>1, <2>3
    <3>. QED BY <2>1, <3>1, <3>2 DEF IInv, TypeOK, Descriptor
  <2>5. ASSUME NEW u \in Tty, ~dropped'[u]
        PROVE  Holds(term'[u], Len(got'[u]), typed'[u]) /\ InOrder(got'[u])
    <3>1. Holds(term[u], Len(got[u]), typed[u]) /\ InOrder(got[u])
      BY <2>1, <2>5 DEF IInv, Queue
    <3>2. CASE u # t BY <1>0, <2>1, <3>1, <3>2
    <3>3. CASE u = t
      <4>1. /\ term'[u] = c /\ typed'[u] = typed[t] /\ got'[u] = Append(got[t], term[t].key)
        BY <1>0, <2>1, <3>3
      <4>2. Holds(c, Len(got[t]) + 1, typed[t]) /\ term[t].key = Len(got[t]) + 1
        BY <1>1, <2>2, <3>1, <3>3
      <4>3. got[t] \in Seq(Nat) BY <1>0
      <4>4. Len(got'[u]) = Len(got[t]) + 1 BY <2>3, <4>1, <4>3
      <4>5. InOrder(got'[u]) BY <2>3, <3>1, <3>3, <4>1, <4>2, <4>3 DEF InOrder
      <4>. QED BY <4>1, <4>2, <4>4, <4>5
    <3>. QED BY <3>2, <3>3
  <2>6. Queue' BY <2>5 DEF Queue
  <2>. QED BY <2>4, <2>6 DEF IInv
<1>. QED BY <1>2, <1>3 DEF sysread

LEMMA NextIInv == IInv /\ [Next]_vars => IInv'
<1> SUFFICES ASSUME IInv, [Next]_vars PROVE IInv' OBVIOUS
<1>0. TypeOK BY DEF IInv
<1>1. CASE UNCHANGED vars
  BY <1>1 DEF vars, history, IInv, TypeOK, Queue, InOrder
<1>2. ASSUME NEW pressed \in BOOLEAN, specialKey(pressed) PROVE IInv'
  BY <1>2 DEF specialKey, history, IInv, TypeOK, Queue
<1>3. CASE keyboardRoutine
  <2>1. Add /\ UNCHANGED <<active, control, pasting>> BY <1>3 DEF keyboardRoutine
  <2>. QED BY <1>0, <2>1, AddIInv, Types DEF IInv, TypeOK, Descriptor
<1>4. ASSUME NEW n \in 1 .. MaxPaste, RightClick(n) PROVE IInv'
  BY <1>4 DEF RightClick, history, IInv, TypeOK, Queue
<1>5. CASE clipboardPaste
  <2>1. pasting' \in 0 .. MaxPaste /\ UNCHANGED <<active, control>>
    <3>1. pasting \in 0 .. MaxPaste /\ MaxPaste \in Nat
      BY <1>0, KeyInputAssumption DEF TypeOK
    <3>2. pasting > 0 /\ pasting' = pasting - 1 /\ UNCHANGED <<active, control>>
      BY <1>5 DEF clipboardPaste
    <3>. QED BY <3>1, <3>2
  <2>2. CASE Add BY <1>0, <2>1, <2>2, AddIInv, Types DEF IInv, TypeOK, Descriptor
  <2>3. CASE UNCHANGED <<term, history>>
    BY <2>1, <2>3 DEF history, IInv, TypeOK, Queue
  <2>. QED BY <1>5, <2>2, <2>3 DEF clipboardPaste
<1>6. ASSUME NEW t \in Tty, ttySetActive(t) PROVE IInv'
  BY <1>6 DEF ttySetActive, history, IInv, TypeOK, Queue
<1>. QED BY <1>1, <1>2, <1>3, <1>4, <1>5, <1>6, ReadIInv DEF Next

\* The queue between interrupt and reader keeps its shape under every
\* interleaving of keys, pastes, changes of terminal and reads (bufferAdd,
\* sysread): the invariant the theorems below follow from.
THEOREM Invariance == Spec => []IInv
BY InitIInv, NextIInv, PTL DEF Spec

-----------------------------------------------------------------------------
\* The indices of every buffer stay inside it, for every size (bufferAdd,
\* bufferRead).
THEOREM TypeCorrect == Spec => []TypeOK
<1>1. IInv => TypeOK BY DEF IInv
<1>. QED BY Invariance, <1>1, PTL

LEMMA PendingIsFilled ==
    ASSUME TypeOK, NEW t \in Tty PROVE pending(t) = Filled(term[t])
<1>1. term[t].head \in Index /\ term[t].tail \in Index BY DEF TypeOK
<1>2. ASSUME NEW h \in Index, NEW x \in Index
      PROVE  (x + BufferSize - h) % BufferSize = IF x >= h THEN x - h ELSE x - h + BufferSize
  BY KeyInputAssumption, SMT DEF Index
<1>. QED BY <1>1, <1>2 DEF pending, Filled

\* Until a buffer overflows its semaphore counts the keys in it: whoever
\* semDec lets through finds a key, and nobody sleeps beside one.
THEOREM WakesCorrect == Spec => []WakesAreKeys
<1>1. IInv => WakesAreKeys
  <2> SUFFICES ASSUME IInv, NEW t \in Tty, ~dropped[t]
               PROVE  pending(t) = term[t].value + owed(t)
    BY DEF WakesAreKeys
  <2>1. pending(t) = Filled(term[t]) BY PendingIsFilled DEF IInv
  <2>2. Filled(term[t]) = Wakes(term[t]) BY DEF IInv, Queue, Holds
  <2>3. term[t].value \in Nat BY DEF IInv, TypeOK
  <2>. QED BY <2>1, <2>2, <2>3 DEF Wakes, owed
<1>. QED BY Invariance, <1>1, PTL

\* Until a buffer overflows its reader gets the keys as they were typed, none
\* lost, repeated or exchanged.
THEOREM KeysCorrect == Spec => []KeysInOrder
<1>1. IInv => KeysInOrder BY DEF IInv, Queue, InOrder, KeysInOrder
<1>. QED BY Invariance, <1>1, PTL

=============================================================================
