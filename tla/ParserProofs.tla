---------------------------- MODULE ParserProofs ----------------------------
(***************************************************************************)
(* The ring buffer and the parser that reads it, for every capacity,       *)
(* message layout and way of feeding.  An array and three indices are a    *)
(* FIFO whose reader can take back what it read since its bookmark; the    *)
(* bookmark follows the state of the parser, so that a drained parser can  *)
(* always be fed; and what comes out is what is in the stream.             *)
(***************************************************************************)
EXTENDS Parser, MCRingBuffer, Induction

C == Capacity

LEMMA CapacityIs == C \in Nat \ {0}
  BY PowerOfTwo DEF C

LEMMA SameSeq ==
    ASSUME NEW S, NEW s \in Seq(S), NEW t \in Seq(S), Len(s) = Len(t),
           \A i \in 1..Len(s) : s[i] = t[i]
    PROVE  s = t
  OBVIOUS
-----------------------------------------------------------------------------
(* Where an index finds its byte. *)
LEMMA DivMod ==
    ASSUME NEW c \in Nat \ {0}, NEW a \in Int
    PROVE  a % c \in 0..(c - 1) /\ a \div c \in Int /\ a % c = a - c * (a \div c)
  OBVIOUS

LEMMA OneRemainder ==
    ASSUME NEW c \in Nat \ {0}, NEW p \in Int, NEW q \in Int,
           NEW r \in 0..(c - 1), NEW s \in 0..(c - 1), c * p + r = c * q + s
    PROVE  r = s
  OBVIOUS

LEMMA SlotIs == ASSUME NEW i \in Int PROVE Slot(i) \in 0..(C - 1)
  BY CapacityIs, DivMod DEF Slot, C

(* The place of index i, counted from the place of index h. *)
LEMMA Distance ==
    ASSUME NEW h \in Int, NEW i \in Int, NEW r \in 0..(C - 1),
           i = h + r \/ i = h + r - C
    PROVE  (Slot(i) - h) % C = r
  <1> DEFINE u == i \div C
             s == Slot(i)
             v == (s - h) \div C
             q == (s - h) % C
  <1>1. u \in Int /\ s \in 0..(C - 1) /\ s = i - C * u
    BY CapacityIs, DivMod DEF Slot, C
  <1>2. v \in Int /\ q \in 0..(C - 1) /\ q = (s - h) - C * v
    <2> HIDE DEF s
    <2>1. s - h \in Int
      BY <1>1
    <2> QED
      BY <2>1, CapacityIs, DivMod
  <1> HIDE DEF u, s, v, q
  <1> DEFINE w == IF i = h + r THEN 0 - u ELSE 0 - 1 - u
  <1>3. w \in Int /\ s - h = C * w + r
    <2>1. CASE i = h + r
      <3>1. C * (0 - u) = 0 - C * u
        BY <1>1, CapacityIs
      <3> QED
        BY <1>1, <2>1, <3>1, CapacityIs
    <2>2. CASE i # h + r
      <3>1. C * (0 - 1 - u) = 0 - C - C * u
        BY <1>1, CapacityIs
      <3>2. i = h + r - C
        BY <2>2
      <3> QED
        BY <1>1, <2>2, <3>1, <3>2, CapacityIs
    <2> QED
      BY <2>1, <2>2
  <1> HIDE DEF w
  <1>4. C * v + q = C * w + r
    <2>1. C * v \in Int /\ C * w \in Int
      BY <1>2, <1>3, CapacityIs
    <2> QED
      BY <1>1, <1>2, <1>3, <2>1
  <1>5. q = r
    BY <1>2, <1>3, <1>4, CapacityIs, OneRemainder
  <1> QED
    BY <1>5 DEF q, s
-----------------------------------------------------------------------------
(* The bytes between two indices, in whatever array. *)
Stretch(d, from, to) == [k \in 1..(to - from) |-> d[Slot(from + k - 1)]]

Symbol == Byte \cup {Garbage}

LEMMA StretchIs ==
    ASSUME NEW d \in [0..(C - 1) -> Symbol], NEW from \in Nat, NEW to \in Nat, from <= to
    PROVE  /\ Stretch(d, from, to) \in Seq(Symbol) /\ Len(Stretch(d, from, to)) = to - from
           /\ \A k \in 1..(to - from) : Stretch(d, from, to)[k] = d[Slot(from + k - 1)]
  <1> DEFINE s == Stretch(d, from, to)
             n == to - from
  <1>1. n \in Nat /\ \A k \in 1..n : from + k - 1 \in Int
    OBVIOUS
  <1>2. \A k \in 1..n : d[Slot(from + k - 1)] \in Symbol
    BY <1>1, SlotIs
  <1>3. s = [k \in 1..n |-> d[Slot(from + k - 1)]]
    BY DEF Stretch
  <1>4. \A k \in 1..n : s[k] = d[Slot(from + k - 1)]
    BY <1>3
  <1> HIDE DEF s, n
  <1>5. s \in [1..n -> Symbol]
    BY <1>2, <1>3
  <1>6. s \in Seq(Symbol) /\ Len(s) = n
    BY <1>1, <1>5
  <1> QED
    BY <1>4, <1>6 DEF s, n

LEMMA NoStretch == ASSUME NEW d, NEW i \in Nat PROVE Stretch(d, i, i) = <<>>
  BY DEF Stretch

LEMMA Joined ==
    ASSUME NEW d \in [0..(C - 1) -> Symbol],
           NEW a \in Nat, NEW b \in Nat, NEW c \in Nat, a <= b, b <= c
    PROVE  Stretch(d, a, c) = Stretch(d, a, b) \o Stretch(d, b, c)
  <1> DEFINE s == Stretch(d, a, b)
             t == Stretch(d, b, c)
             r == Stretch(d, a, c)
  <1>1. /\ s \in Seq(Symbol) /\ Len(s) = b - a
        /\ \A k \in 1..(b - a) : s[k] = d[Slot(a + k - 1)]
    BY StretchIs
  <1>2. /\ t \in Seq(Symbol) /\ Len(t) = c - b
        /\ \A k \in 1..(c - b) : t[k] = d[Slot(b + k - 1)]
    BY StretchIs
  <1>3. /\ r \in Seq(Symbol) /\ Len(r) = c - a
        /\ \A k \in 1..(c - a) : r[k] = d[Slot(a + k - 1)]
    <2>1. a <= c
      OBVIOUS
    <2> HIDE DEF r
    <2> QED
      BY <2>1, StretchIs DEF r
  <1> HIDE DEF s, t, r
  <1> DEFINE q == s \o t
  <1>4. /\ q \in Seq(Symbol) /\ Len(q) = c - a
        /\ \A k \in 1..(c - a) : q[k] = IF k <= b - a THEN s[k] ELSE t[k - (b - a)]
    <2>1. b - a \in Nat /\ c - b \in Nat /\ (b - a) + (c - b) = c - a
      OBVIOUS
    <2>2. /\ q \in Seq(Symbol) /\ Len(q) = Len(s) + Len(t)
          /\ \A k \in 1..(Len(s) + Len(t)) : q[k] = IF k <= Len(s) THEN s[k] ELSE t[k - Len(s)]
      BY <1>1, <1>2
    <2> HIDE DEF q
    <2> QED
      BY <1>1, <1>2, <2>1, <2>2
  <1> HIDE DEF q
  <1>5. ASSUME NEW k \in 1..(c - a) PROVE r[k] = q[k]
    <2>1. CASE k <= b - a
      <3>1. k \in 1..(b - a) /\ q[k] = s[k] /\ r[k] = d[Slot(a + k - 1)]
        BY <1>3, <1>4, <2>1
      <3> QED
        BY <1>1, <3>1
    <2>2. CASE ~(k <= b - a)
      <3>1. k - (b - a) \in 1..(c - b) /\ b + (k - (b - a)) - 1 = a + k - 1
        BY <2>2
      <3> QED
        BY <1>2, <1>3, <1>4, <2>2, <3>1
    <2> QED
      BY <2>1, <2>2
  <1>6. r = q
    BY <1>3, <1>4, <1>5, SameSeq
  <1> QED
    BY <1>6 DEF r, s, t, q

LEMMA Parted ==
    ASSUME NEW d \in [0..(C - 1) -> Symbol], NEW a \in Nat, NEW b \in Nat, NEW n \in Nat,
           a + n <= b
    PROVE  /\ SubSeq(Stretch(d, a, b), 1, n) = Stretch(d, a, a + n)
           /\ SubSeq(Stretch(d, a, b), n + 1, b - a) = Stretch(d, a + n, b)
  <1> DEFINE s == Stretch(d, a, a + n)
             t == Stretch(d, a + n, b)
             r == Stretch(d, a, b)
  <1>1. a + n \in Nat /\ a <= a + n /\ (a + n) - a = n
    OBVIOUS
  <1>2. /\ s \in Seq(Symbol) /\ Len(s) = n /\ \A k \in 1..n : s[k] = d[Slot(a + k - 1)]
    <2>1. /\ s \in Seq(Symbol) /\ Len(s) = (a + n) - a
          /\ \A k \in 1..((a + n) - a) : s[k] = d[Slot(a + k - 1)]
      BY <1>1, StretchIs
    <2> HIDE DEF s
    <2> QED
      BY <1>1, <2>1
  <1>3. /\ t \in Seq(Symbol) /\ Len(t) = b - (a + n)
        /\ \A k \in 1..(b - (a + n)) : t[k] = d[Slot((a + n) + k - 1)]
    BY <1>1, StretchIs
  <1>4. /\ r \in Seq(Symbol) /\ Len(r) = b - a
        /\ \A k \in 1..(b - a) : r[k] = d[Slot(a + k - 1)]
    <2>1. a <= b
      OBVIOUS
    <2> HIDE DEF r
    <2> QED
      BY <2>1, StretchIs DEF r
  <1> HIDE DEF s, t, r
  <1>5. SubSeq(r, 1, n) = s
    <2> DEFINE q == SubSeq(r, 1, n)
    <2>1. q \in Seq(Symbol) /\ Len(q) = n /\ \A k \in 1..n : q[k] = r[k]
      <3>1. n <= b - a /\ b - a \in Nat
        OBVIOUS
      <3>2. \A k \in 1..n : k \in 1..Len(r)
        BY <1>4, <3>1
      <3>3. q = [k \in 1..n |-> r[k]]
        BY <1>4, <3>1
      <3> HIDE DEF q
      <3>4. \A k \in 1..n : q[k] = r[k] /\ r[k] \in Symbol
        BY <1>4, <3>2, <3>3
      <3>5. q \in [1..n -> Symbol]
        BY <3>3, <3>4
      <3> QED
        BY <3>4, <3>5
    <2> HIDE DEF q
    <2>2. \A k \in 1..n : k \in 1..(b - a)
      OBVIOUS
    <2>3. \A k \in 1..n : q[k] = s[k]
      BY <1>2, <1>4, <2>1, <2>2
    <2>4. q = s
      BY <1>2, <2>1, <2>3, SameSeq
    <2> QED
      BY <2>4 DEF q
  <1>6. SubSeq(r, n + 1, b - a) = t
    <2> DEFINE q == SubSeq(r, n + 1, b - a)
    <2>1. /\ q \in Seq(Symbol) /\ Len(q) = b - (a + n)
          /\ \A k \in 1..(b - (a + n)) : q[k] = r[n + k]
      <3> DEFINE l == b - (a + n)
      <3>1. l \in Nat /\ b - a \in Nat /\ n + l = b - a
        OBVIOUS
      <3>2. \A k \in 1..l : n + k \in 1..Len(r)
        BY <1>4, <3>1
      <3>3. q = [k \in 1..l |-> r[n + k]]
        BY <1>4, <3>1
      <3> HIDE DEF q, l
      <3>4. \A k \in 1..l : q[k] = r[n + k] /\ r[n + k] \in Symbol
        BY <1>4, <3>2, <3>3
      <3>5. q \in [1..l -> Symbol]
        BY <3>3, <3>4
      <3>6. q \in Seq(Symbol) /\ Len(q) = l
        BY <3>1, <3>5
      <3> QED
        BY <3>4, <3>6 DEF l
    <2> HIDE DEF q
    <2>2. ASSUME NEW k \in 1..(b - (a + n)) PROVE q[k] = t[k]
      <3>1. n + k \in 1..(b - a) /\ a + (n + k) - 1 = (a + n) + k - 1
        OBVIOUS
      <3> QED
        BY <1>3, <1>4, <2>1, <3>1
    <2>3. q = t
      BY <1>3, <2>1, <2>2, SameSeq
    <2> QED
      BY <2>3 DEF q
  <1> QED
    BY <1>5, <1>6 DEF r, s, t
-----------------------------------------------------------------------------
(* The calls. *)
RingInv == RingTypeOK /\ RingBounded

LEMMA RingFacts ==
    ASSUME RingInv
    PROVE  /\ data \in [0..(C - 1) -> Symbol]
           /\ head \in Nat /\ tail \in Nat /\ reserved \in Nat /\ mark \in Nat \cup {NoMark}
           /\ reserved <= tail /\ tail <= head /\ head - reserved <= C
           /\ NoMark = -1 /\ NoMark \notin Nat /\ C \in Nat
  BY CapacityIs DEF RingInv, RingTypeOK, RingBounded, reserved, NoMark, Symbol, C

LEMMA HeldIs ==
    /\ Held(reserved, tail) = Stretch(data, reserved, tail)
    /\ Held(tail, head) = Stretch(data, tail, head)
    /\ Held(reserved, tail)' = Stretch(data', reserved', tail')
    /\ Held(tail, head)' = Stretch(data', tail', head')
  BY DEF Held, Stretch

LEMMA ConsumeIs ==
    ASSUME RingInv, NEW n \in 1..Capacity, Consume(n), input' = input
    PROVE  RingInv' /\ Fifo!Take(n)
  <1>1. /\ tail' = tail + n /\ n <= head - tail /\ n \in Nat
        /\ data' = data /\ head' = head /\ mark' = mark
    BY RingFacts, CapacityIs DEF Consume, CanRead, available, C
  <1>2. tail' \in Nat /\ tail + n <= head
    BY <1>1, RingFacts
  <1>3. reserved' = IF mark = NoMark THEN tail + n ELSE reserved
    BY <1>1 DEF reserved
  <1>4. RingInv'
    <2>1. RingTypeOK'
      BY <1>1, <1>2 DEF RingInv, RingTypeOK
    <2>2. reserved' <= tail' /\ reserved' \in Nat /\ head' - reserved' <= C
      BY <1>1, <1>2, <1>3, RingFacts
    <2>3. RingBounded'
      BY <1>1, <1>2, <2>2 DEF RingBounded, C
    <2> QED
      BY <2>1, <2>3 DEF RingInv
  <1> DEFINE kept == Stretch(data, reserved, tail)
             unread == Stretch(data, tail, head)
  <1>5. /\ unread \in Seq(Symbol) /\ Len(unread) = head - tail
        /\ SubSeq(unread, 1, n) = Stretch(data, tail, tail + n)
        /\ SubSeq(unread, n + 1, head - tail) = Stretch(data, tail + n, head)
    <2>1. data \in [0..(C - 1) -> Symbol] /\ tail \in Nat /\ head \in Nat /\ tail <= head
      BY RingFacts
    <2>2. unread \in Seq(Symbol) /\ Len(unread) = head - tail
      BY <2>1, StretchIs
    <2>3. \A a, b \in Nat : a + n <= b
             => /\ SubSeq(Stretch(data, a, b), 1, n) = Stretch(data, a, a + n)
                /\ SubSeq(Stretch(data, a, b), n + 1, b - a) = Stretch(data, a + n, b)
      <3> SUFFICES ASSUME NEW a \in Nat, NEW b \in Nat, a + n <= b
                   PROVE  /\ SubSeq(Stretch(data, a, b), 1, n) = Stretch(data, a, a + n)
                          /\ SubSeq(Stretch(data, a, b), n + 1, b - a) = Stretch(data, a + n, b)
        OBVIOUS
      <3>1. n \in Nat /\ data \in [0..(C - 1) -> Symbol]
        BY <1>1, <2>1
      <3> QED
        BY <3>1, Parted
    <2> QED
      BY <1>2, <2>1, <2>2, <2>3
  <1>6. Held(tail, head)' = SubSeq(unread, n + 1, Len(unread))
    BY <1>1, <1>5, HeldIs
  <1>7. Held(reserved, tail)' = IF mark # NoMark THEN kept \o SubSeq(unread, 1, n) ELSE <<>>
    <2>1. CASE mark = NoMark
      BY <1>1, <1>2, <1>3, <2>1, HeldIs, NoStretch
    <2>2. CASE mark # NoMark
      <3>1. tail <= tail + n
        BY <1>1, RingFacts
      <3>2. Stretch(data, reserved, tail + n) = kept \o Stretch(data, tail, tail + n)
        <4>1. tail + n \in Nat /\ data \in [0..(C - 1) -> Symbol] /\ reserved \in Nat
              /\ tail \in Nat /\ reserved <= tail
          BY <1>1, <1>2, RingFacts
        <4> QED
          BY <3>1, <4>1, Joined
      <3> QED
        BY <1>1, <1>3, <1>5, <2>2, <3>2, HeldIs
    <2> QED
      BY <2>1, <2>2
  <1>8. n <= Len(unread)
    BY <1>1, <1>5
  <1> HIDE DEF kept, unread
  <1>9. Held(reserved, tail) = kept /\ Held(tail, head) = unread
    BY HeldIs DEF kept, unread
  <1> QED
    BY <1>1, <1>4, <1>6, <1>7, <1>8, <1>9 DEF Fifo!Take

LEMMA BookmarksAre ==
    ASSUME RingInv, input' = input
    PROVE  /\ SetBookmark => RingInv' /\ Fifo!Bookmark
           /\ ClearBookmark => RingInv' /\ Fifo!Release
           /\ Rewind => RingInv' /\ Fifo!TakeBack
           /\ RingClear => RingInv' /\ Fifo!Drop
  <1>1. ASSUME SetBookmark PROVE RingInv' /\ Fifo!Bookmark
    <2>1. data' = data /\ head' = head /\ tail' = tail /\ mark' = tail
      BY <1>1 DEF SetBookmark
    <2>2. reserved' = tail /\ mark' # NoMark
      BY <2>1, RingFacts DEF reserved
    <2>3. RingInv'
      <3>1. RingTypeOK'
        BY <2>1, RingFacts DEF RingTypeOK, RingInv
      <3>2. RingBounded'
        BY <2>1, <2>2, RingFacts DEF RingBounded, C
      <3> QED
        BY <3>1, <3>2 DEF RingInv
    <2>4. Held(reserved, tail)' = <<>> /\ Held(tail, head)' = Held(tail, head)
      BY <2>1, <2>2, HeldIs, RingFacts, NoStretch
    <2> QED
      BY <2>2, <2>3, <2>4 DEF Fifo!Bookmark
  <1>2. ASSUME ClearBookmark PROVE RingInv' /\ Fifo!Release
    <2>1. data' = data /\ head' = head /\ tail' = tail /\ mark' = NoMark
      BY <1>2 DEF ClearBookmark
    <2>2. reserved' = tail
      BY <2>1 DEF reserved
    <2>3. RingInv'
      <3>1. RingTypeOK'
        BY <2>1, RingFacts DEF RingTypeOK, RingInv
      <3>2. RingBounded'
        BY <2>1, <2>2, RingFacts DEF RingBounded, C
      <3> QED
        BY <3>1, <3>2 DEF RingInv
    <2>4. Held(reserved, tail)' = <<>> /\ Held(tail, head)' = Held(tail, head)
      BY <2>1, <2>2, HeldIs, RingFacts, NoStretch
    <2> QED
      BY <2>1, <2>3, <2>4 DEF Fifo!Release
  <1>3. ASSUME Rewind PROVE RingInv' /\ Fifo!TakeBack
    <2>1. data' = data /\ head' = head /\ tail' = reserved /\ mark' = NoMark
      BY <1>3 DEF Rewind
    <2>2. reserved' = reserved
      BY <2>1 DEF reserved
    <2>3. RingInv'
      <3>1. RingTypeOK'
        BY <2>1, RingFacts DEF RingTypeOK, RingInv
      <3>2. RingBounded'
        BY <2>1, <2>2, RingFacts DEF RingBounded, C
      <3> QED
        BY <3>1, <3>2 DEF RingInv
    <2>4. Held(reserved, tail)' = <<>>
      BY <2>1, <2>2, HeldIs, RingFacts, NoStretch
    <2>5. Held(tail, head)' = Held(reserved, tail) \o Held(tail, head)
      <3>1. Stretch(data, reserved, head)
               = Stretch(data, reserved, tail) \o Stretch(data, tail, head)
        BY RingFacts, Joined
      <3> QED
        BY <2>1, <3>1, HeldIs
    <2> QED
      BY <2>1, <2>3, <2>4, <2>5 DEF Fifo!TakeBack
  <1>4. ASSUME RingClear PROVE RingInv' /\ Fifo!Drop
    <2>1. data' = [j \in 0..Capacity-1 |-> Garbage] /\ head' = 0 /\ tail' = 0 /\ mark' = NoMark
      BY <1>4 DEF RingClear
    <2>2. reserved' = 0
      BY <2>1 DEF reserved
    <2>3. RingInv'
      BY <2>1, <2>2, CapacityIs DEF RingInv, RingTypeOK, RingBounded, C
    <2>4. Held(reserved, tail)' = <<>> /\ Held(tail, head)' = <<>>
      BY <2>1, <2>2, HeldIs, NoStretch
    <2> QED
      BY <2>1, <2>3, <2>4 DEF Fifo!Drop
  <1> QED
    BY <1>1, <1>2, <1>3, <1>4

(* A write leaves every byte that must be kept where it is.                *)
LEMMA StoredIs ==
    ASSUME RingInv, NEW n \in Nat, NEW src \in [1..n -> Byte], n <= freeSpace
    PROVE  /\ Len(src) = n /\ n \in Nat
           /\ Stored(src) \in [0..(C - 1) -> Symbol]
           /\ \A i \in reserved..(head - 1) : Stored(src)[Slot(i)] = data[Slot(i)]
           /\ \A k \in 1..n : Stored(src)[Slot(head + k - 1)] = src[k]
  <1> DEFINE d == Stored(src)
             at(j) == (j - head) % Capacity
  <1>1. Len(src) = n /\ n \in Nat /\ n <= C /\ head - reserved <= C - n
    BY RingFacts, CapacityIs DEF freeSpace, C
  <1>2. d = [j \in 0..(C - 1) |-> IF at(j) < n THEN src[at(j) + 1] ELSE data[j]]
    BY <1>1 DEF Stored, C
  <1>3. ASSUME NEW j \in 0..(C - 1) PROVE at(j) \in 0..(C - 1)
    <2>1. j - head \in Int
      BY RingFacts
    <2> QED
      BY <2>1, CapacityIs, DivMod DEF C
  <1> HIDE DEF at
  <1>4. d \in [0..(C - 1) -> Symbol]
    <2>1. ASSUME NEW j \in 0..(C - 1)
          PROVE  (IF at(j) < n THEN src[at(j) + 1] ELSE data[j]) \in Symbol
      <3>1. CASE at(j) < n
        <4>1. at(j) + 1 \in 1..n
          BY <1>1, <1>3, <3>1
        <4> QED
          BY <3>1, <4>1 DEF Symbol
      <3>2. CASE ~(at(j) < n)
        BY <3>2, RingFacts
      <3> QED
        BY <3>1, <3>2
    <2> QED
      BY <1>2, <2>1
  <1> HIDE DEF d
  <1>5. \A j \in 0..(C - 1) : d[j] = IF at(j) < n THEN src[at(j) + 1] ELSE data[j]
    BY <1>2
  <1>6. ASSUME NEW i \in reserved..(head - 1) PROVE d[Slot(i)] = data[Slot(i)]
    <2> DEFINE r == C - (head - i)
    <2>1. i \in Int /\ r \in 0..(C - 1) /\ i = head + r - C /\ ~(r < n)
      BY <1>1, RingFacts, CapacityIs
    <2> HIDE DEF r
    <2>2. at(Slot(i)) = r
      BY <2>1, RingFacts, Distance DEF at, C
    <2> QED
      BY <1>5, <2>1, <2>2, SlotIs
  <1>7. ASSUME NEW k \in 1..n PROVE d[Slot(head + k - 1)] = src[k]
    <2> DEFINE r == k - 1
               i == head + k - 1
    <2>1. i \in Int /\ r \in 0..(C - 1) /\ i = head + r /\ r < n /\ r + 1 = k
      BY <1>1, RingFacts, CapacityIs
    <2> HIDE DEF r, i
    <2>2. at(Slot(i)) = r
      <3>1. head \in Int
        BY RingFacts
      <3> QED
        BY <2>1, <3>1, Distance DEF at, C
    <2>3. d[Slot(i)] = src[k]
      BY <1>5, <2>1, <2>2, SlotIs
    <2> QED
      BY <2>3 DEF i
  <1> QED
    BY <1>1, <1>4, <1>6, <1>7 DEF d

LEMMA WriteIs ==
    ASSUME RingInv, NEW src \in MCChunks, MCWrite(src)
    PROVE  RingInv' /\ \E n \in 1..Capacity : src \in [1..n -> Byte] /\ Fifo!Put(src)
  <1>1. PICK n \in 1..MaxChunk : src \in [1..n -> Byte]
    BY DEF MCChunks
  <1> DEFINE d == Stored(src)
  <1>2. /\ Len(src) = n /\ n \in Nat /\ n >= 1
        /\ data' = d /\ head' = head + n /\ tail' = tail /\ mark' = mark /\ input' = src
        /\ n <= freeSpace
    BY <1>1 DEF MCWrite, Write
  <1>3. /\ d \in [0..(C - 1) -> Symbol]
        /\ \A i \in reserved..(head - 1) : d[Slot(i)] = data[Slot(i)]
        /\ \A k \in 1..n : d[Slot(head + k - 1)] = src[k]
    BY <1>1, <1>2, StoredIs
  <1> HIDE DEF d
  <1>4. reserved' = reserved /\ head - reserved <= C - n /\ n <= C
    BY <1>2, RingFacts DEF reserved, freeSpace, C
  <1>5. RingInv'
    <2>1. RingTypeOK'
      BY <1>2, <1>3, RingFacts DEF RingTypeOK, Symbol, C
    <2>2. RingBounded'
      BY <1>2, <1>4, RingFacts DEF RingBounded, C
    <2> QED
      BY <2>1, <2>2 DEF RingInv
  <1>6. ASSUME NEW a \in Nat, NEW b \in Nat, reserved <= a, a <= b, b <= head
        PROVE  Stretch(d, a, b) = Stretch(data, a, b)
    <2> DEFINE s == Stretch(d, a, b)
               t == Stretch(data, a, b)
    <2>1. /\ s \in Seq(Symbol) /\ Len(s) = b - a
          /\ \A k \in 1..(b - a) : s[k] = d[Slot(a + k - 1)]
      BY <1>3, <1>6, StretchIs
    <2>2. /\ t \in Seq(Symbol) /\ Len(t) = b - a
          /\ \A k \in 1..(b - a) : t[k] = data[Slot(a + k - 1)]
      <3>1. data \in [0..(C - 1) -> Symbol]
        BY RingFacts
      <3> QED
        BY <1>6, <3>1, StretchIs
    <2> HIDE DEF s, t
    <2>3. \A k \in 1..(b - a) : a + k - 1 \in reserved..(head - 1)
      BY <1>6, RingFacts
    <2>4. \A k \in 1..(b - a) : s[k] = t[k]
      BY <1>3, <2>1, <2>2, <2>3
    <2>5. s = t
      BY <2>1, <2>2, <2>4, SameSeq
    <2> QED
      BY <2>5 DEF s, t
  <1>7. Stretch(d, head, head + n) = src
    <2> DEFINE s == Stretch(d, head, head + n)
    <2>1. head \in Nat /\ head + n \in Nat /\ head <= head + n /\ (head + n) - head = n
      BY <1>2, RingFacts
    <2>2. /\ s \in Seq(Symbol) /\ Len(s) = (head + n) - head
          /\ \A k \in 1..((head + n) - head) : s[k] = d[Slot(head + k - 1)]
      BY <1>3, <2>1, StretchIs
    <2> HIDE DEF s
    <2>3. \A k \in 1..n : s[k] = src[k]
      BY <1>3, <2>1, <2>2
    <2>4. src \in Seq(Symbol)
      BY <1>1, <1>2 DEF Symbol
    <2>5. s = src
      BY <1>2, <2>1, <2>2, <2>3, <2>4, SameSeq
    <2> QED
      BY <2>5 DEF s
  <1>8. Held(tail, head)' = Held(tail, head) \o src
    <2>1. Held(tail, head)' = Stretch(d, tail, head + n)
      BY <1>2, HeldIs
    <2>2. Stretch(d, tail, head + n) = Stretch(d, tail, head) \o Stretch(d, head, head + n)
      <3>1. tail \in Nat /\ head \in Nat /\ head + n \in Nat /\ tail <= head /\ head <= head + n
        BY <1>2, RingFacts
      <3> QED
        BY <1>3, <3>1, Joined
    <2>3. Stretch(d, tail, head) = Held(tail, head)
      BY <1>6, RingFacts, HeldIs
    <2> QED
      BY <1>7, <2>1, <2>2, <2>3
  <1>9. Held(reserved, tail)' = Held(reserved, tail)
    <2>1. Held(reserved, tail)' = Stretch(d, reserved, tail)
      BY <1>2, <1>4, HeldIs
    <2>2. Stretch(d, reserved, tail) = Held(reserved, tail)
      BY <1>6, RingFacts, HeldIs
    <2> QED
      BY <2>1, <2>2
  <1>10. Len(Held(reserved, tail)) + Len(Held(tail, head)) + Len(src) <= Capacity
    <2>1. Len(Held(reserved, tail)) = tail - reserved /\ Len(Held(tail, head)) = head - tail
      <3>1. /\ data \in [0..(C - 1) -> Symbol]
            /\ head \in Nat /\ tail \in Nat /\ reserved \in Nat /\ reserved <= tail /\ tail <= head
        BY RingFacts
      <3>2. Len(Stretch(data, reserved, tail)) = tail - reserved
        BY <3>1, StretchIs
      <3>3. Len(Stretch(data, tail, head)) = head - tail
        BY <3>1, StretchIs
      <3> QED
        BY <3>2, <3>3, HeldIs
    <2> DEFINE k == Len(Held(reserved, tail))
               u == Len(Held(tail, head))
    <2>2. k + u + n <= C
      <3>1. k = tail - reserved /\ u = head - tail
        BY <2>1
      <3>2. /\ head \in Nat /\ tail \in Nat /\ reserved \in Nat /\ C \in Nat /\ n \in Nat
            /\ head - reserved <= C - n
        BY <1>2, <1>4, RingFacts
      <3> HIDE DEF k, u
      <3> QED
        BY <3>1, <3>2
    <2> QED
      BY <1>2, <2>2 DEF C
  <1>11. Fifo!Put(src)
    BY <1>2, <1>8, <1>9, <1>10 DEF Fifo!Put
  <1>12. n \in 1..Capacity
    BY <1>2, <1>4, RingFacts DEF C
  <1> QED
    BY <1>1, <1>5, <1>11, <1>12

LEMMA RingStep ==
    ASSUME RingInv, [MCNext]_mcVars
    PROVE  RingInv' /\ [Fifo!Next]_(Fifo!fifoVars)
  <1>1. CASE \E src \in MCChunks : MCWrite(src)
    BY <1>1, WriteIs DEF Fifo!Next
  <1>2. CASE RingCall /\ UNCHANGED input
    <2>1. CASE \E n \in 1..Capacity : Consume(n)
      BY <1>2, <2>1, ConsumeIs DEF Fifo!Next
    <2>2. CASE SetBookmark \/ ClearBookmark \/ Rewind \/ RingClear
      BY <1>2, <2>2, BookmarksAre DEF Fifo!Next
    <2> QED
      BY <1>2, <2>1, <2>2 DEF RingCall
  <1>3. CASE UNCHANGED mcVars
    <2>1. data' = data /\ head' = head /\ tail' = tail /\ mark' = mark /\ input' = input
      BY <1>3 DEF mcVars, ringVars
    <2>2. RingInv'
      BY <2>1 DEF RingInv, RingTypeOK, RingBounded, reserved
    <2>3. Held(reserved, tail)' = Held(reserved, tail) /\ Held(tail, head)' = Held(tail, head)
      BY <2>1 DEF Held, reserved
    <2> QED
      BY <2>1, <2>2, <2>3 DEF Fifo!fifoVars
  <1> QED
    BY <1>1, <1>2, <1>3 DEF MCNext

LEMMA RingInitially == MCInit => RingInv /\ Fifo!Init
  <1> SUFFICES ASSUME MCInit PROVE RingInv /\ Fifo!Init
    OBVIOUS
  <1>1. /\ data = [j \in 0..Capacity-1 |-> Garbage] /\ head = 0 /\ tail = 0 /\ mark = NoMark
        /\ input = <<>> /\ reserved = 0
    BY DEF MCInit, RingInit, reserved
  <1>2. RingInv
    BY <1>1, CapacityIs DEF RingInv, RingTypeOK, RingBounded, C
  <1>3. Held(reserved, tail) = <<>> /\ Held(tail, head) = <<>>
    BY <1>1, HeldIs, NoStretch
  <1> QED
    BY <1>1, <1>2, <1>3 DEF Fifo!Init

(* The indices never pass each other, and what must be kept never exceeds  *)
(* the array, whatever its capacity and whatever sequence of calls.        *)
THEOREM RingInvariant == MCSpec => []RingInv
  <1>1. MCInit => RingInv
    BY RingInitially
  <1>2. RingInv /\ [MCNext]_mcVars => RingInv'
    BY RingStep
  <1> QED
    BY <1>1, <1>2, PTL DEF MCSpec

(* The ring buffer, of any capacity, is a FIFO with a rewind: no write      *)
(* touches a byte that is unread or that a rewind may bring back, and a     *)
(* read across the end of the array keeps the order (ringbuffer.h:40-117).  *)
THEOREM RingIsFifo == MCSpec => ImplementsFifo
  <1>1. MCInit => Fifo!Init
    BY RingInitially
  <1>2. RingInv /\ [MCNext]_mcVars => [Fifo!Next]_(Fifo!fifoVars)
    BY RingStep
  <1> QED
    BY <1>1, <1>2, RingInvariant, PTL DEF MCSpec, ImplementsFifo, Fifo!Spec
-----------------------------------------------------------------------------
(* The parser's bookkeeping. *)
USE DEF NoMark

LEMMA SlotInRange ==
    ASSUME NEW i \in Int
    PROVE  Slot(i) \in 0..Capacity-1
  BY PowerOfTwo DEF Slot

(* What is read is made of what the array holds. *)
LEMMA PeekType ==
    ASSUME RingTypeOK, NEW n \in Nat
    PROVE  Peek(n) \in [1..n -> Byte \cup {Garbage}]
  <1> SUFFICES ASSUME NEW k \in 1..n
               PROVE  data[Slot(tail + k - 1)] \in Byte \cup {Garbage}
    BY DEF Peek
  <1>1. tail + k - 1 \in Int
    BY DEF RingTypeOK
  <1> QED
    BY <1>1, SlotInRange DEF RingTypeOK

(* write() keeps the array an array of bytes. *)
LEMMA StoredType ==
    ASSUME RingTypeOK, NEW src \in Seq(Byte)
    PROVE  Stored(src) \in [0..Capacity-1 -> Byte \cup {Garbage}]
  <1> SUFFICES ASSUME NEW j \in 0..Capacity-1
               PROVE  LET k == (j - head) % Capacity
                      IN  (IF k < Len(src) THEN src[k + 1] ELSE data[j])
                            \in Byte \cup {Garbage}
    BY DEF Stored
  <1> DEFINE k == (j - head) % Capacity
  <1>1. k \in 0..Capacity-1
    BY SlotInRange DEF Slot, RingTypeOK
  <1>2. CASE k < Len(src)
    <2>1. k + 1 \in 1..Len(src)
      BY <1>1, <1>2, PowerOfTwo
    <2> QED
      BY <2>1, <1>2
  <1>3. CASE ~(k < Len(src))
    BY <1>3 DEF RingTypeOK
  <1> QED
    BY <1>2, <1>3

LEMMA ClampType ==
    ASSUME RingTypeOK, RingBounded, NEW chunk \in Seq(Byte)
    PROVE  Clamp(chunk) \in Seq(Byte) /\ Len(Clamp(chunk)) <= freeSpace
  <1>1. freeSpace \in Nat
    BY PowerOfTwo DEF RingTypeOK, RingBounded, freeSpace, reserved
  <1>2. CASE Len(chunk) <= freeSpace
    BY <1>2 DEF Clamp
  <1>3. CASE ~(Len(chunk) <= freeSpace)
    BY <1>1, <1>3 DEF Clamp
  <1> QED
    BY <1>2, <1>3

-----------------------------------------------------------------------------
LEMMA InitInv == Init => ParserInv
  <1> SUFFICES ASSUME Init PROVE ParserInv
    OBVIOUS
  <1> USE PowerOfTwo DEF Init, RingInit
  <1>1. RingTypeOK /\ RingBounded
    BY DEF RingTypeOK, RingBounded, reserved
  <1>2. header \in Seq(Byte \cup {Garbage, 0}) /\ Len(header) = SizeMagic
    BY MagicIsSequence DEF NoHeader
  <1>3. TypeOK
    BY <1>1, <1>2, SizesArePositive DEF TypeOK, States, Calls
  <1> QED
    BY <1>1, <1>3 DEF ParserInv, MarkTracksState, DrainedWaits

(* feed() only appends, within the free space. *)
LEMMA FeedInv ==
    ASSUME ParserInv, NEW chunk, Feed(chunk)
    PROVE  ParserInv'
  <1> USE PowerOfTwo
  <1> DEFINE src == Clamp(chunk)
  <1>1. TypeOK /\ RingTypeOK /\ RingBounded /\ MarkTracksState /\ DrainedWaits
    BY DEF ParserInv, TypeOK
  <1>2. chunk \in Seq(Byte) /\ call # "parsing"
    BY DEF Feed
  <1>3. src \in Seq(Byte) /\ Len(src) \in Nat /\ Len(src) <= freeSpace
    BY <1>1, <1>2, ClampType
  <1>4. /\ data' = Stored(src) /\ head' = head + Len(src)
        /\ UNCHANGED <<tail, mark, pstate, header, fieldVars, rejectVars>>
        /\ call' = IF freeSpace = 0 THEN call ELSE "ready"
    BY DEF Feed, Write
  <1> HIDE DEF src
  <1>5. RingTypeOK' /\ RingBounded'
    BY <1>1, <1>3, <1>4, StoredType
       DEF RingTypeOK, RingBounded, reserved, freeSpace
  <1>6. TypeOK'
    BY <1>1, <1>4, <1>5 DEF TypeOK, Calls, fieldVars, rejectVars
  <1>7. MarkTracksState'
    BY <1>1, <1>4 DEF MarkTracksState, Behind, fieldVars
  <1>8. DrainedWaits'
    <2> SUFFICES ASSUME call' = "drained"
                 PROVE  (empty \/ available < Need)'
      BY DEF DrainedWaits
    <2>1. call = "drained" /\ freeSpace = 0
      BY <1>4
    <2>2. head' = head
      BY <1>1, <1>3, <1>4, <2>1 DEF RingTypeOK
    <2> QED
      BY <1>1, <1>4, <2>1, <2>2 DEF DrainedWaits, empty, available, Need, fieldVars
  <1> QED
    BY <1>5, <1>6, <1>7, <1>8 DEF ParserInv

LEMMA ClearInv ==
    ASSUME ParserInv, Clear
    PROVE  ParserInv'
  <1> USE PowerOfTwo DEF Clear, RingClear
  <1>1. RingTypeOK' /\ RingBounded'
    BY DEF RingTypeOK, RingBounded, reserved
  <1>2. header' \in Seq(Byte \cup {Garbage, 0}) /\ Len(header') = SizeMagic
    BY MagicIsSequence DEF NoHeader
  <1>3. TypeOK'
    BY <1>1, <1>2 DEF ParserInv, TypeOK, States, Calls, fieldVars
  <1> QED
    BY <1>1, <1>3 DEF ParserInv, MarkTracksState, DrainedWaits

(* Entering and leaving parseNext() moves nothing. *)
LEMMA CallInv ==
    ASSUME ParserInv, ParseNext \/ WaitForMore
    PROVE  ParserInv'
  <1>1. UNCHANGED <<ringVars, pstate, header, fieldVars, rejectVars>>
    BY DEF ParseNext, WaitForMore
  <1>2. call' \in {"parsing", "drained"}
    BY DEF ParseNext, WaitForMore
  <1>3. (RingBounded /\ MarkTracksState)'
    BY <1>1 DEF ParserInv, RingBounded, reserved, MarkTracksState, Behind,
                ringVars, fieldVars
  <1>4. TypeOK'
    BY <1>1, <1>2 DEF ParserInv, TypeOK, RingTypeOK, Calls, ringVars, fieldVars,
                      rejectVars
  <1>5. DrainedWaits'
    <2>1. CASE ParseNext
      BY <2>1 DEF ParseNext, DrainedWaits
    <2>2. CASE WaitForMore
      <3>1. empty \/ ~CanRead(Need)
        BY <2>2 DEF WaitForMore
      <3>2. Need \in Nat
        BY SizesArePositive DEF ParserInv, TypeOK, States, Need
      <3>3. empty \/ available < Need
        BY <3>1, <3>2 DEF CanRead, available, ParserInv, TypeOK, RingTypeOK
      <3> QED
        BY <1>1, <3>3 DEF DrainedWaits, empty, available, Need, ringVars, fieldVars
    <2> QED
      BY <2>1, <2>2
  <1> QED
    BY <1>3, <1>4, <1>5 DEF ParserInv

-----------------------------------------------------------------------------
(* Looking for the magic. *)
LEMMA ShiftType ==
    ASSUME ParserInv
    PROVE  /\ Shifted \in Seq(Byte \cup {Garbage, 0})
           /\ Len(Shifted) = SizeMagic
  <1>1. data[Slot(tail)] \in Byte \cup {Garbage, 0}
    BY SlotInRange DEF ParserInv, TypeOK, RingTypeOK
  <1>2. header # <<>>
    BY MagicIsSequence DEF ParserInv, TypeOK
  <1>3. /\ Tail(header) \in Seq(Byte \cup {Garbage, 0})
        /\ Len(Tail(header)) = SizeMagic - 1
    BY <1>2 DEF ParserInv, TypeOK
  <1> QED
    BY <1>1, <1>3, MagicIsSequence DEF Shifted

LEMMA SyncInv ==
    ASSUME ParserInv, SyncNoMatch \/ SyncMatch
    PROVE  ParserInv'
  <1>1. /\ header' = Shifted
        /\ tail' = tail + 1
        /\ call = "parsing" /\ ~empty /\ pstate = "HeaderSync"
        /\ UNCHANGED <<data, head, fieldVars, rejectVars, call>>
        /\ \/ pstate' = "HeaderSync" /\ mark' = mark
           \/ pstate' = "TxId" /\ mark' = tail'
    BY DEF SyncNoMatch, SyncMatch, Running, Got, Consume
  <1>2. mark = NoMark /\ tail < head
    BY <1>1 DEF ParserInv, TypeOK, RingTypeOK, RingBounded, MarkTracksState, empty
  <1>3. (RingTypeOK /\ RingBounded)'
    BY <1>1, <1>2, PowerOfTwo
       DEF ParserInv, TypeOK, RingTypeOK, RingBounded, reserved
  <1>4. TypeOK'
    BY <1>1, <1>3, ShiftType
       DEF ParserInv, TypeOK, States, fieldVars, rejectVars
  <1>5. MarkTracksState'
    BY <1>1, <1>2 DEF ParserInv, TypeOK, RingTypeOK, MarkTracksState, Behind
  <1> QED
    BY <1>1, <1>3, <1>4, <1>5 DEF ParserInv, DrainedWaits

(* Reading one field: the tail moves on by its size, the state by one. *)
FieldRead(n, from, to) ==
    /\ call = "parsing" /\ pstate = from
    /\ n <= available
    /\ tail' = tail + n
    /\ pstate' = to
    /\ UNCHANGED <<data, head, mark, header, rejectVars, call>>

LEMMA FieldReadInv ==
    ASSUME ParserInv, NEW n \in Nat, NEW from \in States \ {"HeaderSync"},
           NEW to \in States \ {"HeaderSync"},
           FieldRead(n, from, to),
           argLen' \in 0..MaxArgs,
           Behind' = Behind + n
    PROVE  ParserInv'
  <1> USE DEF FieldRead
  <1>1. (RingTypeOK /\ RingBounded)'
    BY DEF ParserInv, TypeOK, RingTypeOK, RingBounded, MarkTracksState, reserved,
           available
  <1>2. TypeOK'
    BY <1>1 DEF ParserInv, TypeOK, rejectVars
  <1>3. Behind \in Nat
    BY SizesArePositive DEF ParserInv, TypeOK, States, Behind, SizePrefix
  <1>4. MarkTracksState'
    <2>1. mark # NoMark /\ tail = mark + Behind
      BY DEF ParserInv, MarkTracksState
    <2>2. mark' # NoMark /\ tail' = mark' + Behind'
      BY <1>3, <2>1 DEF ParserInv, TypeOK, RingTypeOK
    <2> QED
      BY <2>2 DEF MarkTracksState
  <1> QED
    BY <1>1, <1>2, <1>4 DEF ParserInv, DrainedWaits

LEMMA ReadInv ==
    ASSUME ParserInv, ReadTxId \/ ReadCmd \/ ReadSize \/ ReadArgs
    PROVE  ParserInv'
  <1> USE SizesArePositive
  <1>1. CASE ReadTxId
    <2>1. FieldRead(SizeTxid, "TxId", "Cmd") /\ argLen' = argLen
      BY <1>1 DEF ReadTxId, Running, Got, CanRead, Consume, FieldRead
    <2>2. Behind' = Behind + SizeTxid
      BY <2>1 DEF FieldRead, Behind
    <2> QED
      BY <2>1, <2>2, FieldReadInv DEF States, ParserInv, TypeOK
  <1>2. CASE ReadCmd
    <2>1. FieldRead(SizeCmd, "Cmd", "Size") /\ argLen' = argLen
      BY <1>2 DEF ReadCmd, Running, Got, CanRead, Consume, FieldRead
    <2>2. Behind' = Behind + SizeCmd
      BY <2>1 DEF FieldRead, Behind
    <2> QED
      BY <2>1, <2>2, FieldReadInv DEF States, ParserInv, TypeOK
  <1>3. CASE ReadSize
    <2>1. FieldRead(SizeLen, "Size", "Args")
      BY <1>3 DEF ReadSize, SizeIsLegal, Running, Got, CanRead, Consume, FieldRead
    <2>2. Behind' = Behind + SizeLen
      BY <2>1 DEF FieldRead, Behind, SizePrefix
    <2>3. LenOf(Peek(SizeLen)) \in Nat
      BY PeekType, LenOfIsNat DEF ParserInv, TypeOK
    <2>4. argLen' \in 0..MaxArgs
      BY <1>3, <2>3 DEF ReadSize, SizeIsLegal
    <2> QED
      BY <2>1, <2>2, <2>4, FieldReadInv DEF States
  <1>4. CASE ReadArgs
    <2>1. FieldRead(argLen, "Args", "Checksum") /\ argLen' = argLen
      BY <1>4 DEF ReadArgs, Running, Got, CanRead, Consume, FieldRead
    <2>2. Behind' = Behind + argLen
      BY <2>1 DEF FieldRead, Behind
    <2>3. argLen \in Nat /\ argLen \in 0..MaxArgs
      BY DEF ParserInv, TypeOK
    <2> QED
      BY <2>1, <2>2, <2>3, FieldReadInv DEF States
  <1> QED
    BY <1>1, <1>2, <1>3, <1>4

(* A message ends, as one or as none: the bookmark goes. *)
LEMMA EndInv ==
    ASSUME ParserInv, Accept \/ RejectSize \/ RejectChecksum
    PROVE  ParserInv'
  <1> USE SizesArePositive
  <1>1. /\ mark' = NoMark /\ pstate' = "HeaderSync"
        /\ call' \in {"ready", "parsing"}
        /\ argLen' = argLen
        /\ UNCHANGED <<data, head>>
        /\ header' = header \/ header' = NoHeader
        /\ sizeRejections' = sizeRejections \/ sizeRejections' = sizeRejections + 1
        /\ crcRejections' = crcRejections \/ crcRejections' = crcRejections + 1
        /\ tail' = reserved \/ (CanRead(SizeCrc) /\ tail' = tail + SizeCrc)
    BY DEF Accept, RejectSize, SizeIsLegal, RejectChecksum, GiveUp, Rewind, Running,
           fieldVars, rejectVars
  <1>2. tail' \in Nat /\ tail' <= head /\ reserved <= tail'
    BY <1>1 DEF ParserInv, TypeOK, RingTypeOK, RingBounded, reserved, CanRead,
                available
  <1>3. (RingTypeOK /\ RingBounded)'
    <2>1. reserved \in Nat /\ head \in Nat /\ head - reserved <= Capacity
      BY DEF ParserInv, TypeOK, RingTypeOK, RingBounded, reserved
    <2>2. reserved' = tail'
      BY <1>1 DEF reserved
    <2>3. Capacity \in Nat
      BY PowerOfTwo
    <2>4. \A h, r, t, c \in Nat : h - r <= c /\ r <= t => h - t <= c
      OBVIOUS
    <2>5. head - tail' <= Capacity
      BY <1>2, <2>1, <2>3, <2>4, Zenon
    <2> QED
      BY <1>1, <1>2, <2>2, <2>5 DEF ParserInv, TypeOK, RingTypeOK, RingBounded
  <1>4. NoHeader \in Seq(Byte \cup {Garbage, 0}) /\ Len(NoHeader) = SizeMagic
    BY MagicIsSequence DEF NoHeader
  <1>5. TypeOK'
    BY <1>1, <1>3, <1>4 DEF ParserInv, TypeOK, States, Calls
  <1> QED
    BY <1>1, <1>3, <1>5 DEF ParserInv, MarkTracksState, DrainedWaits

LEMMA NextInv == ParserInv /\ [Next]_vars => ParserInv'
  <1> SUFFICES ASSUME ParserInv, [Next]_vars PROVE ParserInv'
    OBVIOUS
  <1>1. CASE \E chunk \in Piece(stream) : Feed(chunk)
    BY <1>1, FeedInv
  <1>2. CASE Clear
    BY <1>2, ClearInv
  <1>3. CASE ParseNext \/ WaitForMore
    BY <1>3, CallInv
  <1>4. CASE SyncNoMatch \/ SyncMatch
    BY <1>4, SyncInv
  <1>5. CASE ReadTxId \/ ReadCmd \/ ReadSize \/ ReadArgs
    BY <1>5, ReadInv
  <1>6. CASE Accept \/ RejectSize \/ RejectChecksum
    BY <1>6, EndInv
  <1>7. CASE UNCHANGED vars
    BY <1>7 DEF vars, ringVars, parserVars, fieldVars, rejectVars, ghostVars,
                ParserInv, TypeOK, RingTypeOK, RingBounded, MarkTracksState,
                DrainedWaits, reserved, available, empty, Need, Behind
  <1> QED
    BY <1>1, <1>2, <1>3, <1>4, <1>5, <1>6, <1>7 DEF Next, ParseStep

(* Types, buffer bounds and the link between the bookmark and the parser's *)
(* state hold in every reachable state (parser.h:50-158).                  *)
THEOREM ParserCorrect == Spec => []ParserInv
  BY InitInv, NextInv, PTL DEF Spec

(* What is retained for a rewind is part of one message, and the buffer    *)
(* holds a whole one: parseNext() never gives up on a full buffer.         *)
LEMMA RoomWhenDrained == ParserInv => NeverWedged
  <1> SUFFICES ASSUME ParserInv, call = "drained" PROVE freeSpace > 0
    BY DEF NeverWedged
  <1> USE SizesArePositive, MagicIsSequence, HoldsLargestMessage, PowerOfTwo
  <1>1. /\ head \in Nat /\ tail \in Nat /\ mark \in Nat \cup {NoMark}
        /\ tail <= head /\ argLen \in 0..MaxArgs /\ pstate \in States
    BY DEF ParserInv, TypeOK, RingTypeOK, RingBounded
  <1>2. head - tail = 0 \/ head - tail < Need
    BY <1>1 DEF ParserInv, DrainedWaits, empty, available
  <1>3. CASE pstate = "HeaderSync"
    <2>1. mark = NoMark
      BY <1>3 DEF ParserInv, MarkTracksState
    <2>2. head = tail
      BY <1>1, <1>2, <1>3 DEF Need
    <2> QED
      BY <1>1, <2>1, <2>2 DEF freeSpace, reserved
  <1>4. CASE pstate # "HeaderSync"
    <2>1. mark # NoMark /\ tail = mark + Behind
      BY <1>4 DEF ParserInv, MarkTracksState
    <2>2. /\ Need \in Nat /\ Behind \in Nat
          /\ Behind + Need <= SizePrefix + MaxArgs + SizeCrc
      <3>1. CASE pstate = "TxId"
        BY <3>1 DEF Need, Behind, SizePrefix
      <3>2. CASE pstate = "Cmd"
        BY <3>2 DEF Need, Behind, SizePrefix
      <3>3. CASE pstate = "Size"
        BY <3>3 DEF Need, Behind, SizePrefix
      <3>4. CASE pstate = "Args"
        BY <1>1, <3>4 DEF Need, Behind, SizePrefix
      <3>5. CASE pstate = "Checksum"
        BY <1>1, <3>5 DEF Need, Behind, SizePrefix
      <3> QED
        BY <1>1, <1>4, <3>1, <3>2, <3>3, <3>4, <3>5 DEF States
    <2>3. head - mark <= SizePrefix + MaxArgs + SizeCrc
      BY <1>1, <1>2, <2>1, <2>2 DEF SizePrefix
    <2>4. SizePrefix + MaxArgs + SizeCrc < Capacity
      BY DEF MaxMsg, SizePrefix
    <2> QED
      BY <1>1, <2>1, <2>3, <2>4 DEF freeSpace, reserved, SizePrefix
  <1> QED
    BY <1>3, <1>4

(* A drained parser accepts at least one more byte, whatever it was fed    *)
(* and however (firmwaresim.cpp:38-41 never runs).                         *)
THEOREM ParserNeverWedges == Spec => []NeverWedged
  BY ParserCorrect, RoomWhenDrained, PTL

-----------------------------------------------------------------------------
(* What is in a stream.  Scan() first: that there is such a function.      *)
Bytes == Seq(Byte)
FrameType == [txid : Bytes, cmd : Bytes, args : Bytes]

LEMMA FieldType ==
    ASSUME NEW s \in Bytes, NEW from \in Nat \ {0}, NEW n \in Nat, from + n - 1 <= Len(s)
    PROVE  /\ Stream!Field(s, from, n) \in Bytes /\ Stream!Field(s, from, n) \in [1..n -> Byte]
           /\ Len(Stream!Field(s, from, n)) = n
           /\ \A k \in 1..n : Stream!Field(s, from, n)[k] = s[from + k - 1]
  <1> DEFINE f == Stream!Field(s, from, n)
  <1>1. f = [k \in 1..n |-> s[from + k - 1]]
    <2>1. (from + n - 1) - from + 1 = n
      OBVIOUS
    <2> QED
      BY <2>1 DEF Stream!Field, Bytes
  <1>2. \A k \in 1..n : s[from + k - 1] \in Byte
    <2>1. \A k \in 1..n : from + k - 1 \in 1..Len(s)
      BY DEF Bytes
    <2> QED
      BY <2>1 DEF Bytes
  <1> HIDE DEF f
  <1>3. f \in [1..n -> Byte] /\ \A k \in 1..n : f[k] = s[from + k - 1]
    BY <1>1, <1>2
  <1> QED
    BY <1>3 DEF f, Bytes

LEMMA SizesAre ==
    /\ SizeMagic \in Nat \ {0} /\ SizeTxid \in Nat \ {0} /\ SizeCmd \in Nat \ {0}
    /\ SizeLen \in Nat \ {0} /\ SizeCrc \in Nat \ {0} /\ MaxArgs \in Nat
    /\ SizePrefix = SizeTxid + SizeCmd + SizeLen /\ SizePrefix \in Nat
    /\ Stream!SizePrefix = SizePrefix /\ Stream!SizeMagic = SizeMagic
  BY SizesArePositive, MagicIsSequence
     DEF SizePrefix, Stream!SizePrefix, SizeMagic, Stream!SizeMagic

LEMMA SizeIsNat ==
    ASSUME NEW s \in Bytes, NEW b \in Nat \ {0}, Stream!SizeKnown(s, b)
    PROVE  LenOf(Stream!Size(s, b)) \in Nat
  <1>1. Stream!Size(s, b) \in [1..SizeLen -> Byte]
    <2>1. b + SizeTxid + SizeCmd \in Nat \ {0} /\ b + SizeTxid + SizeCmd + SizeLen - 1 <= Len(s)
      BY SizesAre DEF Stream!SizeKnown, Bytes
    <2> QED
      BY <2>1, FieldType, SizesAre DEF Stream!Size
  <1> QED
    BY <1>1, LenOfIsNat

LEMMA FrameIs ==
    ASSUME NEW s \in Bytes, NEW b \in Nat \ {0}, Stream!SizeKnown(s, b), Stream!Whole(s, b)
    PROVE  Stream!Frame(s, b) \in FrameType
  <1> DEFINE l == LenOf(Stream!Size(s, b))
  <1>1. l \in Nat /\ b + SizePrefix + l + SizeCrc - 1 <= Len(s)
    BY SizesAre, SizeIsNat DEF Stream!Whole, Stream!CrcAt
  <1>2. Len(s) \in Nat
    BY DEF Bytes
  <1> HIDE DEF l
  <1>3. /\ b + SizeTxid - 1 <= Len(s) /\ b + SizeTxid \in Nat \ {0}
        /\ b + SizeTxid + SizeCmd - 1 <= Len(s)
        /\ b + SizePrefix \in Nat \ {0} /\ b + SizePrefix + l - 1 <= Len(s)
    BY <1>1, <1>2, SizesAre
  <1>4. Stream!Txid(s, b) \in Bytes /\ Stream!Cmd(s, b) \in Bytes
    BY <1>3, FieldType, SizesAre DEF Stream!Txid, Stream!Cmd
  <1>5. Stream!Args(s, b) \in Bytes
    BY <1>1, <1>3, FieldType, SizesAre DEF Stream!Args, l
  <1> QED
    BY <1>4, <1>5 DEF Stream!Frame, FrameType

LEMMA MinIs ==
    ASSUME NEW S, S \subseteq Nat, NEW x \in S, \A y \in S : x <= y
    PROVE  Stream!Min(S) = x
  <1>1. \E y \in S : \A z \in S : y <= z
    OBVIOUS
  <1> DEFINE y == CHOOSE y \in S : \A z \in S : y <= z
  <1>2. y \in S /\ \A z \in S : y <= z
    BY <1>1
  <1>3. Stream!Min(S) = y
    BY DEF Stream!Min
  <1> HIDE DEF y
  <1>4. y <= x /\ x <= y /\ x \in Nat /\ y \in Nat
    BY <1>2
  <1> QED
    BY <1>3, <1>4

LEMMA StartsAre ==
    ASSUME NEW s \in Bytes, NEW i \in 1..(Len(s) + 1), Stream!Starts(s, i) # {}
    PROVE  /\ Stream!Min(Stream!Starts(s, i)) \in Stream!Starts(s, i)
           /\ Stream!Min(Stream!Starts(s, i)) \in i..Len(s)
  <1>1. Stream!Starts(s, i) \subseteq i..Len(s)
    BY DEF Stream!Starts
  <1>2. Stream!Starts(s, i) \subseteq Nat
    BY <1>1 DEF Bytes
  <1>3. PICK x \in Stream!Starts(s, i) : \A y \in Stream!Starts(s, i) : x <= y
    BY <1>2, LeastNumber
  <1>4. Stream!Min(Stream!Starts(s, i)) = x
    BY <1>2, <1>3, MinIs
  <1> QED
    BY <1>1, <1>3, <1>4

(* Behind the first magic from index i on. *)
Behind1(s, i) == Stream!Min(Stream!Starts(s, i)) + Stream!SizeMagic

LEMMA ScanIs ==
    ASSUME NEW s \in Bytes
    PROVE  /\ Stream!Scan(s) \in [1..(Len(s) + 1) -> Seq(FrameType)]
           /\ \A i \in 1..(Len(s) + 1) :
                 Stream!Scan(s)[i] =
                   LET b == Behind1(s, i)
                   IN  IF Stream!Starts(s, i) = {} \/ ~Stream!SizeKnown(s, b) THEN <<>>
                       ELSE IF ~Stream!SizeFits(s, b) THEN Stream!Scan(s)[b]
                       ELSE IF ~Stream!Whole(s, b) THEN <<>>
                       ELSE IF Stream!Intact(s, b)
                            THEN <<Stream!Frame(s, b)>> \o Stream!Scan(s)[Stream!CrcAt(s, b) + SizeCrc]
                       ELSE Stream!Scan(s)[b]
  <1> DEFINE n == Len(s) + 1
             none(i) == Stream!Starts(s, i) = {} \/ ~Stream!SizeKnown(s, Behind1(s, i))
             short(i) == ~Stream!Whole(s, Behind1(s, i))
             fits(i) == Stream!SizeFits(s, Behind1(s, i))
             good(i) == Stream!Intact(s, Behind1(s, i))
             after(i) == Stream!CrcAt(s, Behind1(s, i)) + SizeCrc
             next == [i \in 1..n |-> IF none(i) THEN 0 ELSE IF ~fits(i) THEN Behind1(s, i)
                                     ELSE IF short(i) THEN 0
                                     ELSE IF good(i) THEN after(i) ELSE Behind1(s, i)]
             keep == [i \in 1..n |-> fits(i) /\ good(i)]
             out == [i \in 1..n |-> Stream!Frame(s, Behind1(s, i))]
             Found(f, i) == IF none(i) THEN <<>> ELSE IF ~fits(i) THEN f[Behind1(s, i)]
                            ELSE IF short(i) THEN <<>>
                            ELSE IF good(i) THEN <<Stream!Frame(s, Behind1(s, i))>> \o f[after(i)]
                            ELSE f[Behind1(s, i)]
             Is(f) == f = [i \in 1..n |-> Found(f, i)]
  <1>1. n \in Nat
    BY DEF Bytes
  <1>2. ASSUME NEW i \in 1..n, ~none(i)
        PROVE  /\ Behind1(s, i) \in (i + 1)..n
               /\ fits(i) /\ ~short(i) => /\ after(i) \in (i + 1)..n
                                          /\ Stream!Frame(s, Behind1(s, i)) \in FrameType
    <2> DEFINE m == Stream!Min(Stream!Starts(s, i))
               b == Behind1(s, i)
    <2>1. m \in i..Len(s) /\ b = m + SizeMagic
      BY <1>2, StartsAre, SizesAre DEF Behind1
    <2>2. b + SizePrefix - 1 <= Len(s)
      BY <1>2, SizesAre DEF Stream!SizeKnown
    <2> HIDE DEF m, b
    <2>3. b \in (i + 1)..n /\ b \in Nat \ {0}
      BY <1>1, <2>1, <2>2, SizesAre
    <2>4. ASSUME ~short(i)
          PROVE  after(i) \in (i + 1)..n /\ Stream!Frame(s, b) \in FrameType
      <3>1. Stream!SizeKnown(s, b) /\ Stream!Whole(s, b)
        BY <1>2, <2>4 DEF b
      <3>2. Stream!Frame(s, b) \in FrameType
        BY <2>3, <3>1, FrameIs
      <3>3. after(i) = b + SizePrefix + LenOf(Stream!Size(s, b)) + SizeCrc
        BY SizesAre DEF b, Stream!CrcAt
      <3>4. LenOf(Stream!Size(s, b)) \in Nat
        BY <2>3, <3>1, SizeIsNat
      <3>5. b + SizePrefix + LenOf(Stream!Size(s, b)) + SizeCrc - 1 <= Len(s)
        BY <3>1, SizesAre DEF Stream!Whole, Stream!CrcAt
      <3> HIDE DEF after
      <3>6. after(i) \in (i + 1)..n
        BY <1>1, <2>3, <3>3, <3>4, <3>5, SizesAre
      <3> QED
        BY <3>2, <3>6
    <2> QED
      BY <2>3, <2>4 DEF b
  <1> HIDE DEF none, short, fits, good, after
  <1>3. \A i \in 1..n : next[i] = 0 \/ next[i] \in (i + 1)..n
    BY <1>2
  <1>4. \A i \in 1..n : next[i] # 0 /\ keep[i] => out[i] \in FrameType
    BY <1>2
  <1>5. ASSUME NEW f PROVE Is(f) <=> SearchIs(f, 1, n, keep, out, next)
    <2>1. \A i \in 1..n : Found(f, i) = IF next[i] = 0 THEN <<>>
                                        ELSE IF keep[i] THEN <<out[i]>> \o f[next[i]] ELSE f[next[i]]
      <3> SUFFICES ASSUME NEW i \in 1..n
                   PROVE  Found(f, i) = IF next[i] = 0 THEN <<>>
                                        ELSE IF keep[i] THEN <<out[i]>> \o f[next[i]] ELSE f[next[i]]
        OBVIOUS
      <3>1. CASE none(i)
        BY <3>1
      <3>2. CASE ~none(i)
        <4>1. Behind1(s, i) # 0
          BY <1>2, <3>2
        <4>2. fits(i) /\ ~short(i) => after(i) # 0
          BY <1>2, <3>2
        <4> QED
          BY <3>2, <4>1, <4>2
      <3> QED
        BY <3>1, <3>2
    <2> HIDE DEF Found, next, keep, out
    <2> QED
      BY <2>1 DEF SearchIs
  <1> DEFINE g == CHOOSE f : Is(f)
  <1>6. Stream!Scan(s) = g
    BY Zenon DEF Stream!Scan, Behind1, none, short, fits, good, after
  <1> HIDE DEF Is, next, keep, out
  <1>7. /\ \E f : SearchIs(f, 1, n, keep, out, next)
        /\ \A f : SearchIs(f, 1, n, keep, out, next) => f \in [1..n -> Seq(FrameType)]
    <2> HIDE DEF n
    <2> QED
      BY <1>1, <1>3, <1>4, SearchExists
  <1>8. Is(g)
    <2>1. \E f : Is(f)
      BY <1>5, <1>7
    <2> QED
      BY <2>1, Zenon
  <1>9. g \in [1..n -> Seq(FrameType)]
    <2> HIDE DEF g
    <2> QED
      BY <1>5, <1>7, <1>8
  <1>10. \A i \in 1..n : g[i] = Found(g, i)
    <2> HIDE DEF g, Found
    <2> QED
      BY <1>8 DEF Is
  <1> HIDE DEF g
  <1> QED
    BY <1>6, <1>9, <1>10 DEF none, short, fits, good, after

(* The messages in s, once a magic was found to end before index b. *)
Rest(s, b) ==
    IF ~Stream!SizeKnown(s, b) THEN <<>>
    ELSE IF ~Stream!SizeFits(s, b) THEN Stream!Scan(s)[b]
    ELSE IF ~Stream!Whole(s, b) THEN <<>>
    ELSE IF Stream!Intact(s, b)
         THEN <<Stream!Frame(s, b)>> \o Stream!Scan(s)[Stream!CrcAt(s, b) + SizeCrc]
    ELSE Stream!Scan(s)[b]

LEMMA NothingLeft ==
    ASSUME NEW s \in Bytes, NEW i \in 1..(Len(s) + 1), Stream!Starts(s, i) = {}
    PROVE  Stream!Scan(s)[i] = <<>>
  BY ScanIs

LEMMA RestIs ==
    ASSUME NEW s \in Bytes, NEW i \in 1..(Len(s) + 1), NEW st \in i..Len(s),
           Stream!MagicAt(s, st), \A k \in i..(st - 1) : ~Stream!MagicAt(s, k)
    PROVE  Stream!Scan(s)[i] = Rest(s, st + SizeMagic)
  <1>1. st \in Stream!Starts(s, i) /\ Stream!Starts(s, i) \subseteq Nat
    BY DEF Stream!Starts, Bytes
  <1>2. ASSUME NEW k \in Stream!Starts(s, i) PROVE st <= k
    <2>1. k \in i..Len(s) /\ Stream!MagicAt(s, k)
      BY DEF Stream!Starts
    <2> QED
      BY <2>1
  <1>3. Stream!Min(Stream!Starts(s, i)) = st
    BY <1>1, <1>2, MinIs
  <1>4. Behind1(s, i) = st + SizeMagic
    BY <1>3, SizesAre DEF Behind1
  <1>5. Stream!Starts(s, i) # {}
    BY <1>1
  <1> QED
    BY <1>4, <1>5, ScanIs DEF Rest

-----------------------------------------------------------------------------
(* What is known of a stream stays known when more arrives. *)
Continues(t, s) == t \in Bytes /\ Len(s) <= Len(t) /\ \A k \in 1..Len(s) : t[k] = s[k]

LEMMA SameField ==
    ASSUME NEW s \in Bytes, NEW t, Continues(t, s),
           NEW from \in Nat \ {0}, NEW n \in Nat, from + n - 1 <= Len(s)
    PROVE  Stream!Field(t, from, n) = Stream!Field(s, from, n)
  <1> DEFINE f == Stream!Field(s, from, n)
             g == Stream!Field(t, from, n)
  <1>1. t \in Bytes /\ from + n - 1 <= Len(t)
    BY DEF Continues, Bytes
  <1>2. f \in [1..n -> Byte] /\ \A k \in 1..n : f[k] = s[from + k - 1]
    BY FieldType
  <1>3. g \in [1..n -> Byte] /\ \A k \in 1..n : g[k] = t[from + k - 1]
    BY <1>1, FieldType
  <1>4. \A k \in 1..n : s[from + k - 1] = t[from + k - 1]
    <2>1. \A k \in 1..n : from + k - 1 \in 1..Len(s)
      BY DEF Bytes
    <2> QED
      BY <2>1 DEF Continues
  <1> HIDE DEF f, g
  <1>5. f = g
    <2>1. \A k \in 1..n : f[k] = g[k]
      BY <1>2, <1>3, <1>4
    <2>2. f \in [1..n -> Byte] /\ g \in [1..n -> Byte]
      BY <1>2, <1>3
    <2> QED
      BY <2>1, <2>2
  <1> QED
    BY <1>5 DEF f, g

LEMMA SameMagic ==
    ASSUME NEW s \in Bytes, NEW t, Continues(t, s),
           NEW k \in Nat \ {0}, k + SizeMagic - 1 <= Len(s)
    PROVE  Stream!MagicAt(t, k) <=> Stream!MagicAt(s, k)
  <1>1. Stream!Field(t, k, SizeMagic) = Stream!Field(s, k, SizeMagic)
    BY SizesAre, SameField
  <1>2. k + SizeMagic - 1 <= Len(t)
    BY SizesAre DEF Continues, Bytes
  <1> QED
    BY <1>1, <1>2, SizesAre DEF Stream!MagicAt

LEMMA SamePrefix ==
    ASSUME NEW s \in Bytes, NEW t, Continues(t, s), NEW b \in Nat \ {0}, Stream!SizeKnown(s, b)
    PROVE  /\ Stream!SizeKnown(t, b)
           /\ Stream!Txid(t, b) = Stream!Txid(s, b)
           /\ Stream!Cmd(t, b) = Stream!Cmd(s, b)
           /\ Stream!Size(t, b) = Stream!Size(s, b)
           /\ Stream!CrcAt(t, b) = Stream!CrcAt(s, b)
           /\ Stream!SizeFits(t, b) = Stream!SizeFits(s, b)
  <1>1. b + SizePrefix - 1 <= Len(s) /\ Len(s) <= Len(t) /\ Len(s) \in Nat /\ Len(t) \in Nat
    BY SizesAre DEF Stream!SizeKnown, Continues, Bytes
  <1>2. Stream!SizeKnown(t, b)
    BY <1>1, SizesAre DEF Stream!SizeKnown
  <1>3. /\ b + SizeTxid - 1 <= Len(s) /\ b + SizeTxid \in Nat \ {0}
        /\ b + SizeTxid + SizeCmd - 1 <= Len(s) /\ b + SizeTxid + SizeCmd \in Nat \ {0}
        /\ b + SizeTxid + SizeCmd + SizeLen - 1 <= Len(s)
    BY <1>1, SizesAre
  <1>4. Stream!Size(t, b) = Stream!Size(s, b)
    BY <1>3, SizesAre, SameField DEF Stream!Size
  <1> QED
    BY <1>2, <1>3, <1>4, SizesAre, SameField
       DEF Stream!Txid, Stream!Cmd, Stream!CrcAt, Stream!SizeFits

LEMMA SameWhole ==
    ASSUME NEW s \in Bytes, NEW t, Continues(t, s), NEW b \in Nat \ {0},
           Stream!SizeKnown(s, b), Stream!Whole(s, b)
    PROVE  /\ Stream!Whole(t, b)
           /\ Stream!Frame(t, b) = Stream!Frame(s, b)
           /\ Stream!Intact(t, b) = Stream!Intact(s, b)
  <1> DEFINE l == LenOf(Stream!Size(s, b))
  <1>1. /\ l \in Nat /\ Stream!CrcAt(s, b) = b + SizePrefix + l
        /\ Stream!CrcAt(s, b) + SizeCrc - 1 <= Len(s)
    BY SizesAre, SizeIsNat DEF Stream!Whole, Stream!CrcAt
  <1>2. /\ Stream!CrcAt(t, b) = Stream!CrcAt(s, b)
        /\ Stream!Txid(t, b) = Stream!Txid(s, b) /\ Stream!Cmd(t, b) = Stream!Cmd(s, b)
        /\ Stream!Size(t, b) = Stream!Size(s, b)
    BY SamePrefix
  <1>3. Len(s) <= Len(t) /\ Len(s) \in Nat /\ Len(t) \in Nat
    BY DEF Continues, Bytes
  <1> HIDE DEF l
  <1>4. /\ b + SizePrefix + l \in Nat \ {0} /\ b + SizePrefix + l + SizeCrc - 1 <= Len(s)
        /\ b + SizePrefix \in Nat \ {0} /\ b + SizePrefix + l - 1 <= Len(s)
    BY <1>1, <1>3, SizesAre
  <1>5. Stream!Whole(t, b)
    <2>1. Stream!CrcAt(t, b) + SizeCrc - 1 <= Len(t)
      BY <1>1, <1>2, <1>3, <1>4, SizesAre
    <2> QED
      BY <2>1 DEF Stream!Whole
  <1>6. Stream!Args(t, b) = Stream!Args(s, b)
    <2>1. Stream!Field(t, b + SizePrefix, l) = Stream!Field(s, b + SizePrefix, l)
      BY <1>1, <1>4, SameField
    <2> QED
      BY <1>2, <2>1, SizesAre DEF Stream!Args, l
  <1>7. Stream!Field(t, Stream!CrcAt(s, b), SizeCrc) = Stream!Field(s, Stream!CrcAt(s, b), SizeCrc)
    BY <1>1, <1>4, SizesAre, SameField
  <1> QED
    BY <1>2, <1>5, <1>6, <1>7 DEF Stream!Frame, Stream!Intact

LEMMA SameRest ==
    ASSUME NEW s \in Bytes, NEW t, Continues(t, s), NEW b \in Nat \ {0}, Stream!SizeKnown(s, b)
    PROVE  /\ ~Stream!SizeFits(s, b) => Rest(t, b) = Stream!Scan(t)[b]
           /\ Stream!SizeFits(s, b) /\ Stream!Whole(s, b) /\ ~Stream!Intact(s, b)
                 => Rest(t, b) = Stream!Scan(t)[b]
           /\ Stream!SizeFits(s, b) /\ Stream!Whole(s, b) /\ Stream!Intact(s, b)
                 => Rest(t, b) = <<Stream!Frame(s, b)>>
                                   \o Stream!Scan(t)[Stream!CrcAt(s, b) + SizeCrc]
  BY SamePrefix, SameWhole DEF Rest

-----------------------------------------------------------------------------
(* What the parser has done with the stream.  The messages of any stream   *)
(* that continues this one are those delivered, and then those found from  *)
(* index base on (LooksFrom), or behind a magic (ReadsFrom).               *)
LooksFrom(s, d, base) ==
    \A t : Continues(t, s) => Stream!Scan(t)[1] = d \o Stream!Scan(t)[base]

ReadsFrom(s, d, b) ==
    \A t : Continues(t, s) => Stream!Scan(t)[1] = d \o Rest(t, b)

(* The buffer holds the end of the stream. *)
InStream == /\ stream \in Bytes /\ Len(stream) = head
            /\ \A i \in reserved..(head - 1) : data[Slot(i)] = stream[i + 1]
            /\ delivered \in Seq(FrameType)

(* Since the search began at base, no magic was passed, and m_header holds *)
(* the last bytes, or what remains of what it was reset to.                *)
Shifts(base, reset) ==
    /\ reset \in {NoHeader, Magic}
    /\ \A k \in base..(tail + 1 - SizeMagic) : ~Stream!MagicAt(stream, k)
    /\ \A j \in 1..SizeMagic :
          header[j] = IF j + (tail + 1 - base) <= SizeMagic
                      THEN reset[j + (tail + 1 - base)]
                      ELSE stream[tail - SizeMagic + j]

Searching ==
    pstate = "HeaderSync" =>
       \E base \in 1..(tail + 1) : /\ LooksFrom(stream, delivered, base)
                                   /\ \E reset : Shifts(base, reset)

(* The fields read so far are those behind the magic. *)
Reading ==
    pstate # "HeaderSync" =>
       /\ header = Magic
       /\ ReadsFrom(stream, delivered, mark + 1)
       /\ pstate # "TxId" => txid = Stream!Txid(stream, mark + 1)
       /\ pstate \in {"Size", "Args", "Checksum"} => cmd = Stream!Cmd(stream, mark + 1)
       /\ pstate \in {"Args", "Checksum"} => /\ size = Stream!Size(stream, mark + 1)
                                             /\ argLen = LenOf(size)
                                             /\ Stream!SizeFits(stream, mark + 1)
       /\ pstate = "Checksum" => args = Stream!Args(stream, mark + 1)

StreamInv == InStream /\ Searching /\ Reading

-----------------------------------------------------------------------------
LEMMA ParserFacts ==
    ASSUME ParserInv
    PROVE  /\ RingInv
           /\ data \in [0..(C - 1) -> Symbol]
           /\ head \in Nat /\ tail \in Nat /\ reserved \in Nat /\ mark \in Nat \cup {NoMark}
           /\ reserved <= tail /\ tail <= head /\ head - reserved <= C
           /\ pstate \in States /\ call \in Calls /\ argLen \in 0..MaxArgs /\ argLen \in Nat
           /\ header \in Seq(Byte \cup {Garbage, 0}) /\ Len(header) = SizeMagic
           /\ pstate = "HeaderSync" => mark = NoMark /\ reserved = tail
           /\ pstate # "HeaderSync" => mark \in Nat /\ reserved = mark /\ tail = mark + Behind
  <1>1. RingInv
    BY DEF ParserInv, TypeOK, RingInv
  <1> QED
    BY <1>1, RingFacts, SizesAre DEF ParserInv, TypeOK, MarkTracksState, reserved

LEMMA PeekIsField ==
    ASSUME ParserInv, InStream, NEW n \in Nat, CanRead(n)
    PROVE  /\ Peek(n) = Stream!Field(stream, tail + 1, n)
           /\ tail + 1 \in Nat \ {0} /\ tail + 1 + n - 1 <= Len(stream)
           /\ tail + n <= head
  <1>1. /\ head \in Nat /\ tail \in Nat /\ reserved \in Nat /\ reserved <= tail /\ tail <= head
        /\ Len(stream) = head
    BY ParserFacts DEF InStream
  <1>2. n <= head - tail
    BY DEF CanRead, available
  <1>3. tail + 1 \in Nat \ {0} /\ tail + 1 + n - 1 <= Len(stream) /\ tail + n <= head
    BY <1>1, <1>2
  <1> DEFINE f == Stream!Field(stream, tail + 1, n)
             p == Peek(n)
  <1>4. f \in [1..n -> Byte] /\ \A k \in 1..n : f[k] = stream[(tail + 1) + k - 1]
    BY <1>3, FieldType DEF InStream
  <1>5. p = [k \in 1..n |-> data[Slot(tail + k - 1)]]
    BY DEF Peek
  <1> HIDE DEF f, p
  <1>6. ASSUME NEW k \in 1..n PROVE p[k] = f[k]
    <2>1. tail + k - 1 \in reserved..(head - 1) /\ (tail + k - 1) + 1 = (tail + 1) + k - 1
      BY <1>1, <1>2
    <2>2. p[k] = data[Slot(tail + k - 1)]
      BY <1>5
    <2>3. data[Slot(tail + k - 1)] = stream[(tail + 1) + k - 1]
      BY <2>1 DEF InStream
    <2> QED
      BY <1>4, <2>2, <2>3
  <1>7. p = f
    BY <1>4, <1>5, <1>6
  <1> QED
    BY <1>3, <1>7 DEF f, p

LEMMA InStreamKept ==
    ASSUME ParserInv, InStream, UNCHANGED <<data, head, stream>>, reserved <= reserved',
           reserved' \in Nat, delivered' \in Seq(FrameType)
    PROVE  InStream'
  <1>1. \A i \in reserved'..(head - 1) : i \in reserved..(head - 1)
    BY ParserFacts
  <1>2. \A i \in reserved'..(head' - 1) : data'[Slot(i)] = stream'[i + 1]
    BY <1>1 DEF InStream
  <1>3. (\A i \in reserved..(head - 1) : data[Slot(i)] = stream[i + 1])'
    BY <1>2 DEF Slot
  <1> QED
    BY <1>3 DEF InStream

-----------------------------------------------------------------------------
(* Looking for the magic. *)
LEMMA ShiftedIs ==
    ASSUME ParserInv, InStream, pstate = "HeaderSync", ~empty,
           NEW base \in 1..(tail + 1), NEW reset, Shifts(base, reset)
    PROVE  /\ tail < head /\ tail + 1 <= Len(stream)
           /\ \A j \in 1..SizeMagic :
                 Shifted[j] = IF j + (tail + 2 - base) <= SizeMagic
                              THEN reset[j + (tail + 2 - base)]
                              ELSE stream[tail + 1 - SizeMagic + j]
  <1>1. /\ tail \in Nat /\ head \in Nat /\ tail < head /\ Len(stream) = head /\ reserved = tail
    BY ParserFacts DEF empty, InStream
  <1>2. data[Slot(tail)] = stream[tail + 1]
    BY <1>1 DEF InStream
  <1>3. SizeMagic \in Nat \ {0} /\ header \in Seq(Byte \cup {Garbage, 0}) /\ Len(header) = SizeMagic
    BY ParserFacts, SizesAre
  <1>4. \A j \in 1..SizeMagic : Shifted[j] = IF j < SizeMagic THEN header[j + 1] ELSE stream[tail + 1]
    <2> DEFINE h == Tail(header)
    <2>1. h \in Seq(Byte \cup {Garbage, 0}) /\ Len(h) = SizeMagic - 1
          /\ \A j \in 1..(SizeMagic - 1) : h[j] = header[j + 1]
      BY <1>3
    <2> HIDE DEF h
    <2>2. \A x : \A j \in 1..SizeMagic : Append(h, x)[j] = IF j < SizeMagic THEN h[j] ELSE x
      BY <1>3, <2>1
    <2>3. Shifted = Append(h, stream[tail + 1])
      BY <1>2 DEF Shifted, h
    <2> QED
      BY <1>3, <2>1, <2>2, <2>3
  <1>5. ASSUME NEW j \in 1..SizeMagic
        PROVE  Shifted[j] = IF j + (tail + 2 - base) <= SizeMagic
                            THEN reset[j + (tail + 2 - base)]
                            ELSE stream[tail + 1 - SizeMagic + j]
    <2>1. CASE j < SizeMagic
      <3>1. j + 1 \in 1..SizeMagic
        BY <1>3, <2>1
      <3>2. header[j + 1] = IF (j + 1) + (tail + 1 - base) <= SizeMagic
                            THEN reset[(j + 1) + (tail + 1 - base)]
                            ELSE stream[tail - SizeMagic + (j + 1)]
        BY <3>1 DEF Shifts
      <3>3. /\ (j + 1) + (tail + 1 - base) = j + (tail + 2 - base)
            /\ tail - SizeMagic + (j + 1) = tail + 1 - SizeMagic + j
        BY <1>1, <1>3
      <3> QED
        BY <1>4, <2>1, <3>2, <3>3
    <2>2. CASE j = SizeMagic
      <3>1. ~(j + (tail + 2 - base) <= SizeMagic) /\ tail + 1 - SizeMagic + j = tail + 1
        BY <1>1, <1>3, <2>2
      <3> QED
        BY <1>4, <2>2, <3>1
    <2> QED
      BY <1>3, <2>1, <2>2
  <1> QED
    BY <1>1, <1>5

(* A whole magic in m_header is a magic in the stream, found where it is:  *)
(* nothing that m_header was reset to can be the beginning of one.         *)
LEMMA ShiftedMagic ==
    ASSUME ParserInv, InStream, pstate = "HeaderSync", ~empty,
           NEW base \in 1..(tail + 1), NEW reset, Shifts(base, reset)
    PROVE  /\ Shifted = Magic => tail + 2 - base >= SizeMagic
           /\ tail + 2 - base >= SizeMagic
                 => (Shifted = Magic <=> Stream!MagicAt(stream, tail + 2 - SizeMagic))
  <1> DEFINE c == tail + 2 - base
             m == SizeMagic
  <1>1. /\ tail \in Nat /\ c \in Nat \ {0} /\ m \in Nat \ {0} /\ base \in Nat /\ base >= 1
        /\ tail + 1 <= Len(stream) /\ Len(stream) \in Nat
    BY ParserFacts, SizesAre, ShiftedIs DEF InStream, Bytes
  <1>2. \A j \in 1..m : Shifted[j] = IF j + c <= m THEN reset[j + c] ELSE stream[tail + 1 - m + j]
    BY ShiftedIs
  <1>3. Magic \in Seq(Nat) /\ Len(Magic) = m
    BY MagicIsSequence DEF SizeMagic
  <1>4. Shifted \in Seq(Byte \cup {Garbage, 0}) /\ Len(Shifted) = m
    BY ShiftType
  <1> HIDE DEF c, m
  <1>5. ASSUME Shifted = Magic, c < m PROVE FALSE
    <2>1. \A j \in 1..(m - c) : Magic[j] = reset[j + c]
      <3>1. \A j \in 1..(m - c) : j \in 1..m /\ j + c <= m
        BY <1>1
      <3> QED
        BY <1>2, <1>5, <3>1
    <2>2. CASE reset = NoHeader
      <3>1. 1 \in 1..(m - c) /\ 1 + c \in 1..m
        BY <1>1, <1>5
      <3>2. reset[1 + c] = 0
        BY <2>2, <3>1 DEF NoHeader, m
      <3> QED
        BY <2>1, <3>1, <3>2, MagicHasNoBorder
    <2>3. CASE reset = Magic
      <3> DEFINE n == m - c
                 p == SubSeq(Magic, 1, n)
                 q == SubSeq(Magic, m - n + 1, m)
      <3>1. n \in 1..(m - 1) /\ m - n = c
        BY <1>1, <1>5
      <3> HIDE DEF n
      <3>2. p = [k \in 1..n |-> Magic[k]]
        BY <1>3, <3>1
      <3>3. q = [k \in 1..n |-> Magic[c + k]]
        <4>1. m - (c + 1) + 1 = n
          BY <1>1, <3>1
        <4>2. q = [k \in 1..n |-> Magic[(c + 1) + k - 1]]
          BY <1>1, <1>3, <3>1, <4>1
        <4>3. \A k \in 1..n : (c + 1) + k - 1 = c + k
          BY <1>1, <3>1
        <4> HIDE DEF q
        <4> QED
          BY <4>2, <4>3
      <3>4. \A k \in 1..n : Magic[k] = Magic[c + k]
        <4>1. \A k \in 1..n : k + c = c + k /\ k \in 1..(m - c)
          BY <1>1, <3>1
        <4> QED
          BY <2>1, <2>3, <4>1
      <3>5. p = q
        <4> HIDE DEF p, q
        <4> QED
          BY <3>2, <3>3, <3>4
      <3>6. \A k \in 1..SizeMagic-1 :
               SubSeq(Magic, 1, k) # SubSeq(Magic, SizeMagic - k + 1, SizeMagic)
        BY MagicHasNoBorder
      <3> QED
        BY <3>1, <3>5, <3>6 DEF m
    <2> QED
      BY <2>2, <2>3 DEF Shifts
  <1>6. ASSUME c >= m PROVE Shifted = Magic <=> Stream!MagicAt(stream, tail + 2 - m)
    <2> DEFINE k == tail + 2 - m
               f == Stream!Field(stream, k, m)
    <2>1. k \in Nat \ {0} /\ k + m - 1 = tail + 1 /\ k + m - 1 <= Len(stream)
      BY <1>1, <1>6 DEF c
    <2>2. f \in [1..m -> Byte] /\ f \in Bytes /\ Len(f) = m /\ \A j \in 1..m : f[j] = stream[k + j - 1]
      BY <1>1, <2>1, FieldType DEF InStream
    <2>3. \A j \in 1..m : Shifted[j] = stream[k + j - 1]
      <3>1. \A j \in 1..m : ~(j + c <= m) /\ tail + 1 - m + j = k + j - 1
        BY <1>1, <1>6, <2>1
      <3> QED
        BY <1>2, <3>1
    <2>4. Stream!MagicAt(stream, k) <=> f = Magic
      BY <2>1, SizesAre DEF Stream!MagicAt, m
    <2> HIDE DEF f, k
    <2>5. \A j \in 1..m : Shifted[j] = f[j]
      BY <2>2, <2>3
    <2>6. Shifted = f
      <3>1. f \in Seq(Byte \cup {Garbage, 0})
        BY <2>2 DEF Bytes
      <3> QED
        BY <1>4, <2>2, <2>5, <3>1, SameSeq
    <2> QED
      BY <2>4, <2>6 DEF k
  <1> QED
    BY <1>1, <1>5, <1>6 DEF c, m

LEMMA SyncStream ==
    ASSUME ParserInv, StreamInv, SyncNoMatch \/ SyncMatch
    PROVE  StreamInv'
  <1>1. /\ pstate = "HeaderSync" /\ ~empty /\ header' = Shifted /\ tail' = tail + 1
        /\ UNCHANGED <<data, head, stream, delivered>>
    BY DEF SyncNoMatch, SyncMatch, Running, Got, Consume, ghostVars
  <1>2. /\ InStream /\ head \in Nat /\ tail \in Nat /\ reserved = tail /\ mark = NoMark
        /\ SizeMagic \in Nat \ {0} /\ delivered \in Seq(FrameType) /\ stream \in Bytes
        /\ Len(stream) = head /\ Len(stream) \in Nat
    BY <1>1, ParserFacts, SizesAre DEF StreamInv, InStream, Bytes
  <1>3. PICK base \in 1..(tail + 1) : /\ LooksFrom(stream, delivered, base)
                                      /\ \E reset : Shifts(base, reset)
    BY <1>1 DEF StreamInv, Searching
  <1>4. PICK reset : Shifts(base, reset)
    BY <1>3
  <1>5. /\ tail + 1 <= Len(stream)
        /\ \A j \in 1..SizeMagic :
              Shifted[j] = IF j + (tail + 2 - base) <= SizeMagic
                           THEN reset[j + (tail + 2 - base)]
                           ELSE stream[tail + 1 - SizeMagic + j]
    BY <1>1, <1>2, <1>4, ShiftedIs
  <1>6. /\ Shifted = Magic => tail + 2 - base >= SizeMagic
        /\ tail + 2 - base >= SizeMagic
              => (Shifted = Magic <=> Stream!MagicAt(stream, tail + 2 - SizeMagic))
    BY <1>1, <1>2, <1>4, ShiftedMagic
  <1>7. \A k \in base..(tail + 1 - SizeMagic) : ~Stream!MagicAt(stream, k)
    BY <1>4 DEF Shifts
  <1>8. reserved' = tail + 1
    BY <1>1, <1>2 DEF SyncNoMatch, SyncMatch, Got, Consume, reserved
  <1>9. InStream'
    BY <1>1, <1>2, <1>8, InStreamKept
  <1>10. CASE SyncNoMatch
    <2>1. pstate' = "HeaderSync" /\ Shifted # Magic
      BY <1>1, <1>10 DEF SyncNoMatch
    <2>2. \A k \in base..(tail' + 1 - SizeMagic) : ~Stream!MagicAt(stream', k)
      <3> SUFFICES ASSUME NEW k \in base..(tail' + 1 - SizeMagic)
                   PROVE  ~Stream!MagicAt(stream, k)
        BY <1>1
      <3>1. CASE k <= tail + 1 - SizeMagic
        BY <1>2, <1>7, <3>1
      <3>2. CASE ~(k <= tail + 1 - SizeMagic)
        <4>1. k = tail + 2 - SizeMagic /\ tail + 2 - base >= SizeMagic
          BY <1>1, <1>2, <3>2
        <4> QED
          BY <1>6, <2>1, <4>1
      <3> QED
        BY <3>1, <3>2
    <2>3. \A j \in 1..SizeMagic :
             header'[j] = IF j + (tail' + 1 - base) <= SizeMagic
                          THEN reset[j + (tail' + 1 - base)]
                          ELSE stream'[tail' - SizeMagic + j]
      <3>1. tail' + 1 - base = tail + 2 - base /\ tail' - SizeMagic = tail + 1 - SizeMagic
        BY <1>1, <1>2
      <3> QED
        BY <1>1, <1>5, <3>1
    <2>4. Shifts(base, reset)'
      <3>1. reset \in {NoHeader, Magic}
        BY <1>4 DEF Shifts
      <3> QED
        BY <2>2, <2>3, <3>1 DEF Shifts, NoHeader
    <2>5. base \in 1..(tail' + 1) /\ LooksFrom(stream', delivered', base)
      BY <1>1, <1>2, <1>3
    <2>6. Searching'
      BY <2>4, <2>5 DEF Searching
    <2>7. Reading'
      BY <2>1 DEF Reading
    <2> QED
      BY <1>9, <2>6, <2>7 DEF StreamInv
  <1>11. CASE SyncMatch
    <2>1. pstate' = "TxId" /\ Shifted = Magic /\ mark' = tail + 1
      BY <1>1, <1>11 DEF SyncMatch
    <2> DEFINE st == tail + 2 - SizeMagic
    <2>2. /\ st \in base..(tail + 1) /\ Stream!MagicAt(stream, st) /\ st + SizeMagic = mark' + 1
          /\ st \in Nat \ {0} /\ base \in Nat \ {0} /\ st + SizeMagic - 1 <= Len(stream)
      BY <1>2, <1>5, <1>6, <2>1
    <2> HIDE DEF st
    <2>3. \A k \in base..(st - 1) : ~Stream!MagicAt(stream, k)
      <3>1. \A k \in base..(st - 1) : k \in base..(tail + 1 - SizeMagic)
        BY <1>2 DEF st
      <3> QED
        BY <1>7, <3>1
    <2>4. ASSUME NEW t, Continues(t, stream)
          PROVE  Stream!Scan(t)[1] = delivered \o Rest(t, mark' + 1)
      <3>1. Stream!Scan(t)[1] = delivered \o Stream!Scan(t)[base]
        BY <1>3, <2>4 DEF LooksFrom
      <3>2. t \in Bytes /\ Len(stream) <= Len(t) /\ Len(t) \in Nat
        BY <2>4 DEF Continues, Bytes
      <3>3. Stream!MagicAt(t, st)
        BY <1>2, <2>2, <2>4, SameMagic
      <3>4. \A k \in base..(st - 1) : ~Stream!MagicAt(t, k)
        <4> SUFFICES ASSUME NEW k \in base..(st - 1) PROVE ~Stream!MagicAt(t, k)
          OBVIOUS
        <4>1. k \in Nat \ {0} /\ k + SizeMagic - 1 <= Len(stream)
          BY <1>2, <2>2
        <4>2. ~Stream!MagicAt(stream, k)
          BY <2>3
        <4> QED
          BY <1>2, <2>4, <4>1, <4>2, SameMagic
      <3>5. base \in 1..(Len(t) + 1) /\ st \in base..Len(t)
        BY <1>2, <1>5, <2>2, <3>2
      <3>6. Stream!Scan(t)[base] = Rest(t, st + SizeMagic)
        BY <3>2, <3>3, <3>4, <3>5, RestIs
      <3> QED
        BY <2>2, <3>1, <3>6
    <2>5. ReadsFrom(stream', delivered', mark' + 1)
      BY <1>1, <2>4 DEF ReadsFrom
    <2>6. Reading'
      BY <1>1, <2>1, <2>5 DEF Reading
    <2>7. Searching'
      BY <2>1 DEF Searching
    <2> QED
      BY <1>9, <2>6, <2>7 DEF StreamInv
  <1> QED
    BY <1>10, <1>11

-----------------------------------------------------------------------------
(* Reading a field. *)
LEMMA ReadStream ==
    ASSUME ParserInv, StreamInv, ReadTxId \/ ReadCmd \/ ReadSize \/ ReadArgs
    PROVE  StreamInv'
  <1>1. /\ UNCHANGED <<data, head, mark, header, stream, delivered>>
        /\ pstate # "HeaderSync" /\ pstate' # "HeaderSync"
    BY DEF ReadTxId, ReadCmd, ReadSize, ReadArgs, Running, Got, Consume, ghostVars
  <1>2. /\ InStream /\ mark \in Nat /\ reserved = mark /\ tail = mark + Behind
        /\ argLen \in Nat /\ delivered \in Seq(FrameType)
    BY <1>1, ParserFacts DEF StreamInv, InStream
  <1>3. reserved' = reserved
    <2>1. mark # NoMark /\ mark' = mark
      BY <1>1, <1>2 DEF NoMark
    <2> QED
      BY <2>1 DEF reserved
  <1>4. InStream'
    BY <1>1, <1>2, <1>3, InStreamKept
  <1>5. Searching'
    BY <1>1 DEF Searching
  <1>6. header' = Magic /\ ReadsFrom(stream', delivered', mark' + 1)
    BY <1>1 DEF StreamInv, Reading
  <1>7. CASE ReadTxId
    <2>1. /\ pstate = "TxId" /\ pstate' = "Cmd" /\ CanRead(SizeTxid) /\ txid' = Peek(SizeTxid)
      BY <1>7 DEF ReadTxId, Running, Got
    <2>2. txid' = Stream!Txid(stream, mark + 1)
      <3>1. tail + 1 = mark + 1
        BY <1>2, <2>1 DEF Behind
      <3> QED
        BY <1>2, <2>1, <3>1, PeekIsField, SizesAre DEF Stream!Txid
    <2>3. Reading'
      BY <1>1, <1>6, <2>1, <2>2 DEF Reading
    <2> QED
      BY <1>4, <1>5, <2>3 DEF StreamInv
  <1>8. CASE ReadCmd
    <2>1. /\ pstate = "Cmd" /\ pstate' = "Size" /\ CanRead(SizeCmd) /\ cmd' = Peek(SizeCmd)
          /\ txid' = txid
      BY <1>8 DEF ReadCmd, Running, Got
    <2>2. cmd' = Stream!Cmd(stream, mark + 1)
      <3>1. tail + 1 = (mark + 1) + SizeTxid
        BY <1>2, <2>1, SizesAre DEF Behind
      <3> QED
        BY <1>2, <2>1, <3>1, PeekIsField, SizesAre DEF Stream!Cmd
    <2>3. txid' = Stream!Txid(stream, mark + 1)
      BY <2>1 DEF StreamInv, Reading
    <2>4. Reading'
      BY <1>1, <1>6, <2>1, <2>2, <2>3 DEF Reading
    <2> QED
      BY <1>4, <1>5, <2>4 DEF StreamInv
  <1>9. CASE ReadSize
    <2>1. /\ pstate = "Size" /\ pstate' = "Args" /\ CanRead(SizeLen) /\ size' = Peek(SizeLen)
          /\ txid' = txid /\ cmd' = cmd /\ argLen' = LenOf(size') /\ LenOf(size') <= MaxArgs
      BY <1>9 DEF ReadSize, Running, Got, SizeIsLegal
    <2>2. size' = Stream!Size(stream, mark + 1)
      <3>1. tail + 1 = (mark + 1) + SizeTxid + SizeCmd
        BY <1>2, <2>1, SizesAre DEF Behind
      <3> QED
        BY <1>2, <2>1, <3>1, PeekIsField, SizesAre DEF Stream!Size
    <2>3. txid' = Stream!Txid(stream, mark + 1) /\ cmd' = Stream!Cmd(stream, mark + 1)
      BY <2>1 DEF StreamInv, Reading
    <2>4. Stream!SizeFits(stream, mark + 1)
      BY <2>1, <2>2 DEF Stream!SizeFits
    <2>5. Reading'
      BY <1>1, <1>6, <2>1, <2>2, <2>3, <2>4 DEF Reading
    <2> QED
      BY <1>4, <1>5, <2>5 DEF StreamInv
  <1>10. CASE ReadArgs
    <2>1. /\ pstate = "Args" /\ pstate' = "Checksum" /\ CanRead(argLen) /\ args' = Peek(argLen)
          /\ txid' = txid /\ cmd' = cmd /\ size' = size /\ argLen' = argLen
      BY <1>10 DEF ReadArgs, Running, Got
    <2>2. /\ txid = Stream!Txid(stream, mark + 1) /\ cmd = Stream!Cmd(stream, mark + 1)
          /\ size = Stream!Size(stream, mark + 1) /\ argLen = LenOf(size)
          /\ Stream!SizeFits(stream, mark + 1)
      BY <2>1 DEF StreamInv, Reading
    <2>3. args' = Stream!Args(stream, mark + 1)
      <3>1. tail + 1 = (mark + 1) + SizePrefix
        BY <1>2, <2>1, SizesAre DEF Behind
      <3> QED
        BY <1>2, <2>1, <2>2, <3>1, PeekIsField, SizesAre DEF Stream!Args
    <2>4. Reading'
      BY <1>1, <1>6, <2>1, <2>2, <2>3 DEF Reading
    <2> QED
      BY <1>4, <1>5, <2>4 DEF StreamInv
  <1> QED
    BY <1>7, <1>8, <1>9, <1>10

-----------------------------------------------------------------------------
(* The end of a message, or of what is none. *)
LEMMA GiveUpStream ==
    ASSUME ParserInv, StreamInv, RejectSize \/ RejectChecksum
    PROVE  StreamInv'
  <1>0. PICK b : b = mark + 1
    OBVIOUS
  <1>1. /\ UNCHANGED <<data, head, stream, delivered>> /\ header' = NoHeader
        /\ pstate' = "HeaderSync" /\ tail' = reserved /\ mark' = NoMark /\ pstate # "HeaderSync"
    BY DEF RejectSize, RejectChecksum, GiveUp, Rewind, Running, ghostVars
  <1>2. /\ InStream /\ mark \in Nat /\ reserved = mark /\ tail = mark + Behind /\ b \in Nat \ {0}
        /\ delivered \in Seq(FrameType) /\ stream \in Bytes /\ SizeMagic \in Nat \ {0}
    BY <1>0, <1>1, ParserFacts, SizesAre DEF StreamInv, InStream
  <1>3. reserved' = mark /\ tail' = mark
    BY <1>1, <1>2 DEF reserved
  <1>4. InStream'
    BY <1>1, <1>2, <1>3, InStreamKept
  <1>5. /\ Stream!SizeKnown(stream, b)
        /\ \/ ~Stream!SizeFits(stream, b)
           \/ /\ Stream!SizeFits(stream, b) /\ Stream!Whole(stream, b)
              /\ ~Stream!Intact(stream, b)
    <2>1. CASE RejectSize
      <3>1. /\ pstate = "Size" /\ CanRead(SizeLen) /\ ~(LenOf(Peek(SizeLen)) <= MaxArgs)
        BY <2>1 DEF RejectSize, Running, SizeIsLegal
      <3>2. tail + 1 = b + SizeTxid + SizeCmd
        BY <1>0, <1>2, <3>1, SizesAre DEF Behind
      <3>3. /\ Peek(SizeLen) = Stream!Size(stream, b) /\ tail + 1 + SizeLen - 1 <= Len(stream)
        BY <1>2, <3>1, <3>2, PeekIsField, SizesAre DEF Stream!Size
      <3>4. Stream!SizeKnown(stream, b)
        <4>1. b + SizePrefix - 1 = tail + 1 + SizeLen - 1
          BY <1>0, <1>2, <3>2, ParserFacts, SizesAre
        <4> QED
          BY <3>3, <4>1, SizesAre DEF Stream!SizeKnown
      <3>5. ~Stream!SizeFits(stream, b)
        <4>1. ~(LenOf(Stream!Size(stream, b)) <= MaxArgs)
          BY <3>1, <3>3
        <4> QED
          BY <4>1 DEF Stream!SizeFits
      <3> QED
        BY <3>4, <3>5
    <2>2. CASE RejectChecksum
      <3>1. pstate = "Checksum" /\ CanRead(SizeCrc) /\ ~ChecksumMatches
        BY <2>2 DEF RejectChecksum, Running
      <3>2. /\ txid = Stream!Txid(stream, b) /\ cmd = Stream!Cmd(stream, b)
            /\ size = Stream!Size(stream, b) /\ argLen = LenOf(size)
            /\ Stream!SizeFits(stream, b) /\ args = Stream!Args(stream, b)
        BY <1>0, <3>1 DEF StreamInv, Reading
      <3>3. tail + 1 = Stream!CrcAt(stream, b) /\ argLen \in Nat
        <4>1. Behind = SizePrefix + argLen
          BY <3>1 DEF Behind
        <4>2. Stream!CrcAt(stream, b) = b + SizePrefix + argLen
          BY <3>2, SizesAre DEF Stream!CrcAt
        <4>3. argLen \in Nat
          BY ParserFacts
        <4> QED
          BY <1>0, <1>2, <4>1, <4>2, <4>3, SizesAre
      <3>4. /\ Peek(SizeCrc) = Stream!Field(stream, tail + 1, SizeCrc)
            /\ tail + 1 + SizeCrc - 1 <= Len(stream)
        BY <1>2, <3>1, PeekIsField, SizesAre
      <3>5. Stream!SizeKnown(stream, b)
        <4>1. b + SizePrefix - 1 <= tail + 1 + SizeCrc - 1 /\ b + SizePrefix - 1 \in Nat
              /\ Len(stream) \in Nat
          BY <1>0, <1>2, <3>1, <3>3, ParserFacts, SizesAre DEF Behind, Bytes
        <4> QED
          BY <3>4, <4>1, ParserFacts, SizesAre DEF Stream!SizeKnown
      <3>6. Stream!Whole(stream, b)
        BY <3>3, <3>4 DEF Stream!Whole
      <3> QED
        BY <3>1, <3>2, <3>3, <3>4, <3>5, <3>6 DEF ChecksumMatches, Stream!Intact
    <2> QED
      BY <2>1, <2>2
  <1>6. LooksFrom(stream', delivered', b)
    <2> SUFFICES ASSUME NEW t, Continues(t, stream)
                 PROVE  Stream!Scan(t)[1] = delivered \o Stream!Scan(t)[b]
      BY <1>1 DEF LooksFrom
    <2>1. Stream!Scan(t)[1] = delivered \o Rest(t, b)
      BY <1>0, <1>1 DEF StreamInv, Reading, ReadsFrom
    <2>2. Rest(t, b) = Stream!Scan(t)[b]
      BY <1>2, <1>5, SameRest
    <2> QED
      BY <2>1, <2>2
  <1>7. Shifts(b, NoHeader)'
    <2>1. b..(tail' + 1 - SizeMagic) = {} /\ tail' + 1 - b = 0
      BY <1>0, <1>2, <1>3
    <2>2. \A j \in 1..SizeMagic : j + 0 = j /\ j <= SizeMagic
      BY <1>2
    <2>3. \A j \in 1..SizeMagic : header'[j] = NoHeader[j]
      BY <1>1
    <2>5. \A k \in b..(tail' + 1 - SizeMagic) : ~Stream!MagicAt(stream', k)
      BY <2>1
    <2>6. \A j \in 1..SizeMagic :
             header'[j] = IF j + (tail' + 1 - b) <= SizeMagic
                          THEN NoHeader[j + (tail' + 1 - b)]
                          ELSE stream'[tail' - SizeMagic + j]
      BY <2>1, <2>2, <2>3
    <2> QED
      BY <2>5, <2>6 DEF Shifts, NoHeader
  <1>8. Searching'
    <2>1. b \in 1..(tail' + 1)
      BY <1>0, <1>2, <1>3
    <2> QED
      BY <1>6, <1>7, <2>1 DEF Searching
  <1> QED
    BY <1>1, <1>4, <1>8 DEF StreamInv, Reading

LEMMA AcceptStream ==
    ASSUME ParserInv, StreamInv, Accept
    PROVE  /\ StreamInv'
           /\ \E f \in FrameType, r \in Seq(FrameType) :
                 /\ delivered' = Append(delivered, f)
                 /\ Stream!FramesFrom(stream) = (delivered \o <<f>>) \o r
  <1>0. PICK b : b = mark + 1
    OBVIOUS
  <1>1. /\ UNCHANGED <<data, head, stream, header>> /\ pstate = "Checksum"
        /\ pstate' = "HeaderSync" /\ tail' = tail + SizeCrc /\ mark' = NoMark
        /\ CanRead(SizeCrc) /\ ChecksumMatches
        /\ delivered' = Append(delivered, [txid |-> txid, cmd |-> cmd, args |-> args])
    BY DEF Accept, Running
  <1>2. /\ InStream /\ mark \in Nat /\ reserved = mark /\ tail = mark + Behind /\ b \in Nat \ {0}
        /\ delivered \in Seq(FrameType) /\ stream \in Bytes /\ SizeMagic \in Nat \ {0}
        /\ argLen \in Nat /\ head \in Nat /\ Len(stream) = head /\ tail \in Nat
    BY <1>0, <1>1, ParserFacts, SizesAre DEF StreamInv, InStream
  <1>3. /\ txid = Stream!Txid(stream, b) /\ cmd = Stream!Cmd(stream, b)
        /\ size = Stream!Size(stream, b) /\ argLen = LenOf(size)
        /\ Stream!SizeFits(stream, b) /\ args = Stream!Args(stream, b) /\ header = Magic
    BY <1>0, <1>1 DEF StreamInv, Reading
  <1>4. tail + 1 = Stream!CrcAt(stream, b) /\ tail = mark + SizePrefix + argLen
    <2>1. Behind = SizePrefix + argLen
      BY <1>1 DEF Behind
    <2>2. Stream!CrcAt(stream, b) = b + SizePrefix + argLen
      BY <1>3, SizesAre DEF Stream!CrcAt
    <2> QED
      BY <1>0, <1>2, <2>1, <2>2, SizesAre
  <1>5. /\ Peek(SizeCrc) = Stream!Field(stream, tail + 1, SizeCrc)
        /\ tail + 1 + SizeCrc - 1 <= Len(stream)
    BY <1>1, <1>2, PeekIsField, SizesAre
  <1>6. /\ Stream!SizeKnown(stream, b) /\ Stream!Whole(stream, b) /\ Stream!Intact(stream, b)
    <2>1. b + SizePrefix - 1 <= Len(stream)
      BY <1>0, <1>2, <1>4, <1>5, SizesAre
    <2>2. Stream!SizeKnown(stream, b)
      BY <2>1, SizesAre DEF Stream!SizeKnown
    <2>3. Stream!Whole(stream, b)
      BY <1>4, <1>5 DEF Stream!Whole
    <2>4. Stream!Intact(stream, b)
      BY <1>1, <1>3, <1>4, <1>5 DEF ChecksumMatches, Stream!Intact
    <2> QED
      BY <2>2, <2>3, <2>4
  <1>7. PICK f : f = Stream!Frame(stream, b)
    OBVIOUS
  <1>8. f \in FrameType /\ delivered' = Append(delivered, f)
    BY <1>1, <1>2, <1>3, <1>6, <1>7, FrameIs DEF Stream!Frame
  <1>9. delivered' = delivered \o <<f>> /\ delivered' \in Seq(FrameType)
    BY <1>2, <1>8
  <1>10. reserved' = tail + SizeCrc
    BY <1>1 DEF reserved
  <1>11. PICK base : base = tail + SizeCrc + 1
    OBVIOUS
  <1>12. /\ base \in 1..(tail' + 1) /\ base \in 1..(Len(stream) + 1)
         /\ Stream!CrcAt(stream, b) + SizeCrc = base
    <2>1. tail' = tail + SizeCrc /\ tail \in Nat /\ SizeCrc \in Nat /\ Len(stream) \in Nat
      BY <1>1, <1>2, SizesAre
    <2>2. tail + 1 + SizeCrc - 1 <= Len(stream) /\ Stream!CrcAt(stream, b) = tail + 1
      BY <1>4, <1>5
    <2> QED
      BY <2>1, <2>2, <1>11
  <1>13. InStream'
    <2>1. reserved <= reserved' /\ reserved' \in Nat
      BY <1>2, <1>4, <1>10, SizesAre
    <2> QED
      BY <1>1, <1>2, <1>9, <2>1, InStreamKept
  <1>14. ASSUME NEW t, Continues(t, stream)
         PROVE  /\ Stream!Scan(t)[1] = (delivered \o <<f>>) \o Stream!Scan(t)[base]
                /\ Stream!Scan(t)[base] \in Seq(FrameType)
    <2>1. Stream!Scan(t)[1] = delivered \o Rest(t, b)
      BY <1>0, <1>1, <1>14 DEF StreamInv, Reading, ReadsFrom
    <2>2. Rest(t, b) = <<f>> \o Stream!Scan(t)[base]
      BY <1>2, <1>3, <1>6, <1>7, <1>12, <1>14, SameRest
    <2>3. Stream!Scan(t)[base] \in Seq(FrameType)
      <3>1. t \in Bytes /\ base \in 1..(Len(t) + 1)
        BY <1>2, <1>12, <1>14 DEF Continues, Bytes
      <3> QED
        BY <3>1, ScanIs
    <2>4. \A r \in Seq(FrameType) : delivered \o (<<f>> \o r) = (delivered \o <<f>>) \o r
      <3>1. delivered \in Seq(FrameType) /\ f \in FrameType
        BY <1>2, <1>8
      <3> QED
        BY <3>1
    <2> QED
      BY <2>1, <2>2, <2>3, <2>4
  <1>15. LooksFrom(stream', delivered', base)
    BY <1>1, <1>9, <1>14 DEF LooksFrom
  <1>16. Shifts(base, Magic)'
    <2>1. base..(tail' + 1 - SizeMagic) = {} /\ tail' + 1 - base = 0
      <3>1. /\ tail' = tail + SizeCrc /\ tail \in Nat /\ SizeCrc \in Nat /\ SizeMagic \in Nat \ {0}
        BY <1>1, <1>2, SizesAre
      <3> QED
        BY <3>1, <1>11
    <2>2. \A j \in 1..SizeMagic : j + 0 = j /\ j <= SizeMagic
      BY <1>2
    <2>3. \A j \in 1..SizeMagic : header'[j] = Magic[j]
      BY <1>1, <1>3
    <2>4. \A k \in base..(tail' + 1 - SizeMagic) : ~Stream!MagicAt(stream', k)
      BY <2>1
    <2>5. \A j \in 1..SizeMagic :
             header'[j] = IF j + (tail' + 1 - base) <= SizeMagic
                          THEN Magic[j + (tail' + 1 - base)]
                          ELSE stream'[tail' - SizeMagic + j]
      BY <2>1, <2>2, <2>3
    <2> QED
      BY <2>4, <2>5 DEF Shifts
  <1>17. StreamInv'
    BY <1>1, <1>12, <1>13, <1>15, <1>16 DEF StreamInv, Searching, Reading
  <1>18. Continues(stream, stream)
    BY <1>2 DEF Continues, Bytes
  <1> QED
    BY <1>8, <1>14, <1>17, <1>18 DEF Stream!FramesFrom

-----------------------------------------------------------------------------
(* Between two runs of parseNext(). *)
LEMMA JoinedSeq ==
    ASSUME NEW S, NEW s \in Seq(S), NEW t \in Seq(S)
    PROVE  /\ s \o t \in Seq(S) /\ Len(s \o t) = Len(s) + Len(t)
           /\ \A i \in 1..Len(s) : (s \o t)[i] = s[i]
           /\ \A k \in 1..Len(t) : (s \o t)[Len(s) + k] = t[k]
  OBVIOUS

LEMMA FeedStream ==
    ASSUME ParserInv, StreamInv, NEW chunk, Feed(chunk)
    PROVE  StreamInv' /\ Stream!Arrive
  <1>0. PICK src : src = Clamp(chunk)
    OBVIOUS
  <1> DEFINE n == Len(src)
  <1>1. /\ data' = Stored(src) /\ head' = head + n /\ stream' = stream \o src
        /\ UNCHANGED <<tail, mark, pstate, header, txid, cmd, size, argLen, args, delivered>>
    BY <1>0 DEF Feed, Write, fieldVars
  <1>2. src \in Seq(Byte) /\ n \in Nat /\ n <= freeSpace
    BY <1>0, ClampType DEF Feed, ParserInv, TypeOK
  <1>3. /\ InStream /\ stream \in Bytes /\ Len(stream) = head /\ head \in Nat
        /\ tail \in Nat /\ tail <= head /\ reserved \in Nat /\ reserved <= tail
        /\ delivered \in Seq(FrameType) /\ RingInv /\ SizeMagic \in Nat \ {0}
        /\ pstate \in States /\ argLen \in Nat
        /\ pstate # "HeaderSync" => mark \in Nat /\ tail = mark + Behind
    BY ParserFacts, SizesAre DEF StreamInv, InStream
  <1>4. /\ stream' \in Bytes /\ Len(stream') = head + n
        /\ \A i \in 1..head : stream'[i] = stream[i]
        /\ \A k \in 1..n : stream'[head + k] = src[k]
    <2>1. stream \in Seq(Byte) /\ stream' = stream \o src /\ Len(stream) = head
      BY <1>1, <1>3 DEF Bytes
    <2>2. /\ stream \o src \in Seq(Byte) /\ Len(stream \o src) = Len(stream) + n
          /\ \A i \in 1..Len(stream) : (stream \o src)[i] = stream[i]
          /\ \A k \in 1..n : (stream \o src)[Len(stream) + k] = src[k]
      <3>1. src \in Seq(Byte) /\ stream \in Seq(Byte)
        BY <1>2, <2>1
      <3> QED
        BY <3>1, JoinedSeq
    <2> HIDE DEF n
    <2> QED
      BY <2>1, <2>2 DEF Bytes
  <1>5. reserved' = reserved
    BY <1>1 DEF reserved
  <1>6. /\ \A i \in reserved..(head - 1) : Stored(src)[Slot(i)] = data[Slot(i)]
        /\ \A k \in 1..n : Stored(src)[Slot(head + k - 1)] = src[k]
    <2>1. src \in [1..n -> Byte]
      BY <1>2
    <2> HIDE DEF n
    <2> QED
      BY <1>2, <1>3, <2>1, StoredIs
  <1> HIDE DEF n
  <1>7. InStream'
    <2>1. ASSUME NEW i \in reserved..(head + n - 1) PROVE Stored(src)[Slot(i)] = stream'[i + 1]
      <3>1. CASE i < head
        <4>1. i \in reserved..(head - 1) /\ i + 1 \in 1..head
          BY <1>3, <3>1
        <4> QED
          BY <1>3, <1>4, <1>6, <4>1 DEF InStream
      <3>2. CASE ~(i < head)
        <4>1. PICK k \in 1..n : i = head + k - 1
          <5>1. i - head + 1 \in 1..n /\ i = head + (i - head + 1) - 1
            BY <1>2, <1>3, <3>2
          <5> QED
            BY <5>1
        <4>2. i + 1 = head + k
          BY <1>3, <4>1
        <4> QED
          BY <1>4, <1>6, <4>1, <4>2
      <3> QED
        BY <3>1, <3>2
    <2>2. (\A i \in reserved..(head - 1) : data[Slot(i)] = stream[i + 1])'
      <3>1. reserved' = reserved /\ head' = head + n /\ data' = Stored(src)
        BY <1>1, <1>5
      <3>2. ASSUME NEW i \in reserved'..(head' - 1) PROVE data'[Slot(i)] = stream'[i + 1]
        <4>1. i \in reserved..(head + n - 1)
          BY <1>2, <1>3, <3>1
        <4>2. Stored(src)[Slot(i)] = stream'[i + 1]
          BY <2>1, <4>1
        <4> QED
          BY <3>1, <4>2
      <3> QED
        BY <3>2 DEF Slot
    <2> QED
      BY <1>1, <1>3, <1>4, <2>2 DEF InStream
  <1>8. Continues(stream', stream)
    BY <1>2, <1>3, <1>4 DEF Continues
  <1>9. ASSUME NEW t, Continues(t, stream') PROVE Continues(t, stream)
    <2>1. t \in Bytes /\ head + n <= Len(t) /\ Len(t) \in Nat
          /\ \A i \in 1..(head + n) : t[i] = stream'[i]
      BY <1>4, <1>9 DEF Continues, Bytes
    <2>2. \A i \in 1..head : i \in 1..(head + n)
      BY <1>2, <1>3
    <2> QED
      BY <1>2, <1>3, <1>4, <2>1, <2>2 DEF Continues
  <1>10. Searching'
    <2> SUFFICES ASSUME pstate = "HeaderSync" PROVE Searching'
      BY <1>1 DEF Searching
    <2>1. PICK base \in 1..(tail + 1) : /\ LooksFrom(stream, delivered, base)
                                        /\ \E reset : Shifts(base, reset)
      BY DEF StreamInv, Searching
    <2>2. PICK reset : Shifts(base, reset)
      BY <2>1
    <2>3. LooksFrom(stream', delivered', base)
      BY <1>1, <1>9, <2>1 DEF LooksFrom
    <2>4. ASSUME NEW k \in base..(tail + 1 - SizeMagic) PROVE ~Stream!MagicAt(stream', k)
      <3>1. k \in Nat \ {0} /\ k + SizeMagic - 1 <= Len(stream)
        BY <1>3
      <3>2. ~Stream!MagicAt(stream, k)
        BY <2>2 DEF Shifts
      <3> QED
        BY <1>3, <1>8, <3>1, <3>2, SameMagic
    <2>5. ASSUME NEW j \in 1..SizeMagic
          PROVE  header[j] = IF j + (tail + 1 - base) <= SizeMagic
                             THEN reset[j + (tail + 1 - base)]
                             ELSE stream'[tail - SizeMagic + j]
      <3>1. header[j] = IF j + (tail + 1 - base) <= SizeMagic
                        THEN reset[j + (tail + 1 - base)]
                        ELSE stream[tail - SizeMagic + j]
        BY <2>2 DEF Shifts
      <3>2. ~(j + (tail + 1 - base) <= SizeMagic) => tail - SizeMagic + j \in 1..head
        BY <1>3
      <3> QED
        BY <1>4, <3>1, <3>2
    <2>6. Shifts(base, reset)'
      <3>1. reset \in {NoHeader, Magic}
        BY <2>2 DEF Shifts
      <3> QED
        BY <1>1, <2>4, <2>5, <3>1 DEF Shifts, NoHeader
    <2> QED
      BY <1>1, <2>3, <2>6 DEF Searching
  <1>11. Reading'
    <2> SUFFICES ASSUME pstate # "HeaderSync" PROVE Reading'
      BY <1>1 DEF Reading
    <2>0. PICK b : b = mark + 1
      OBVIOUS
    <2>1. b \in Nat \ {0} /\ tail = b - 1 + Behind /\ tail <= Len(stream) /\ mark' + 1 = b
      BY <1>1, <1>3, <2>0
    <2>2. ReadsFrom(stream', delivered', b)
      <3>1. ReadsFrom(stream, delivered, b)
        BY <2>0 DEF StreamInv, Reading
      <3> QED
        BY <1>1, <1>9, <3>1 DEF ReadsFrom
    <2>3. header = Magic
      BY DEF StreamInv, Reading
    <2>4. pstate # "TxId" => txid = Stream!Txid(stream', b)
      <3> SUFFICES ASSUME pstate # "TxId" PROVE txid = Stream!Txid(stream', b)
        OBVIOUS
      <3>1. b + SizeTxid - 1 <= Len(stream)
        <4>1. Behind \in Nat /\ Behind >= SizeTxid
          <5>1. CASE pstate = "Checksum"
            <6>1. Behind = SizePrefix + argLen
              BY <5>1 DEF Behind
            <6> QED
              BY <1>3, <6>1, SizesAre
          <5>2. CASE pstate \in {"Cmd", "Size", "Args"}
            BY <5>2, SizesAre DEF Behind
          <5> QED
            BY <1>3, <5>1, <5>2 DEF States
        <4> QED
          BY <1>3, <2>1, <4>1, SizesAre
      <3>2. txid = Stream!Txid(stream, b)
        BY <2>0 DEF StreamInv, Reading
      <3> QED
        BY <1>3, <1>8, <2>1, <3>1, <3>2, SameField, SizesAre DEF Stream!Txid
    <2>5. pstate \in {"Size", "Args", "Checksum"} => cmd = Stream!Cmd(stream', b)
      <3> SUFFICES ASSUME pstate \in {"Size", "Args", "Checksum"}
                   PROVE  cmd = Stream!Cmd(stream', b)
        OBVIOUS
      <3>1. b + SizeTxid \in Nat \ {0} /\ b + SizeTxid + SizeCmd - 1 <= Len(stream)
        BY <1>3, <2>1, SizesAre DEF Behind
      <3>2. cmd = Stream!Cmd(stream, b)
        BY <2>0 DEF StreamInv, Reading
      <3> QED
        BY <1>3, <1>8, <2>1, <3>1, <3>2, SameField, SizesAre DEF Stream!Cmd
    <2>6. pstate \in {"Args", "Checksum"}
             => /\ size = Stream!Size(stream', b) /\ argLen = LenOf(size)
                /\ Stream!SizeFits(stream', b)
                /\ pstate = "Checksum" => args = Stream!Args(stream', b)
      <3> SUFFICES ASSUME pstate \in {"Args", "Checksum"}
                   PROVE  /\ size = Stream!Size(stream', b) /\ argLen = LenOf(size)
                          /\ Stream!SizeFits(stream', b)
                          /\ pstate = "Checksum" => args = Stream!Args(stream', b)
        OBVIOUS
      <3>1. Stream!SizeKnown(stream, b)
        <4>1. b + SizePrefix - 1 <= Len(stream)
          BY <1>3, <2>1, SizesAre DEF Behind
        <4> QED
          BY <4>1, SizesAre DEF Stream!SizeKnown
      <3>2. size = Stream!Size(stream, b) /\ argLen = LenOf(size) /\ Stream!SizeFits(stream, b)
        BY <2>0 DEF StreamInv, Reading
      <3>3. size = Stream!Size(stream', b) /\ Stream!SizeFits(stream', b)
        BY <1>3, <1>8, <2>1, <3>1, <3>2, SamePrefix
      <3>4. ASSUME pstate = "Checksum" PROVE args = Stream!Args(stream', b)
        <4>1. b + SizePrefix \in Nat \ {0} /\ b + SizePrefix + argLen - 1 <= Len(stream)
          BY <1>3, <2>1, <3>4, SizesAre DEF Behind
        <4>2. args = Stream!Args(stream, b)
          BY <2>0, <3>4 DEF StreamInv, Reading
        <4>3. Stream!Field(stream', b + SizePrefix, argLen) = Stream!Field(stream, b + SizePrefix, argLen)
          BY <1>3, <1>8, <4>1, SameField
        <4> QED
          BY <3>2, <3>3, <4>2, <4>3, SizesAre DEF Stream!Args
      <3> QED
        BY <3>2, <3>3, <3>4
    <2> QED
      BY <1>1, <2>1, <2>2, <2>3, <2>4, <2>5, <2>6 DEF Reading
  <1>12. Stream!Arrive
    <2>1. stream' \in Seq(Byte) /\ Len(stream') >= Len(stream)
      BY <1>2, <1>3, <1>4 DEF Bytes
    <2>2. SubSeq(stream', 1, Len(stream)) = stream
      BY <1>1, <1>2, <1>3 DEF Bytes
    <2> QED
      BY <1>1, <2>1, <2>2 DEF Stream!Arrive
  <1> QED
    BY <1>7, <1>10, <1>11, <1>12 DEF StreamInv

(* The start, and clear(). *)
LEMMA FreshStream ==
    ASSUME NEW s, s = <<>>
    PROVE  s \in Bytes /\ Len(s) = 0 /\ LooksFrom(s, s, 1)
  <1>1. s \in Bytes /\ Len(s) = 0
    BY DEF Bytes
  <1>2. ASSUME NEW t, Continues(t, s)
        PROVE  Stream!Scan(t)[1] = s \o Stream!Scan(t)[1]
    <2>1. t \in Bytes /\ 1 \in 1..(Len(t) + 1)
      BY <1>2 DEF Continues, Bytes
    <2>2. Stream!Scan(t)[1] \in Seq(FrameType)
      BY <2>1, ScanIs
    <2> QED
      BY <2>2
  <1> QED
    BY <1>1, <1>2 DEF LooksFrom

LEMMA InitStream == Init => StreamInv /\ Stream!Init
  <1> SUFFICES ASSUME Init PROVE StreamInv /\ Stream!Init
    OBVIOUS
  <1>1. /\ head = 0 /\ tail = 0 /\ mark = NoMark /\ pstate = "HeaderSync" /\ header = NoHeader
        /\ stream = <<>> /\ delivered = <<>> /\ reserved = 0 /\ SizeMagic \in Nat \ {0}
    BY SizesAre DEF Init, RingInit, reserved
  <1>2. stream \in Bytes /\ Len(stream) = 0 /\ LooksFrom(stream, delivered, 1)
    BY <1>1, FreshStream
  <1>3. InStream
    BY <1>1, <1>2 DEF InStream
  <1>4. Shifts(1, NoHeader)
    <2>1. 1..(tail + 1 - SizeMagic) = {} /\ tail + 1 - 1 = 0
      BY <1>1
    <2>2. \A j \in 1..SizeMagic : j + 0 = j /\ j <= SizeMagic
      BY <1>1
    <2> QED
      BY <1>1, <2>1, <2>2 DEF Shifts
  <1> QED
    BY <1>1, <1>2, <1>3, <1>4 DEF StreamInv, Searching, Reading, Stream!Init

LEMMA ClearStream ==
    ASSUME Clear
    PROVE  StreamInv' /\ Stream!Restart
  <1>1. /\ head' = 0 /\ tail' = 0 /\ mark' = NoMark /\ pstate' = "HeaderSync"
        /\ header' = NoHeader /\ stream' = <<>> /\ delivered' = <<>> /\ reserved' = 0
        /\ SizeMagic \in Nat \ {0}
    BY SizesAre DEF Clear, RingClear, reserved
  <1>2. stream' \in Bytes /\ Len(stream') = 0 /\ LooksFrom(stream', delivered', 1)
    BY <1>1, FreshStream
  <1>3. InStream'
    <2>1. (\A i \in reserved..(head - 1) : data[Slot(i)] = stream[i + 1])'
      BY <1>1
    <2> QED
      BY <1>1, <1>2, <2>1 DEF InStream
  <1>4. Shifts(1, NoHeader)'
    <2>1. 1..(tail' + 1 - SizeMagic) = {} /\ tail' + 1 - 1 = 0
      BY <1>1
    <2>2. \A j \in 1..SizeMagic : j + 0 = j /\ j <= SizeMagic
      BY <1>1
    <2> QED
      BY <1>1, <2>1, <2>2 DEF Shifts, NoHeader
  <1> QED
    BY <1>1, <1>2, <1>3, <1>4 DEF StreamInv, Searching, Reading, Stream!Restart

LEMMA SameStream ==
    ASSUME StreamInv,
           UNCHANGED <<ringVars, pstate, header, txid, cmd, size, argLen, args, ghostVars>>
    PROVE  StreamInv'
  BY DEF StreamInv, InStream, Searching, Reading, Shifts, LooksFrom, ReadsFrom, ringVars,
         ghostVars, reserved, NoHeader, Slot

LEMMA StreamStep ==
    ASSUME ParserInv, StreamInv, [Next]_vars
    PROVE  StreamInv' /\ [Stream!Next]_(Stream!streamVars)
  <1>1. CASE \E chunk \in Piece(stream) : Feed(chunk)
    BY <1>1, FeedStream DEF Stream!Next
  <1>2. CASE Clear
    BY <1>2, ClearStream DEF Stream!Next
  <1>3. CASE ParseNext \/ WaitForMore \/ UNCHANGED vars
    <2>1. UNCHANGED <<ringVars, pstate, header, txid, cmd, size, argLen, args, ghostVars>>
      BY <1>3 DEF ParseNext, WaitForMore, vars, parserVars, fieldVars
    <2> QED
      BY <2>1, SameStream DEF ghostVars, Stream!streamVars
  <1>4. CASE SyncNoMatch \/ SyncMatch
    BY <1>4, SyncStream DEF SyncNoMatch, SyncMatch, ghostVars, Stream!streamVars
  <1>5. CASE ReadTxId \/ ReadCmd \/ ReadSize \/ ReadArgs
    BY <1>5, ReadStream
       DEF ReadTxId, ReadCmd, ReadSize, ReadArgs, ghostVars, Stream!streamVars
  <1>6. CASE RejectSize \/ RejectChecksum
    BY <1>6, GiveUpStream
       DEF RejectSize, RejectChecksum, GiveUp, ghostVars, Stream!streamVars
  <1>7. CASE Accept
    <2>1. PICK f \in FrameType, r \in Seq(FrameType) :
                 /\ delivered' = Append(delivered, f)
                 /\ Stream!FramesFrom(stream) = (delivered \o <<f>>) \o r
      BY <1>7, AcceptStream
    <2>2. delivered \in Seq(FrameType)
      BY DEF StreamInv, InStream
    <2> DEFINE all == (delivered \o <<f>>) \o r
    <2>3. Len(delivered) < Len(all) /\ all[Len(delivered) + 1] = f
      BY <2>2
    <2>4. stream' = stream
      BY <1>7 DEF Accept
    <2>5. Stream!Deliver
      BY <2>1, <2>3, <2>4 DEF Stream!Deliver
    <2> QED
      BY <1>7, <2>5, AcceptStream DEF Stream!Next
  <1> QED
    BY <1>1, <1>2, <1>3, <1>4, <1>5, <1>6, <1>7 DEF Next, ParseStep

-----------------------------------------------------------------------------
LEMMA NothingMore == ParserInv /\ StreamInv => DrainedIsComplete
  <1> SUFFICES ASSUME ParserInv, StreamInv, call = "drained"
               PROVE  delivered = Stream!FramesFrom(stream)
    BY DEF DrainedIsComplete
  <1>1. /\ stream \in Bytes /\ Len(stream) = head /\ head \in Nat /\ tail \in Nat /\ tail <= head
        /\ delivered \in Seq(FrameType) /\ pstate \in States /\ argLen \in Nat
    BY ParserFacts DEF StreamInv, InStream
  <1>2. head = tail \/ head - tail < Need
    BY DEF ParserInv, DrainedWaits, empty, available
  <1>3. Continues(stream, stream)
    BY <1>1 DEF Continues
  <1>4. delivered \o <<>> = delivered
    BY <1>1
  <1>5. CASE pstate = "HeaderSync"
    <2>1. head = tail
      BY <1>1, <1>2, <1>5 DEF Need
    <2>2. PICK base \in 1..(tail + 1) : /\ LooksFrom(stream, delivered, base)
                                        /\ \E reset : Shifts(base, reset)
      BY <1>5 DEF StreamInv, Searching
    <2>3. \A k \in base..(tail + 1 - SizeMagic) : ~Stream!MagicAt(stream, k)
      BY <2>2 DEF Shifts
    <2>4. Stream!Starts(stream, base) = {}
      <3> SUFFICES ASSUME NEW k \in base..Len(stream), Stream!MagicAt(stream, k) PROVE FALSE
        BY DEF Stream!Starts
      <3>1. k + SizeMagic - 1 <= Len(stream)
        BY SizesAre DEF Stream!MagicAt
      <3>2. k \in base..(tail + 1 - SizeMagic)
        BY <1>1, <2>1, <3>1, SizesAre
      <3> QED
        BY <2>3, <3>2
    <2>5. Stream!Scan(stream)[base] = <<>>
      BY <1>1, <2>1, <2>4, NothingLeft
    <2> QED
      BY <1>3, <1>4, <2>2, <2>5 DEF LooksFrom, Stream!FramesFrom
  <1>6. CASE pstate # "HeaderSync"
    <2>0. PICK b : b = mark + 1
      OBVIOUS
    <2>1. b \in Nat \ {0} /\ tail = b - 1 + Behind
      BY <1>6, <2>0, ParserFacts
    <2>2. Stream!Scan(stream)[1] = delivered \o Rest(stream, b)
      BY <1>3, <1>6, <2>0 DEF StreamInv, Reading, ReadsFrom
    <2>3. Rest(stream, b) = <<>>
      <3>1. CASE pstate \in {"TxId", "Cmd", "Size"}
        <4>1. ~(b + SizePrefix - 1 <= Len(stream))
          <5>1. Behind \in Nat /\ Need \in Nat \ {0} /\ Behind + Need <= SizePrefix
            BY <3>1, SizesAre DEF Behind, Need
          <5> QED
            BY <1>1, <1>2, <2>1, <5>1, SizesAre
        <4> QED
          BY <4>1, SizesAre DEF Rest, Stream!SizeKnown
      <3>2. CASE pstate \in {"Args", "Checksum"}
        <4>1. /\ argLen = LenOf(Stream!Size(stream, b)) /\ Stream!SizeFits(stream, b)
          BY <2>0, <3>2 DEF StreamInv, Reading
        <4>2. ~(b + SizePrefix + argLen + SizeCrc - 1 <= Len(stream))
          <5>1. CASE pstate = "Args"
            <6>1. Behind = SizePrefix /\ Need = argLen
              BY <5>1 DEF Behind, Need
            <6> QED
              BY <1>1, <1>2, <2>1, <6>1, SizesAre
          <5>2. CASE pstate = "Checksum"
            <6>1. Behind = SizePrefix + argLen /\ Need = SizeCrc
              BY <5>2 DEF Behind, Need
            <6> QED
              BY <1>1, <1>2, <2>1, <6>1, SizesAre
          <5> QED
            BY <3>2, <5>1, <5>2
        <4>3. ~Stream!Whole(stream, b)
          BY <4>1, <4>2, SizesAre DEF Stream!Whole, Stream!CrcAt
        <4> QED
          BY <4>1, <4>3 DEF Rest
      <3> QED
        BY <1>1, <1>6, <3>1, <3>2 DEF States
    <2> QED
      BY <1>4, <2>2, <2>3 DEF Stream!FramesFrom
  <1> QED
    BY <1>5, <1>6

(* Whatever the parser was fed and however the bytes were cut: what it     *)
(* holds, what it read so far and what it delivered add up to the stream.  *)
THEOREM StreamInvariant == Spec => []StreamInv
  <1>1. Init => StreamInv
    BY InitStream
  <1>2. ParserInv /\ StreamInv /\ [Next]_vars => StreamInv'
    BY StreamStep
  <1> QED
    BY <1>1, <1>2, ParserCorrect, PTL DEF Spec

(* When parseNext() has returned false, every message that is complete in  *)
(* the bytes fed so far has been delivered (parser.h:50-130).              *)
THEOREM NothingIsLost == Spec => []DrainedIsComplete
  BY ParserCorrect, StreamInvariant, NothingMore, PTL

(* The parser, over any buffer and with any layout of messages, delivers   *)
(* the messages of the stream: none is lost behind a false magic, changed, *)
(* delivered twice or out of order, wherever feed() was cut                *)
(* (parser.h:50-130).                                                      *)
THEOREM ParserImplementsStream == Spec => ImplementsFrameStream
  <1>1. Init => Stream!Init
    BY InitStream
  <1>2. ParserInv /\ StreamInv /\ [Next]_vars => [Stream!Next]_(Stream!streamVars)
    BY StreamStep
  <1> QED
    BY <1>1, <1>2, ParserCorrect, StreamInvariant, PTL
       DEF Spec, ImplementsFrameStream, Stream!Spec
=============================================================================
