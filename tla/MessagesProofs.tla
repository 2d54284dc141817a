--------------------------- MODULE MessagesProofs ---------------------------
(***************************************************************************)
(* Theorems about module Messages: its queue, an array with two indices    *)
(* that wrap, is a queue with a capacity; a message that is complete is    *)
(* what the wire was promised; its checksum is the remainder of a          *)
(* division; and the other side reads what was written.                    *)
(***************************************************************************)
EXTENDS Messages, Induction

LEMMA SameSeq ==
    ASSUME NEW S, NEW s \in Seq(S), NEW t \in Seq(S), Len(s) = Len(t),
           \A i \in 1..Len(s) : s[i] = t[i]
    PROVE  s = t
  OBVIOUS
-----------------------------------------------------------------------------
(* Remainders. *)
LEMMA DivMod ==
    ASSUME NEW c \in Nat \ {0}, NEW a \in Int
    PROVE  a % c \in 0..(c - 1) /\ a \div c \in Int /\ a % c = a - c * (a \div c)
  OBVIOUS

LEMMA OneRemainder ==
    ASSUME NEW c \in Nat \ {0}, NEW p \in Int, NEW q \in Int,
           NEW r \in 0..(c - 1), NEW s \in 0..(c - 1), c * p + r = c * q + s
    PROVE  r = s
  OBVIOUS

LEMMA AddMultiple ==
    ASSUME NEW c \in Nat \ {0}, NEW a \in Int, NEW p \in Int
    PROVE  (a + c * p) % c = a % c
  <1> DEFINE b == a + c * p
             u == a \div c
             v == b \div c
             r == a % c
             s == b % c
  <1>1. c * p \in Int /\ b \in Int
    OBVIOUS
  <1>2. /\ u \in Int /\ v \in Int /\ r \in 0..(c - 1) /\ s \in 0..(c - 1)
        /\ r = a - c * u /\ s = b - c * v
    BY <1>1, DivMod
  <1> HIDE DEF u, v, r, s
  <1>3. c * (u + p) = c * u + c * p /\ u + p \in Int
    BY <1>2
  <1>4. c * v + s = c * (u + p) + r
    <2>1. c * u \in Int /\ c * v \in Int /\ c * p \in Int
      BY <1>2
    <2> QED
      BY <1>2, <1>3, <2>1
  <1>5. s = r
    BY <1>2, <1>3, <1>4, OneRemainder
  <1> QED
    BY <1>5 DEF s, r

LEMMA WithinOneTurn ==
    ASSUME NEW c \in Nat \ {0}, NEW a \in Int, NEW b \in Int, a <= b, b < a + c, a % c = b % c
    PROVE  a = b
  <1> DEFINE u == a \div c
             v == b \div c
  <1>1. /\ u \in Int /\ v \in Int /\ a % c \in 0..(c - 1)
        /\ a % c = a - c * u /\ b % c = b - c * v
    BY DivMod
  <1> HIDE DEF u, v
  <1>2. c * u \in Int /\ c * v \in Int
    BY <1>1
  <1>3. b - a = c * v - c * u
    BY <1>1, <1>2
  <1>4. CASE u < v
    <2>1. c * u + c <= c * v
      BY <1>1, <1>4
    <2> QED
      BY <1>2, <1>3, <2>1
  <1>5. CASE v < u
    <2>1. c * v + c <= c * u
      BY <1>1, <1>5
    <2> QED
      BY <1>2, <1>3, <2>1
  <1>6. CASE u = v
    BY <1>2, <1>3, <1>6
  <1> QED
    BY <1>1, <1>4, <1>5, <1>6
-----------------------------------------------------------------------------
(* The indices of the queue. *)
C == QueueCapacity
M == IndexMod

QueueInv == /\ slots = [i \in 0..(C - 1) |-> slots[i]]
            /\ qhead \in 0..(M - 1) /\ qtail \in 0..(M - 1)
            /\ QueueSize <= C

LEMMA CapacityIs == C \in Nat \ {0} /\ M \in Nat \ {0} /\ M > C
  BY QueueAssumption DEF C, M

(* The capacity divides the number of values of a size_t, so that an index *)
(* that wraps stays at its place in the array.                             *)
LEMMA OneTurn ==
    ASSUME NEW a \in Int
    PROVE  Index(a + M) = Index(a) /\ Index(a - M) = Index(a)
  <1> DEFINE P == M \div C
  <1>1. P \in Int /\ M = C * P
    <2>1. M % C = M - C * P /\ P \in Int
      BY CapacityIs, DivMod
    <2>2. M % C = 0
      BY QueueAssumption DEF C, M
    <2>3. C * P \in Int
      BY <2>1, CapacityIs
    <2> QED
      BY <2>1, <2>2, <2>3, CapacityIs
  <1> HIDE DEF P
  <1>2. (a + C * P) % C = a % C
    BY <1>1, CapacityIs, AddMultiple
  <1>3. ((a - C * P) + C * P) % C = (a - C * P) % C
    <2>1. a - C * P \in Int
      BY <1>1, CapacityIs
    <2> QED
      BY <1>1, <2>1, CapacityIs, AddMultiple
  <1>4. (a - C * P) + C * P = a
    <2>1. C * P \in Int
      BY <1>1, CapacityIs
    <2> QED
      BY <2>1
  <1> QED
    BY <1>1, <1>2, <1>3, <1>4 DEF Index, C

LEMMA IndexIs == \A a \in Int : Index(a) \in 0..(C - 1)
  BY CapacityIs, DivMod DEF Index, C

LEMMA NextIndex ==
    ASSUME NEW a \in 0..(M - 1)
    PROVE  /\ (a + 1) % M = IF a + 1 = M THEN 0 ELSE a + 1
           /\ (a + 1) % M \in 0..(M - 1)
  BY CapacityIs

LEMMA SizeIs ==
    ASSUME qhead \in 0..(M - 1), qtail \in 0..(M - 1)
    PROVE  /\ QueueSize = IF qhead >= qtail THEN qhead - qtail ELSE qhead - qtail + M
           /\ QueueSize \in Nat
  BY CapacityIs DEF QueueSize, M

(* The place of the item behind the last one. *)
LEMMA HeadPlace ==
    ASSUME qhead \in 0..(M - 1), qtail \in 0..(M - 1)
    PROVE  Index(qtail + QueueSize) = Index(qhead)
  <1>1. qtail + QueueSize = qhead \/ qtail + QueueSize = qhead + M
    BY SizeIs, CapacityIs
  <1>2. Index(qhead + M) = Index(qhead)
    BY CapacityIs, OneTurn
  <1> QED
    BY <1>1, <1>2

(* Items less than a turn apart are at different places. *)
LEMMA OtherPlace ==
    ASSUME NEW a \in Int, NEW b \in Int, a < b, b < a + C
    PROVE  Index(a) # Index(b)
  <1> SUFFICES ASSUME Index(a) = Index(b) PROVE FALSE
    OBVIOUS
  <1>1. a % C = b % C /\ C \in Nat \ {0} /\ a <= b /\ a # b
    BY CapacityIs DEF Index, C
  <1>2. \A c \in Nat \ {0} : a <= b /\ b < a + c /\ a % c = b % c => a = b
    BY WithinOneTurn
  <1> QED
    BY <1>1, <1>2
-----------------------------------------------------------------------------
(* Each operation does to the items what it does to a queue. *)
LEMMA QueueInitially == QueueInit => QueueInv /\ Items = <<>>
  <1> SUFFICES ASSUME QueueInit PROVE QueueInv /\ Items = <<>>
    OBVIOUS
  <1>1. /\ slots = [i \in 0..(C - 1) |-> slots[i]] /\ qhead = 0 /\ qtail = 0
    BY DEF QueueInit, C
  <1>2. QueueSize = 0
    BY <1>1, SizeIs, CapacityIs
  <1> QED
    BY <1>1, <1>2, CapacityIs DEF QueueInv, Items

LEMMA ItemsAre ==
    ASSUME QueueInv
    PROVE  /\ QueueSize \in 0..C /\ Len(Items) = QueueSize /\ DOMAIN Items = 1..QueueSize
           /\ \A k \in 1..QueueSize : Items[k] = slots[Index(qtail + k - 1)]
           /\ Items \in Seq({slots[i] : i \in 0..(C - 1)})
  <1>1. QueueSize \in 0..C
    BY SizeIs, CapacityIs DEF QueueInv
  <1>2. \A k \in 1..QueueSize : Index(qtail + k - 1) \in 0..(C - 1)
    BY <1>1, IndexIs DEF QueueInv
  <1> QED
    BY <1>1, <1>2 DEF Items

LEMMA Pushed ==
    ASSUME QueueInv, NEW item, PushItem(item)
    PROVE  QueueInv' /\ QueueSize < C /\ Items' = Append(Items, item)
  <1> DEFINE n == QueueSize
  <1>1. /\ n \in Nat /\ n < C
        /\ slots' = [slots EXCEPT ![Index(qhead)] = item]
        /\ qhead' = (qhead + 1) % M /\ qtail' = qtail
        /\ qhead \in 0..(M - 1) /\ qtail \in 0..(M - 1)
    BY SizeIs, CapacityIs DEF QueueInv, PushItem, FreeSpace, C, M
  <1>2. qhead' \in 0..(M - 1) /\ qtail' \in 0..(M - 1)
    BY <1>1, NextIndex
  <1>3. QueueSize' = n + 1
    <2>1. QueueSize' = IF qhead' >= qtail' THEN qhead' - qtail' ELSE qhead' - qtail' + M
      BY <1>2, CapacityIs DEF QueueSize, M
    <2>2. n = IF qhead >= qtail THEN qhead - qtail ELSE qhead - qtail + M
      BY <1>1, SizeIs
    <2>3. qhead' = IF qhead + 1 = M THEN 0 ELSE qhead + 1
      BY <1>1, NextIndex
    <2> HIDE DEF n
    <2> QED
      BY <1>1, <2>1, <2>2, <2>3, CapacityIs
  <1>4. slots' = [i \in 0..(C - 1) |-> slots'[i]]
    BY <1>1 DEF QueueInv
  <1>5. QueueInv'
    BY <1>1, <1>2, <1>3, <1>4, CapacityIs DEF QueueInv
  <1>6. \A i \in 0..(C - 1) : slots'[i] = IF i = Index(qhead) THEN item ELSE slots[i]
    BY <1>1 DEF QueueInv
  <1>7. Index(qtail + n) = Index(qhead)
    BY <1>1, HeadPlace
  <1> HIDE DEF n
  <1>8. ASSUME NEW k \in 1..n
        PROVE  slots'[Index(qtail' + k - 1)] = Items[k]
    <2>1. Index(qtail + k - 1) # Index(qtail + n)
      BY <1>1, CapacityIs, OtherPlace
    <2>2. Index(qtail + k - 1) \in 0..(C - 1)
      BY <1>1, IndexIs
    <2> QED
      BY <1>1, <1>6, <1>7, <2>1, <2>2, ItemsAre DEF n
  <1>9. slots'[Index(qtail' + (n + 1) - 1)] = item
    <2>1. qtail' + (n + 1) - 1 = qtail + n
      BY <1>1
    <2>2. Index(qhead) \in 0..(C - 1)
      BY <1>1, IndexIs
    <2> QED
      BY <1>6, <1>7, <2>1, <2>2
  <1>10. Items' = Append(Items, item)
    <2>1. Items' = [k \in 1..(n + 1) |-> slots'[Index(qtail' + k - 1)]]
      BY <1>3 DEF Items
    <2>2. Len(Items) = n /\ Items \in Seq({slots[i] : i \in 0..(C - 1)})
      BY ItemsAre DEF n
    <2> DEFINE T == {slots[i] : i \in 0..(C - 1)} \cup {item}
               q == Append(Items, item)
    <2>3. /\ Items \in Seq(T) /\ item \in T
          /\ \A k \in 1..n : Items[k] \in T
      BY <1>1, <2>2
    <2> HIDE DEF T
    <2>4. q \in Seq(T) /\ Len(q) = n + 1 /\ q[n + 1] = item /\ \A k \in 1..n : q[k] = Items[k]
      BY <1>1, <2>2, <2>3
    <2>5. \A k \in 1..(n + 1) : k \in 1..n \/ k = n + 1
      BY <1>1
    <2>6. \A k \in 1..(n + 1) : Items'[k] = q[k] /\ q[k] \in T
      BY <1>8, <1>9, <2>1, <2>3, <2>4, <2>5
    <2> HIDE DEF q
    <2>7. Items' \in Seq(T) /\ Len(Items') = n + 1
      <3>1. \A k \in 1..(n + 1) : Items'[k] \in T
        BY <2>6
      <3>2. n + 1 \in Nat /\ DOMAIN Items' = 1..(n + 1)
            /\ Items' = [k \in 1..(n + 1) |-> Items'[k]]
        BY <1>1, <2>1
      <3> QED
        BY <3>1, <3>2
    <2>8. Items' = q
      BY <2>4, <2>6, <2>7, SameSeq
    <2> QED
      BY <2>8 DEF q
  <1> QED
    BY <1>1, <1>5, <1>10 DEF n

LEMMA Popped ==
    ASSUME QueueInv, PopItem
    PROVE  /\ QueueInv' /\ Items # <<>> /\ Front = Head(Items) /\ Items' = Tail(Items)
           /\ QueueSize \in 1..C
  <1> DEFINE n == QueueSize
  <1>1. /\ slots' = [slots EXCEPT ![Index(qtail)] = Vacant] /\ qhead # qtail
        /\ qtail' = (qtail + 1) % M /\ qhead' = qhead
        /\ qhead \in 0..(M - 1) /\ qtail \in 0..(M - 1)
    BY DEF QueueInv, PopItem, IsEmpty, M
  <1>2. n \in 1..C
    BY <1>1, SizeIs, CapacityIs DEF QueueInv
  <1>3. qhead' \in 0..(M - 1) /\ qtail' \in 0..(M - 1)
    BY <1>1, NextIndex
  <1>4. QueueSize' = n - 1
    <2>1. QueueSize' = IF qhead' >= qtail' THEN qhead' - qtail' ELSE qhead' - qtail' + M
      BY <1>3, CapacityIs DEF QueueSize, M
    <2>2. n = IF qhead >= qtail THEN qhead - qtail ELSE qhead - qtail + M
      BY <1>1, SizeIs
    <2>3. qtail' = IF qtail + 1 = M THEN 0 ELSE qtail + 1
      BY <1>1, NextIndex
    <2> HIDE DEF n
    <2> QED
      BY <1>1, <1>2, <2>1, <2>2, <2>3, CapacityIs
  <1>5. slots' = [i \in 0..(C - 1) |-> slots'[i]]
    BY <1>1 DEF QueueInv
  <1>6. QueueInv'
    BY <1>2, <1>3, <1>4, <1>5, CapacityIs DEF QueueInv
  <1>7. \A i \in 0..(C - 1) : i # Index(qtail) => slots'[i] = slots[i]
    BY <1>1 DEF QueueInv
  <1> HIDE DEF n
  <1>8. ASSUME NEW k \in 1..(n - 1)
        PROVE  slots'[Index(qtail' + k - 1)] = Items[k + 1]
    <2>1. Index(qtail' + k - 1) = Index(qtail + k)
      <3>1. qtail' = qtail + 1 \/ qtail' = (qtail + 1) - M
        BY <1>1, NextIndex
      <3>2. Index((qtail + k) - M) = Index(qtail + k)
        BY <1>1, <1>2, OneTurn
      <3>3. qtail' + k - 1 = qtail + k \/ qtail' + k - 1 = (qtail + k) - M
        BY <1>1, <1>2, <3>1, CapacityIs
      <3> QED
        BY <3>2, <3>3
    <2>2. Index(qtail) # Index(qtail + k)
      BY <1>1, <1>2, CapacityIs, OtherPlace
    <2>3. Index(qtail + k) \in 0..(C - 1) /\ qtail + (k + 1) - 1 = qtail + k
      BY <1>1, <1>2, IndexIs
    <2>4. Items[k + 1] = slots[Index(qtail + k)]
      BY <1>2, <2>3, ItemsAre DEF n
    <2> QED
      BY <1>7, <2>1, <2>2, <2>3, <2>4
  <1>9. Items' = Tail(Items)
    <2>1. Items' = [k \in 1..(n - 1) |-> slots'[Index(qtail' + k - 1)]]
      BY <1>4 DEF Items
    <2>2. Len(Items) = n /\ Items \in Seq({slots[i] : i \in 0..(C - 1)})
      BY ItemsAre DEF n
    <2> DEFINE T == {slots[i] : i \in 0..(C - 1)}
               q == Tail(Items)
    <2> HIDE DEF T
    <2>3. /\ n - 1 \in Nat /\ q \in Seq(T) /\ Len(q) = n - 1
          /\ \A k \in 1..(n - 1) : q[k] = Items[k + 1] /\ q[k] \in T
      BY <1>2, <2>2 DEF T
    <2>4. \A k \in 1..(n - 1) : Items'[k] = q[k]
      BY <1>8, <2>1, <2>3
    <2>5. Items' \in Seq(T) /\ Len(Items') = n - 1
      BY <2>1, <2>3, <2>4
    <2> QED
      BY <2>3, <2>4, <2>5, SameSeq
  <1>10. Items # <<>> /\ Front = Head(Items)
    <2>1. Items[1] = slots[Index(qtail + 1 - 1)] /\ Len(Items) = n
          /\ Items \in Seq({slots[i] : i \in 0..(C - 1)})
      BY <1>2, ItemsAre DEF n
    <2>2. qtail + 1 - 1 = qtail
      BY <1>1
    <2> QED
      BY <1>2, <2>1, <2>2 DEF Front
  <1> QED
    BY <1>2, <1>6, <1>9, <1>10 DEF n

LEMMA Cleared ==
    ASSUME QueueInv, ClearItems
    PROVE  QueueInv' /\ Items' = <<>>
  <1>1. qhead' = 0 /\ qtail' = 0 /\ slots' = slots
    BY DEF ClearItems
  <1>2. QueueSize' = 0
    BY <1>1, CapacityIs DEF QueueSize, M
  <1> QED
    BY <1>1, <1>2, CapacityIs DEF QueueInv, Items
QueueStaysOrOperates ==
    \/ UNCHANGED queueVars /\ UNCHANGED overflowed
    \/ PushItem(msg) /\ UNCHANGED overflowed
    \/ FreeSpace = 0 /\ overflowed' = TRUE /\ UNCHANGED queueVars
    \/ PopItem /\ msg' = Front /\ UNCHANGED overflowed
    \/ ClearItems /\ UNCHANGED overflowed

(* What an action of module Messages does to the queue. *)
LEMMA StepOfQueue == [Next]_vars => QueueStaysOrOperates
  <1> USE DEF QueueStaysOrOperates
  <1>1. New \/ NewWithArg \/ Answer \/ Write \/ Chunk \/ Stamp \/ Finish
        => UNCHANGED queueVars /\ UNCHANGED overflowed
    BY DEF New, NewWithArg, Answer, Write, Chunk, Stamp, Finish, Begin, Build
  <1>2. Push \/ Deliver \/ Clear => QueueStaysOrOperates
    BY DEF Push, Deliver, Clear
  <1>3. (\E types \in Asked : Read(types)) \/ Copy \/ Done
        => UNCHANGED queueVars /\ UNCHANGED overflowed
    BY DEF Read, Copy, Done
  <1>4. UNCHANGED vars => UNCHANGED queueVars /\ UNCHANGED overflowed
    BY DEF vars
  <1> QED
    BY <1>1, <1>2, <1>3, <1>4 DEF Next

LEMMA SameItems == UNCHANGED queueVars => Items' = Items /\ (QueueInv => QueueInv')
  BY DEF queueVars, Items, QueueInv, QueueSize

(* The indices of the queue stay in range, and never count more items than *)
(* there are places (queue.h).                                             *)
THEOREM QueueInvariant == Spec => []QueueInv
  <1>1. Init => QueueInv
    BY QueueInitially DEF Init
  <1>2. QueueInv /\ [Next]_vars => QueueInv'
    BY StepOfQueue, SameItems, Pushed, Popped, Cleared DEF QueueStaysOrOperates
  <1> QED
    BY <1>1, <1>2, PTL DEF Spec

LEMMA QueueSteps ==
    QueueInv /\ [Next]_vars
       => [Abstract!Push \/ Abstract!Pop \/ Abstract!Clear]_<<Items, overflowed>>
  <1> SUFFICES ASSUME QueueInv, [Next]_vars
               PROVE  [Abstract!Push \/ Abstract!Pop \/ Abstract!Clear]_<<Items, overflowed>>
    OBVIOUS
  <1>1. Len(Items) = QueueSize /\ QueueSize \in 0..C
    BY ItemsAre
  <1>2. CASE UNCHANGED queueVars /\ UNCHANGED overflowed
    BY <1>2, SameItems
  <1>3. CASE PushItem(msg) /\ UNCHANGED overflowed
    <2>1. QueueSize < C /\ Items' = Append(Items, msg)
      BY <1>3, Pushed
    <2> QED
      BY <1>1, <1>3, <2>1 DEF Abstract!Push, C
  <1>4. CASE FreeSpace = 0 /\ overflowed' = TRUE /\ UNCHANGED queueVars
    <2>1. Items' = Items
      BY <1>4, SameItems
    <2>2. ~(Len(Items) < C)
      BY <1>1, <1>4, CapacityIs DEF FreeSpace, C
    <2> QED
      BY <1>4, <2>1, <2>2 DEF Abstract!Push, C
  <1>5. CASE PopItem /\ msg' = Front /\ UNCHANGED overflowed
    BY <1>5, Popped DEF Abstract!Pop
  <1>6. CASE ClearItems /\ UNCHANGED overflowed
    BY <1>6, Cleared DEF Abstract!Clear
  <1> QED
    BY <1>2, <1>3, <1>4, <1>5, <1>6, StepOfQueue DEF QueueStaysOrOperates

(* The array with two indices that wrap is a queue, of whatever capacity   *)
(* and however wide its indices: what is popped is the oldest item that    *)
(* was pushed, and none is dropped but for want of room, and that is       *)
(* remembered (queue.h:37-81, OutputQueue::push).                          *)
THEOREM QueueIsQueue == Spec => ImplementsQueue
  <1>1. Init => Abstract!Init
    BY QueueInitially DEF Init, Abstract!Init
  <1> QED
    BY <1>1, QueueSteps, QueueInvariant, PTL DEF Spec, ImplementsQueue, Abstract!Spec
-----------------------------------------------------------------------------
(* Messages, of whatever bytes. *)
IsSequence(s) == s \in Seq({s[i] : i \in DOMAIN s})

IsMessage(m) == /\ m = [bytes |-> m.bytes, cursor |-> m.cursor, fields |-> m.fields]
                /\ IsSequence(m.bytes) /\ m.cursor \in Nat

LenField == SizeMagic + SizeTxid + SizeCmd

HeaderOK(m) == /\ Field(m, 0, SizeMagic) = Magic
               /\ LenOf(Field(m, LenField, SizeLen)) = ArgSize(m)
CrcOK(m) == Field(m, ArgsEnd(m), SizeCrc) = Crc(Covered(m))

(* Whoever builds a message may stop at any time: what is there is right.  *)
Sound(m) == /\ IsMessage(m)
            /\ Size(m) >= SizeMin =>
                  HeaderOK(m) /\ m.cursor >= SizeHeader /\ (Full(m) => CrcOK(m))

(* The checksum fills its field. *)
CrcFits == \A bytes : Crc(bytes) = [k \in 1..SizeCrc |-> Crc(bytes)[k]]

LEMMA crc16Fits == \A data : crc16(data) = [k \in 1..2 |-> crc16(data)[k]]
  BY DEF crc16, crc16_end

LEMMA SizesAre ==
    /\ SizeMagic \in Nat \ {0} /\ SizeTxid \in Nat \ {0} /\ SizeCmd \in Nat \ {0}
    /\ SizeLen \in Nat \ {0} /\ SizeCrc \in Nat \ {0}
    /\ SizeHeader = LenField + SizeLen /\ LenField = SizeMagic + SizeTxid + SizeCmd
    /\ SizeMin = SizeHeader + SizeCrc /\ Len(Magic) = SizeMagic /\ IsSequence(Magic)
    /\ SizeHeader \in Nat /\ LenField \in Nat /\ SizeMin \in Nat
  <1>1. IsSequence(Magic)
    BY MagicIsSequence DEF IsSequence
  <1> QED
    BY <1>1, SizesArePositive, MagicIsSequence
       DEF SizeHeader, SizePrefix, SizeMin, LenField, SizeMagic

LEMMA SequenceIs ==
    ASSUME NEW s, IsSequence(s)
    PROVE  Len(s) \in Nat /\ DOMAIN s = 1..Len(s) /\ s = [i \in 1..Len(s) |-> s[i]]
  BY DEF IsSequence

LEMMA FunctionIsSequence ==
    ASSUME NEW n \in Nat, NEW s, s = [i \in 1..n |-> s[i]]
    PROVE  IsSequence(s) /\ Len(s) = n
  BY DEF IsSequence

LEMMA SameSubSeq ==
    ASSUME NEW s, NEW t, NEW m \in Int, NEW n \in Int, \A i \in m..n : s[i] = t[i]
    PROVE  SubSeq(s, m, n) = SubSeq(t, m, n)
  OBVIOUS

LEMMA SubSeqIs ==
    ASSUME NEW s, NEW at \in Nat, NEW c, IsSequence(c), \A k \in 1..Len(c) : s[at + k] = c[k]
    PROVE  SubSeq(s, at + 1, at + Len(c)) = c
  <1> DEFINE n == Len(c)
  <1>1. n \in Nat /\ c = [k \in 1..n |-> c[k]]
    BY SequenceIs
  <1>2. \A k \in 1..n : s[at + k] = c[k]
    OBVIOUS
  <1> HIDE DEF n
  <1>3. (at + n) - (at + 1) + 1 = n /\ \A k \in 1..n : (at + 1) + k - 1 = at + k
    BY <1>1
  <1>4. SubSeq(s, at + 1, at + n) = [k \in 1..((at + n) - (at + 1) + 1) |-> s[(at + 1) + k - 1]]
    BY <1>1
  <1>5. SubSeq(s, at + 1, at + n) = c
    BY <1>1, <1>2, <1>3, <1>4
  <1> QED
    BY <1>5 DEF n

LEMMA FieldIs ==
    ASSUME NEW m, NEW at \in Nat, NEW c, IsSequence(c),
           \A k \in 1..Len(c) : m.bytes[at + k] = c[k]
    PROVE  Field(m, at, Len(c)) = c
  <1> DEFINE b == m.bytes
  <1>1. \A k \in 1..Len(c) : b[at + k] = c[k]
    OBVIOUS
  <1> HIDE DEF b
  <1>2. SubSeq(b, at + 1, at + Len(c)) = c
    BY <1>1, SubSeqIs
  <1> QED
    BY <1>2 DEF Field, b

LEMMA OverwriteIs ==
    ASSUME NEW b, IsSequence(b), NEW src, IsSequence(src), NEW at \in Nat
    PROVE  LET r == Overwrite(b, at, src)
           IN  /\ IsSequence(r) /\ Len(r) = Len(b)
               /\ \A k \in 1..Len(b) :
                     r[k] = IF at < k /\ k <= at + Len(src) THEN src[k - at] ELSE b[k]
  <1> DEFINE r == Overwrite(b, at, src)
  <1>1. Len(b) \in Nat /\ DOMAIN b = 1..Len(b)
    BY SequenceIs
  <1>2. r = [k \in 1..Len(b) |->
               IF at < k /\ k <= at + Len(src) THEN src[k - at] ELSE b[k]]
    BY <1>1 DEF Overwrite
  <1>3. r = [k \in 1..Len(b) |-> r[k]]
    BY <1>1, <1>2
  <1> HIDE DEF r
  <1>4. IsSequence(r) /\ Len(r) = Len(b)
    BY <1>1, <1>3, FunctionIsSequence
  <1> QED
    BY <1>2, <1>4 DEF r

(* The header depends on the magic and on the size of the arguments. *)
LEMMA SameHeader ==
    ASSUME NEW m, NEW r, Size(r) = Size(m), HeaderOK(m),
           \A k \in 1..SizeMagic : r.bytes[k] = m.bytes[k],
           \A k \in (LenField + 1)..SizeHeader : r.bytes[k] = m.bytes[k]
    PROVE  HeaderOK(r)
  <1>1. Field(r, 0, SizeMagic) = Field(m, 0, SizeMagic)
    BY SizesAre, SameSubSeq DEF Field
  <1>2. Field(r, LenField, SizeLen) = Field(m, LenField, SizeLen)
    BY SizesAre, SameSubSeq DEF Field
  <1> QED
    BY <1>1, <1>2 DEF HeaderOK, ArgSize

LEMMA SetChecksumIs ==
    ASSUME CrcFits, NEW m, IsMessage(m), Size(m) >= SizeMin, HeaderOK(m)
    PROVE  LET r == SetChecksum(m)
           IN  /\ IsMessage(r) /\ Size(r) = Size(m) /\ r.cursor = m.cursor
               /\ HeaderOK(r) /\ CrcOK(r)
  <1> DEFINE r == SetChecksum(m)
             c == Crc(Covered(m))
             e == ArgsEnd(m)
  <1>1. IsSequence(c) /\ Len(c) = SizeCrc
    <2>1. c = [k \in 1..SizeCrc |-> c[k]] /\ SizeCrc \in Nat
      BY SizesAre DEF CrcFits
    <2> HIDE DEF c
    <2> QED
      BY <2>1, FunctionIsSequence
  <1>2. /\ Size(m) \in Nat /\ IsSequence(m.bytes) /\ Len(m.bytes) = Size(m)
        /\ e \in Nat /\ e + SizeCrc = Size(m) /\ e >= SizeHeader
    <2>1. Size(m) \in Nat /\ IsSequence(m.bytes) /\ Len(m.bytes) = Size(m)
      BY SequenceIs DEF IsMessage, Size
    <2> QED
      BY <2>1, SizesAre DEF ArgsEnd
  <1> DEFINE b == Overwrite(m.bytes, e, c)
  <1>3. r = [bytes |-> b, cursor |-> m.cursor, fields |-> m.fields]
    BY DEF SetChecksum, IsMessage
  <1> HIDE DEF r, c, e
  <1>4. /\ IsSequence(b) /\ Len(b) = Size(m)
        /\ \A k \in 1..Size(m) : b[k] = IF e < k /\ k <= e + SizeCrc THEN c[k - e]
                                        ELSE m.bytes[k]
    BY <1>1, <1>2, OverwriteIs
  <1> HIDE DEF b
  <1>5. r.bytes = b /\ r.cursor = m.cursor /\ IsMessage(r) /\ Size(r) = Size(m)
    BY <1>3, <1>4 DEF IsMessage, Size
  <1>6. HeaderOK(r)
    <2>1. \A k \in 1..SizeHeader : r.bytes[k] = m.bytes[k]
      BY <1>2, <1>4, <1>5, SizesAre
    <2>2. (1..SizeMagic) \subseteq 1..SizeHeader /\ ((LenField + 1)..SizeHeader) \subseteq 1..SizeHeader
      BY SizesAre
    <2> QED
      BY <1>5, <2>1, <2>2, SameHeader
  <1>7. ArgsEnd(r) = e
    BY <1>5 DEF ArgsEnd, e
  <1>8. Covered(r) = Covered(m)
    <2>1. \A k \in (SizeMagic + 1)..e : r.bytes[k] = m.bytes[k]
      <3>1. \A k \in (SizeMagic + 1)..e : k \in 1..Size(m) /\ ~(e < k)
        BY <1>2, SizesAre
      <3> QED
        BY <1>4, <1>5, <3>1
    <2> QED
      BY <1>2, <1>7, <2>1, SizesAre, SameSubSeq DEF Covered, e
  <1>9. Field(r, e, SizeCrc) = c
    <2>1. SizeCrc \in Nat /\ e \in Nat
      BY <1>2, SizesAre
    <2>2. \A k \in 1..SizeCrc : r.bytes[e + k] = c[k]
      <3> SUFFICES ASSUME NEW k \in 1..SizeCrc PROVE r.bytes[e + k] = c[k]
        OBVIOUS
      <3>1. e + k \in 1..Size(m) /\ e < e + k /\ e + k <= e + SizeCrc /\ (e + k) - e = k
        BY <1>2, <2>1
      <3> QED
        BY <1>4, <1>5, <3>1
    <2> QED
      BY <1>1, <2>1, <2>2, FieldIs
  <1> QED
    BY <1>5, <1>6, <1>7, <1>8, <1>9 DEF CrcOK, c, r
-----------------------------------------------------------------------------
(* Writing. *)
Placed(m, src) == [m EXCEPT !.bytes = Overwrite(@, m.cursor, src), !.cursor = @ + Len(src)]

LEMMA PlacedIs ==
    ASSUME NEW m, IsMessage(m), NEW src, IsSequence(src)
    PROVE  LET r == Placed(m, src)
           IN  /\ IsMessage(r) /\ Size(r) = Size(m) /\ r.cursor = m.cursor + Len(src)
               /\ r.fields = m.fields
               /\ \A k \in 1..Size(m) :
                     r.bytes[k] = IF m.cursor < k /\ k <= m.cursor + Len(src)
                                  THEN src[k - m.cursor] ELSE m.bytes[k]
  <1> DEFINE r == Placed(m, src)
             b == Overwrite(m.bytes, m.cursor, src)
  <1>1. /\ IsSequence(m.bytes) /\ m.cursor \in Nat /\ Len(src) \in Nat
        /\ Size(m) = Len(m.bytes)
    BY SequenceIs DEF IsMessage, Size
  <1> DEFINE f == m.fields
             c == m.cursor
             d == c + Len(src)
  <1>2. r = [bytes |-> b, cursor |-> d, fields |-> f]
    <2> DEFINE p == [m EXCEPT !.bytes = b]
    <2>1. r = [p EXCEPT !.cursor = d]
      BY Zenon DEF Placed
    <2>2. p = [bytes |-> b, cursor |-> c, fields |-> f]
      <3> HIDE DEF b
      <3> QED
        BY DEF IsMessage
    <2> HIDE DEF b, c, d, r, f, p
    <2> QED
      BY <2>1, <2>2
  <1>3. /\ IsSequence(b) /\ Len(b) = Size(m)
        /\ \A k \in 1..Size(m) :
              b[k] = IF m.cursor < k /\ k <= m.cursor + Len(src) THEN src[k - m.cursor]
                     ELSE m.bytes[k]
    BY <1>1, OverwriteIs
  <1> HIDE DEF r, b
  <1>4. /\ r.bytes = b /\ r.cursor = m.cursor + Len(src) /\ IsMessage(r) /\ Size(r) = Size(m)
        /\ r.fields = m.fields
    BY <1>1, <1>2, <1>3 DEF IsMessage, Size
  <1> QED
    BY <1>3, <1>4 DEF r

(* Placing data behind the header leaves the header as it is. *)
LEMMA PlacedHeader ==
    ASSUME NEW m, Sound(m), Size(m) >= SizeMin, NEW src, IsSequence(src)
    PROVE  HeaderOK(Placed(m, src))
  <1> DEFINE r == Placed(m, src)
  <1>1. /\ IsMessage(m) /\ HeaderOK(m) /\ m.cursor >= SizeHeader
        /\ m.cursor \in Nat /\ Len(src) \in Nat /\ Size(m) \in Nat
    BY SequenceIs DEF Sound, IsMessage, Size
  <1>2. /\ Size(r) = Size(m)
        /\ \A k \in 1..Size(m) :
              r.bytes[k] = IF m.cursor < k /\ k <= m.cursor + Len(src)
                           THEN src[k - m.cursor] ELSE m.bytes[k]
    BY <1>1, PlacedIs
  <1> HIDE DEF r
  <1>3. \A k \in 1..SizeHeader : r.bytes[k] = m.bytes[k]
    <2>1. SizeMin \in Nat /\ SizeHeader \in Nat /\ SizeMin >= SizeHeader
      BY SizesAre
    <2>2. \A k \in 1..SizeHeader : k \in 1..Size(m) /\ ~(m.cursor < k)
      BY <1>1, <2>1
    <2> QED
      BY <1>2, <2>2
  <1>4. /\ (1..SizeMagic) \subseteq 1..SizeHeader
        /\ ((LenField + 1)..SizeHeader) \subseteq 1..SizeHeader
    BY SizesAre
  <1>5. HeaderOK(r)
    BY <1>1, <1>2, <1>3, <1>4, SameHeader
  <1> QED
    BY <1>5 DEF r

LEMMA WhenFullIs ==
    ASSUME CrcFits, NEW r, IsMessage(r), Size(r) >= SizeMin, HeaderOK(r), r.cursor >= SizeHeader
    PROVE  Sound(WhenFull(r)) /\ Size(WhenFull(r)) = Size(r)
  <1>1. CASE Full(r)
    <2>1. WhenFull(r) = SetChecksum(r)
      BY <1>1 DEF WhenFull
    <2> QED
      BY <2>1, SetChecksumIs DEF Sound
  <1>2. CASE ~Full(r)
    BY <1>2 DEF WhenFull, Sound
  <1> QED
    BY <1>1, <1>2

LEMMA PutIs ==
    ASSUME CrcFits, NEW m, Sound(m), NEW src, IsSequence(src), CanWrite(m, Len(src))
    PROVE  Sound(Put(m, src))
  <1> DEFINE r == Placed(m, src)
  <1>1. /\ IsMessage(m) /\ Size(m) >= SizeMin /\ HeaderOK(m) /\ m.cursor >= SizeHeader
        /\ m.cursor \in Nat /\ Len(src) \in Nat /\ Size(m) \in Nat
    BY SequenceIs DEF Sound, CanWrite, IsMessage, Size
  <1>2. /\ IsMessage(r) /\ Size(r) = Size(m) /\ r.cursor = m.cursor + Len(src)
        /\ \A k \in 1..Size(m) :
              r.bytes[k] = IF m.cursor < k /\ k <= m.cursor + Len(src)
                           THEN src[k - m.cursor] ELSE m.bytes[k]
    BY <1>1, PlacedIs
  <1>3. Put(m, src) = WhenFull(r)
    BY DEF Put, Placed
  <1>4. HeaderOK(r)
    BY <1>1, PlacedHeader
  <1> HIDE DEF r
  <1>5. r.cursor >= SizeHeader
    BY <1>1, <1>2, SizesAre
  <1> QED
    BY <1>1, <1>2, <1>3, <1>4, <1>5, WhenFullIs

LEMMA FieldsIs ==
    ASSUME NEW m, IsMessage(m), NEW f
    PROVE  LET r == [m EXCEPT !.fields = f]
           IN  IsMessage(r) /\ r.bytes = m.bytes /\ r.cursor = m.cursor /\ r.fields = f
  <1> DEFINE r == [m EXCEPT !.fields = f]
  <1>1. r = [bytes |-> m.bytes, cursor |-> m.cursor, fields |-> f]
    BY DEF IsMessage
  <1>2. r.bytes = m.bytes /\ r.cursor = m.cursor /\ r.fields = f
    BY <1>1
  <1> HIDE DEF r
  <1>3. IsMessage(r)
    BY <1>1, <1>2 DEF IsMessage
  <1> QED
    BY <1>2, <1>3 DEF r

LEMMA SoundFields ==
    ASSUME NEW m, Sound(m), NEW f
    PROVE  Sound([m EXCEPT !.fields = f])
  <1> DEFINE r == [m EXCEPT !.fields = f]
  <1>2. IsMessage(r) /\ r.bytes = m.bytes /\ r.cursor = m.cursor
    BY FieldsIs DEF Sound
  <1> HIDE DEF r
  <1>4. Size(r) = Size(m) /\ (HeaderOK(m) => HeaderOK(r)) /\ (Full(r) <=> Full(m))
        /\ (CrcOK(m) => CrcOK(r))
    BY <1>2 DEF Size, HeaderOK, Field, ArgSize, Full, ArgsEnd, CrcOK, Covered
  <1>5. Sound(r)
    BY <1>2, <1>4 DEF Sound
  <1> QED
    BY <1>5 DEF r

LEMMA WriteBEIs ==
    ASSUME NEW value, NEW width \in Nat
    PROVE  IsSequence(WriteBE(value, width)) /\ Len(WriteBE(value, width)) = width
  <1> DEFINE s == WriteBE(value, width)
  <1>1. s = [k \in 1..width |-> s[k]]
    BY DEF WriteBE
  <1> HIDE DEF s
  <1>2. IsSequence(s) /\ Len(s) = width
    BY <1>1, FunctionIsSequence
  <1> QED
    BY <1>2 DEF s

LEMMA WriteArgIs ==
    ASSUME CrcFits, NEW m, Sound(m), NEW type \in Types, NEW value
    PROVE  Sound(WriteArg(m, type, value))
  <1>1. Width[type] \in Nat
    BY DEF Types, Width
  <1>2. CASE CanWrite(m, Width[type])
    <2>1. Sound(Put(m, WriteBE(value, Width[type])))
      BY <1>1, <1>2, WriteBEIs, PutIs
    <2>2. \A f : Sound([Put(m, WriteBE(value, Width[type])) EXCEPT !.fields = f])
      BY <2>1, SoundFields
    <2> QED
      BY <1>2, <2>2 DEF WriteArg
  <1>3. CASE ~CanWrite(m, Width[type])
    BY <1>3 DEF WriteArg
  <1> QED
    BY <1>2, <1>3

LEMMA WriteBytesIs ==
    ASSUME CrcFits, NEW m, Sound(m), NEW src \in Chunks
    PROVE  Sound(WriteBytes(m, src))
  <1>1. IsSequence(src)
    BY MessagesAssumption DEF IsSequence
  <1>2. CASE CanWrite(m, Len(src))
    <2>1. Sound(Put(m, src))
      BY <1>1, <1>2, PutIs
    <2>2. \A f : Sound([Put(m, src) EXCEPT !.fields = f])
      BY <2>1, SoundFields
    <2> QED
      BY <1>2, <2>2 DEF WriteBytes
  <1>3. CASE ~CanWrite(m, Len(src))
    BY <1>3 DEF WriteBytes
  <1> QED
    BY <1>2, <1>3
LEMMA SetTxidIs ==
    ASSUME CrcFits, NEW m, Sound(m), NEW txid
    PROVE  Sound(SetTxid(m, txid)) /\ Size(SetTxid(m, txid)) = Size(m)
  <1> DEFINE c == WriteBE(txid, SizeTxid)
             b == Overwrite(m.bytes, SizeMagic, c)
             r == [m EXCEPT !.bytes = b]
  <1>1. CASE Size(m) < SizeMin
    BY <1>1 DEF SetTxid
  <1>2. CASE Size(m) >= SizeMin
    <2>1. SetTxid(m, txid) = WhenFull(r)
      <3>1. Size(m) \in Int /\ SizeMin \in Int
        BY SizesAre, SequenceIs DEF Sound, IsMessage, Size
      <3>2. ~(Size(m) < SizeMin)
        BY <1>2, <3>1
      <3> QED
        BY <3>2 DEF SetTxid
    <2>2. IsSequence(c) /\ Len(c) = SizeTxid
      BY SizesAre, WriteBEIs
    <2>3. /\ IsMessage(m) /\ IsSequence(m.bytes) /\ Len(m.bytes) = Size(m) /\ Size(m) \in Nat
          /\ HeaderOK(m) /\ m.cursor >= SizeHeader /\ m.cursor \in Nat
      BY <1>2, SequenceIs DEF Sound, IsMessage, Size
    <2>4. /\ IsSequence(b) /\ Len(b) = Size(m)
          /\ \A k \in 1..Size(m) :
                b[k] = IF SizeMagic < k /\ k <= SizeMagic + SizeTxid THEN c[k - SizeMagic]
                       ELSE m.bytes[k]
      BY <2>2, <2>3, OverwriteIs, SizesAre
    <2> HIDE DEF b, c
    <2>5. r = [bytes |-> b, cursor |-> m.cursor, fields |-> m.fields]
      BY DEF Sound, IsMessage
    <2> HIDE DEF r
    <2>6. r.bytes = b /\ r.cursor = m.cursor /\ IsMessage(r) /\ Size(r) = Size(m)
      BY <2>3, <2>4, <2>5 DEF IsMessage, Size
    <2>7. HeaderOK(r)
      <3>1. \A k \in 1..SizeMagic : r.bytes[k] = m.bytes[k]
        BY <1>2, <2>3, <2>4, <2>6, SizesAre
      <3>2. \A k \in (LenField + 1)..SizeHeader : r.bytes[k] = m.bytes[k]
        BY <1>2, <2>3, <2>4, <2>6, SizesAre
      <3> QED
        BY <2>3, <2>6, <3>1, <3>2, SameHeader
    <2> QED
      BY <1>2, <2>1, <2>3, <2>6, <2>7, WhenFullIs
  <1> QED
    BY <1>1, <1>2, SizesAre, SequenceIs DEF Sound, IsMessage, Size

LEMMA ZerosIs ==
    ASSUME NEW n \in Nat
    PROVE  IsSequence(Zeros(n)) /\ Len(Zeros(n)) = n
  <1> DEFINE s == Zeros(n)
  <1>1. s = [k \in 1..n |-> s[k]]
    BY DEF Zeros
  <1> HIDE DEF s
  <1>2. IsSequence(s) /\ Len(s) = n
    BY <1>1, FunctionIsSequence
  <1> QED
    BY <1>2 DEF s

Missing(m) == IF Full(m) THEN 0 ELSE ArgsEnd(m) - m.cursor

Padding(m) == [k \in 1..Missing(m) |-> <<"u8", 0>>]

(* What finalize() takes the checksum of. *)
LEMMA Filled ==
    ASSUME NEW m, Sound(m), Size(m) >= SizeMin
    PROVE  \E r : /\ Finalize(m) = SetChecksum(r)
                  /\ IsMessage(r) /\ Size(r) = Size(m) /\ HeaderOK(r) /\ r.cursor >= SizeHeader
                  /\ r.cursor = m.cursor + Missing(m) /\ r.fields = m.fields \o Padding(m)
                  /\ \A k \in 1..Size(m) :
                        r.bytes[k] = IF m.cursor < k /\ k <= m.cursor + Missing(m)
                                     THEN Zeros(Missing(m))[k - m.cursor] ELSE m.bytes[k]
  <1> DEFINE missing == Missing(m)
             z == Zeros(missing)
             f == m.fields \o Padding(m)
             p == Placed(m, z)
             r == [p EXCEPT !.fields = f]
  <1>1. /\ IsMessage(m) /\ IsSequence(m.bytes) /\ Len(m.bytes) = Size(m) /\ Size(m) \in Nat
        /\ m.cursor \in Nat
    BY SequenceIs DEF Sound, IsMessage, Size
  <1>2. missing \in Nat
    BY <1>1, SizesAre DEF Missing, Full, ArgsEnd
  <1>3. IsSequence(z) /\ Len(z) = missing
    BY <1>2, ZerosIs
  <1>4. Finalize(m) = SetChecksum(r)
    <2>1. ~(Size(m) < SizeMin)
      BY <1>1, SizesAre
    <2>2. r = [m EXCEPT !.bytes = Overwrite(m.bytes, m.cursor, z),
                        !.cursor = m.cursor + missing, !.fields = f]
      <3>1. p = [m EXCEPT !.bytes = Overwrite(m.bytes, m.cursor, z),
                          !.cursor = m.cursor + missing]
        BY <1>3 DEF Placed
      <3> HIDE DEF p, z, f, missing
      <3> QED
        BY <3>1, Zenon
    <2>3. Finalize(m) = SetChecksum(
              [m EXCEPT !.bytes = Overwrite(m.bytes, m.cursor, z),
                        !.cursor = m.cursor + missing, !.fields = f])
      BY <2>1 DEF Finalize, Missing, Padding
    <2> HIDE DEF r, p, z, f
    <2> QED
      BY <2>2, <2>3
  <1> HIDE DEF f, z, missing
  <1>5. /\ IsMessage(p) /\ Size(p) = Size(m) /\ p.cursor = m.cursor + missing
        /\ HeaderOK(p)
        /\ \A k \in 1..Size(m) : p.bytes[k] = IF m.cursor < k /\ k <= m.cursor + missing
                                               THEN z[k - m.cursor] ELSE m.bytes[k]
    BY <1>1, <1>3, PlacedIs, PlacedHeader
  <1> HIDE DEF p
  <1>6. IsMessage(r) /\ r.bytes = p.bytes /\ r.cursor = p.cursor /\ r.fields = f
    BY <1>5, FieldsIs
  <1> HIDE DEF r
  <1>7. Size(r) = Size(m) /\ HeaderOK(r) /\ r.cursor >= SizeHeader
    <2>1. m.cursor >= SizeHeader
      BY DEF Sound
    <2>2. r.cursor >= SizeHeader
      BY <1>1, <1>2, <1>5, <1>6, <2>1, SizesAre
    <2> QED
      BY <1>5, <1>6, <2>2 DEF Size, HeaderOK, Field, ArgSize
  <1> QED
    BY <1>4, <1>5, <1>6, <1>7 DEF missing, z, f

LEMMA FinalizeIs ==
    ASSUME CrcFits, NEW m, Sound(m)
    PROVE  Sound(Finalize(m))
  <1>1. Size(m) \in Nat /\ SizeMin \in Nat
    BY SequenceIs, SizesAre DEF Sound, IsMessage, Size
  <1>2. CASE Size(m) < SizeMin
    BY <1>2 DEF Finalize
  <1>3. CASE Size(m) >= SizeMin
    <2>1. PICK r : /\ Finalize(m) = SetChecksum(r)
                   /\ IsMessage(r) /\ Size(r) = Size(m) /\ HeaderOK(r) /\ r.cursor >= SizeHeader
      BY <1>3, Filled
    <2> QED
      BY <1>3, <2>1, SetChecksumIs DEF Sound
  <1> QED
    BY <1>1, <1>2, <1>3

LEMMA WriteDataIs ==
    ASSUME NEW m, IsMessage(m), Size(m) >= SizeMin, NEW src, IsSequence(src),
           m.cursor + Len(src) <= ArgsEnd(m)
    PROVE  WriteData(m, src) = WhenFull(Placed(m, src))
  BY DEF WriteData, CanWrite, Put, Placed

LEMMA NotYetFull ==
    ASSUME NEW m, IsMessage(m), Size(m) >= SizeMin, NEW src, IsSequence(src),
           m.cursor + Len(src) < ArgsEnd(m)
    PROVE  WriteData(m, src) = Placed(m, src)
  <1> DEFINE r == Placed(m, src)
  <1>1. /\ Size(m) \in Nat /\ m.cursor \in Nat /\ Len(src) \in Nat
        /\ Size(r) = Size(m) /\ r.cursor = m.cursor + Len(src)
    BY SequenceIs, PlacedIs DEF IsMessage, Size
  <1>2. ArgsEnd(m) \in Int /\ ArgsEnd(r) = ArgsEnd(m)
    BY <1>1, SizesAre DEF ArgsEnd
  <1>3. WriteData(m, src) = WhenFull(r)
    BY <1>1, <1>2, WriteDataIs
  <1> HIDE DEF r
  <1>4. ~Full(r)
    BY <1>1, <1>2 DEF Full
  <1>5. WriteData(m, src) = r
    BY <1>3, <1>4 DEF WhenFull
  <1> QED
    BY <1>5 DEF r

(* The header, before the checksum of a message without arguments. *)
LEMMA Headed ==
    ASSUME NEW cmd, NEW n \in 0..MostArgs
    PROVE  \E m : /\ Construct(cmd, n) = WhenFull(m)
                  /\ IsMessage(m) /\ Size(m) = SizeMin + n /\ HeaderOK(m)
                  /\ m.cursor = SizeHeader /\ m.fields = <<>>
                  /\ \A k \in 1..SizeCmd :
                        m.bytes[SizeMagic + SizeTxid + k] = WriteBE(cmd, SizeCmd)[k]
  <1> DEFINE s == SizeMin + n
             blank == [Empty EXCEPT !.bytes = Zeros(s)]
             h2 == WriteBE(NoTxid, SizeTxid)
             h3 == WriteBE(cmd, SizeCmd)
             h4 == WriteBE(n, SizeLen)
             m1 == Placed(blank, Magic)
             m2 == Placed(m1, h2)
             m3 == Placed(m2, h3)
             m4 == Placed(m3, h4)
  <1>1. n \in Nat /\ s \in Nat
    BY SizesAre, CapacityHoldsHeader DEF MostArgs
  <1>2. /\ IsSequence(Magic) /\ Len(Magic) = SizeMagic
        /\ IsSequence(h2) /\ Len(h2) = SizeTxid
        /\ IsSequence(h3) /\ Len(h3) = SizeCmd
        /\ IsSequence(h4) /\ Len(h4) = SizeLen
    BY SizesAre, WriteBEIs
  <1>3. IsMessage(blank) /\ Size(blank) = s /\ blank.cursor = 0 /\ blank.fields = <<>>
    <2> DEFINE z == Zeros(s)
    <2>1. IsSequence(z) /\ Len(z) = s
      BY <1>1, ZerosIs
    <2>2. blank = [bytes |-> z, cursor |-> 0, fields |-> <<>>]
      BY DEF Empty
    <2> HIDE DEF z, blank, s
    <2>3. blank.bytes = z /\ blank.cursor = 0 /\ blank.fields = <<>>
      BY <2>2
    <2> QED
      BY <2>1, <2>2, <2>3 DEF IsMessage, Size
  <1>4. /\ SizeMagic \in Nat /\ SizeTxid \in Nat /\ SizeCmd \in Nat /\ SizeLen \in Nat
        /\ SizeCrc \in Nat /\ SizeMagic > 0 /\ SizeTxid > 0 /\ SizeCmd > 0 /\ SizeLen > 0
        /\ s - SizeCrc = SizeMagic + SizeTxid + SizeCmd + SizeLen + n /\ s >= SizeMin
    BY <1>1, SizesAre
  <1> HIDE DEF s, blank, h2, h3, h4
  <1>5. /\ IsMessage(m1) /\ Size(m1) = s /\ m1.cursor = SizeMagic /\ m1.fields = <<>>
        /\ \A k \in 1..s : k <= SizeMagic => m1.bytes[k] = Magic[k]
    <2>1. /\ IsMessage(m1) /\ Size(m1) = s /\ m1.cursor = 0 + SizeMagic
          /\ m1.fields = <<>>
          /\ \A k \in 1..s : m1.bytes[k] = IF 0 < k /\ k <= 0 + SizeMagic
                                           THEN Magic[k - 0] ELSE blank.bytes[k]
      BY <1>2, <1>3, PlacedIs
    <2> HIDE DEF m1
    <2> QED
      BY <1>1, <1>4, <2>1
  <1> HIDE DEF m1
  <1>6. /\ IsMessage(m2) /\ Size(m2) = s /\ m2.cursor = SizeMagic + SizeTxid
        /\ m2.fields = <<>>
        /\ \A k \in 1..s : k <= SizeMagic => m2.bytes[k] = Magic[k]
    <2>1. /\ IsMessage(m2) /\ Size(m2) = s /\ m2.cursor = SizeMagic + SizeTxid
          /\ m2.fields = <<>>
          /\ \A k \in 1..s : m2.bytes[k] = IF SizeMagic < k /\ k <= SizeMagic + SizeTxid
                                           THEN h2[k - SizeMagic] ELSE m1.bytes[k]
      <3>1. IsMessage(m1) /\ IsSequence(h2) /\ Len(h2) = SizeTxid /\ Size(m1) = s
            /\ m1.cursor = SizeMagic /\ m1.fields = <<>>
        BY <1>2, <1>5
      <3> QED
        BY <3>1, PlacedIs
    <2> HIDE DEF m2
    <2> QED
      BY <1>1, <1>4, <1>5, <2>1
  <1> HIDE DEF m2
  <1>7. /\ IsMessage(m3) /\ Size(m3) = s /\ m3.cursor = LenField /\ m3.fields = <<>>
        /\ \A k \in 1..s : k <= SizeMagic => m3.bytes[k] = Magic[k]
        /\ \A k \in 1..SizeCmd : m3.bytes[SizeMagic + SizeTxid + k] = h3[k]
    <2> DEFINE a == SizeMagic + SizeTxid
    <2>1. a \in Nat /\ m2.cursor = a /\ a + SizeCmd = LenField
      BY <1>4, <1>6 DEF LenField
    <2> HIDE DEF a
    <2>2. /\ IsMessage(m3) /\ Size(m3) = s /\ m3.cursor = a + SizeCmd /\ m3.fields = <<>>
          /\ \A k \in 1..s : m3.bytes[k] =
                IF a < k /\ k <= a + SizeCmd THEN h3[k - a] ELSE m2.bytes[k]
      <3>1. /\ IsMessage(m3) /\ Size(m3) = Size(m2) /\ m3.cursor = m2.cursor + Len(h3)
            /\ m3.fields = m2.fields
            /\ \A k \in 1..Size(m2) :
                  m3.bytes[k] = IF m2.cursor < k /\ k <= m2.cursor + Len(h3)
                                THEN h3[k - m2.cursor] ELSE m2.bytes[k]
        BY <1>2, <1>6, PlacedIs
      <3> HIDE DEF m3
      <3> QED
        BY <1>2, <1>6, <2>1, <3>1
    <2> HIDE DEF m3
    <2>3. \A k \in 1..s : k <= SizeMagic => ~(a < k)
      BY <1>1, <1>4, <2>1 DEF a
    <2>4. ASSUME NEW k \in 1..SizeCmd PROVE m3.bytes[a + k] = h3[k]
      <3>1. a + k \in 1..s /\ a < a + k /\ a + k <= a + SizeCmd /\ (a + k) - a = k
        <4>1. a + SizeCmd <= s
          BY <1>1, <1>4 DEF a
        <4> QED
          BY <1>1, <1>4, <2>1, <4>1
      <3> QED
        BY <2>2, <3>1
    <2>5. \A k \in 1..SizeCmd : m3.bytes[SizeMagic + SizeTxid + k] = h3[k]
      BY <2>4 DEF a
    <2> QED
      BY <1>6, <2>1, <2>2, <2>3, <2>5
  <1> HIDE DEF m3
  <1>8. /\ IsMessage(m4) /\ Size(m4) = s /\ m4.cursor = SizeHeader /\ m4.fields = <<>>
        /\ \A k \in 1..SizeCmd : m4.bytes[SizeMagic + SizeTxid + k] = h3[k]
        /\ \A k \in 1..s : k <= SizeMagic => m4.bytes[k] = Magic[k]
        /\ \A k \in 1..SizeLen : m4.bytes[LenField + k] = h4[k]
    <2>1. /\ IsMessage(m4) /\ Size(m4) = s /\ m4.cursor = LenField + SizeLen
          /\ m4.fields = <<>>
          /\ \A k \in 1..s : m4.bytes[k] = IF LenField < k /\ k <= LenField + SizeLen
                                           THEN h4[k - LenField] ELSE m3.bytes[k]
      <3>1. /\ IsMessage(m4) /\ Size(m4) = Size(m3) /\ m4.cursor = m3.cursor + Len(h4)
            /\ m4.fields = m3.fields
            /\ \A k \in 1..Size(m3) :
                  m4.bytes[k] = IF m3.cursor < k /\ k <= m3.cursor + Len(h4)
                                THEN h4[k - m3.cursor] ELSE m3.bytes[k]
        BY <1>2, <1>7, PlacedIs
      <3> HIDE DEF m4
      <3> QED
        BY <1>2, <1>7, <3>1
    <2> HIDE DEF m4
    <2>2. \A k \in 1..s : k <= SizeMagic => m4.bytes[k] = Magic[k]
      BY <1>1, <1>4, <1>7, <2>1 DEF LenField
    <2>3. ASSUME NEW k \in 1..SizeLen PROVE m4.bytes[LenField + k] = h4[k]
      <3>1. LenField + k \in 1..s /\ LenField < LenField + k /\ LenField + k <= LenField + SizeLen
            /\ (LenField + k) - LenField = k
        BY <1>1, <1>4 DEF LenField
      <3> QED
        BY <2>1, <3>1
    <2>4. ASSUME NEW k \in 1..SizeCmd
          PROVE  m4.bytes[SizeMagic + SizeTxid + k] = h3[k]
      <3>1. SizeMagic + SizeTxid + k \in 1..s /\ ~(LenField < SizeMagic + SizeTxid + k)
        BY <1>1, <1>4 DEF LenField
      <3> QED
        BY <1>7, <2>1, <3>1
    <2> QED
      BY <2>1, <2>2, <2>3, <2>4, SizesAre
  <1>9. Construct(cmd, n) = WhenFull(m4)
    <2>1. WriteData(blank, Magic) = m1
      <3>1. blank.cursor + Len(Magic) < ArgsEnd(blank) /\ Size(blank) >= SizeMin
        BY <1>1, <1>2, <1>3, <1>4 DEF ArgsEnd
      <3> QED
        BY <1>2, <1>3, <3>1, NotYetFull DEF m1
    <2>2. WriteData(m1, h2) = m2
      <3>1. m1.cursor + Len(h2) < ArgsEnd(m1) /\ Size(m1) >= SizeMin
        BY <1>1, <1>2, <1>4, <1>5 DEF ArgsEnd
      <3> QED
        BY <1>2, <1>5, <3>1, NotYetFull DEF m2
    <2>3. WriteData(m2, h3) = m3
      <3>1. m2.cursor + Len(h3) < ArgsEnd(m2) /\ Size(m2) >= SizeMin
        BY <1>1, <1>2, <1>4, <1>6 DEF ArgsEnd
      <3> QED
        BY <1>2, <1>6, <3>1, NotYetFull DEF m3
    <2>4. WriteData(m3, h4) = WhenFull(m4)
      <3>1. m3.cursor + Len(h4) <= ArgsEnd(m3) /\ Size(m3) >= SizeMin
        BY <1>1, <1>2, <1>4, <1>7 DEF ArgsEnd, LenField
      <3> QED
        BY <1>2, <1>7, <3>1, WriteDataIs
    <2>5. Construct(cmd, n) = WriteData(WriteData(WriteData(WriteData(blank, Magic), h2), h3), h4)
      BY DEF Construct, blank, s, h2, h3, h4
    <2> QED
      BY <2>1, <2>2, <2>3, <2>4, <2>5
  <1> HIDE DEF m4
  <1>10. HeaderOK(m4)
    <2>1. Field(m4, 0, SizeMagic) = Magic
      <3>1. \A k \in 1..Len(Magic) : k \in 1..s /\ k <= SizeMagic
        BY <1>1, <1>2, <1>4
      <3>2. ASSUME NEW at \in Nat, at = 0 PROVE Field(m4, at, Len(Magic)) = Magic
        <4>1. \A k \in 1..Len(Magic) : m4.bytes[at + k] = Magic[k]
          BY <1>8, <3>1, <3>2
        <4> QED
          BY <1>2, <4>1, FieldIs
      <3>3. Field(m4, 0, Len(Magic)) = Magic
        BY <3>2
      <3> QED
        BY <1>2, <3>3
    <2>2. Field(m4, LenField, SizeLen) = h4
      <3>1. /\ IsSequence(h4) /\ Len(h4) = SizeLen /\ LenField \in Nat
            /\ \A k \in 1..Len(h4) : m4.bytes[LenField + k] = h4[k]
        BY <1>2, <1>8, SizesAre
      <3>2. Field(m4, LenField, Len(h4)) = h4
        BY <3>1, FieldIs
      <3> QED
        BY <3>1, <3>2
    <2>3. LenOf(h4) = n
      BY MessagesAssumption DEF h4
    <2>4. ArgSize(m4) = n
      BY <1>1, <1>8, SizesAre DEF ArgSize, s
    <2> QED
      BY <2>1, <2>2, <2>3, <2>4 DEF HeaderOK
  <1> QED
    BY <1>8, <1>9, <1>10 DEF s, h3

LEMMA ConstructIs ==
    ASSUME CrcFits, NEW cmd, NEW n \in 0..MostArgs
    PROVE  Sound(Construct(cmd, n)) /\ Size(Construct(cmd, n)) = SizeMin + n
  <1>1. PICK m : /\ Construct(cmd, n) = WhenFull(m)
                 /\ IsMessage(m) /\ Size(m) = SizeMin + n /\ HeaderOK(m)
                 /\ m.cursor = SizeHeader
    BY Headed
  <1>2. Size(m) >= SizeMin /\ m.cursor >= SizeHeader
    BY <1>1, SizesAre, CapacityHoldsHeader DEF MostArgs
  <1> QED
    BY <1>1, <1>2, WhenFullIs

LEMMA RoomForNack == MostArgs \in Int /\ 8 <= MostArgs
  <1>1. MostArgs \in Int
    BY SizesAre, CapacityHoldsHeader DEF MostArgs
  <1>2. SizeNackArgs <= MostArgs
    BY MessagesAssumption
  <1> QED
    BY <1>1, <1>2 DEF SizeNackArgs

LEMMA AnswersAre ==
    ASSUME CrcFits, NEW request
    PROVE  /\ \A n \in {0, 4} : Sound(ResponseTo(request, n))
           /\ \A code, detail : Sound(NackTo(request, code, detail))
  <1>1. MostArgs \in Int /\ 0 \in 0..MostArgs /\ 4 \in 0..MostArgs /\ SizeNackArgs \in 0..MostArgs
    BY RoomForNack DEF SizeNackArgs
  <1>2. \A n \in 0..MostArgs : \A cmd, txid : Sound(SetTxid(Construct(cmd, n), txid))
    BY ConstructIs, SetTxidIs
  <1>3. \A code, detail : Sound(NackTo(request, code, detail))
    <2> SUFFICES ASSUME NEW code, NEW detail PROVE Sound(NackTo(request, code, detail))
      OBVIOUS
    <2> DEFINE m == SetTxid(Construct(NackCmd, SizeNackArgs), request.txid)
               m1 == WriteArg(m, "u16", request.cmd)
               m2 == WriteArg(m1, "u16", code)
    <2>1. "u16" \in Types /\ "i32" \in Types
      BY DEF Types, Width
    <2>2. NackTo(request, code, detail) = WriteArg(m2, "i32", detail)
      BY DEF NackTo
    <2>3. Sound(m)
      BY <1>1, <1>2
    <2> HIDE DEF m
    <2>4. Sound(m1)
      BY <2>1, <2>3, WriteArgIs
    <2> HIDE DEF m1
    <2>5. Sound(m2)
      BY <2>1, <2>4, WriteArgIs
    <2> HIDE DEF m2
    <2> QED
      BY <2>1, <2>2, <2>5, WriteArgIs
  <1> QED
    BY <1>1, <1>2, <1>3 DEF ResponseTo
-----------------------------------------------------------------------------
(* The messages of a behavior: the one that is built or read, and those    *)
(* that wait in the queue.                                                 *)
AllSound(q) == \A k \in 1..Len(q) : Sound(q[k])

SoundInv == QueueInv /\ Sound(msg) /\ AllSound(Items)

LEMMA EmptyIsSound == Sound(Empty)
  <1>1. IsMessage(Empty) /\ Size(Empty) = 0
    BY DEF Empty, IsMessage, IsSequence, Size
  <1> QED
    BY <1>1, SizesAre DEF Sound

LEMMA AppendedSound ==
    ASSUME NEW T, NEW q \in Seq(T), AllSound(q), NEW m, Sound(m)
    PROVE  AllSound(Append(q, m))
  BY DEF AllSound

LEMMA HeadAndTailSound ==
    ASSUME NEW T, NEW q \in Seq(T), AllSound(q), q # <<>>
    PROVE  Sound(Head(q)) /\ AllSound(Tail(q))
  BY DEF AllSound

LEMMA BeginsSound ==
    ASSUME CrcFits, New \/ NewWithArg \/ Answer
    PROVE  Sound(msg') /\ UNCHANGED queueVars
  <1>1. CASE New
    BY <1>1, ConstructIs, MessagesAssumption DEF New, Begin
  <1>2. CASE NewWithArg
    <2>1. PICK cmd \in Commands, type \in Types : \E v \in Values(type) :
             Begin(WriteArg(Construct(cmd, Width[type]), type, v))
      BY <1>2 DEF NewWithArg
    <2>2. Width[type] \in 0..4 /\ 4 <= MostArgs /\ MostArgs \in Int
      BY RoomForNack DEF Types, Width
    <2>3. Sound(Construct(cmd, Width[type]))
      BY <2>2, ConstructIs
    <2>4. \A v : Sound(WriteArg(Construct(cmd, Width[type]), type, v))
      BY <2>3, WriteArgIs
    <2> QED
      BY <2>1, <2>4 DEF Begin
  <1>3. CASE Answer
    <2>1. Sound(ResponseTo(payload, 0)) /\ Sound(ResponseTo(payload, 4))
          /\ Sound(NackTo(payload, 513, 0))
      BY AnswersAre
    <2>2. \A v : Sound(WriteArg(ResponseTo(payload, 4), "i32", v))
      BY <2>1, WriteArgIs DEF Types, Width
    <2> QED
      BY <1>3, <2>1, <2>2 DEF Answer, Begin
  <1> QED
    BY <1>1, <1>2, <1>3

LEMMA BuildsSound ==
    ASSUME CrcFits, Sound(msg), Write \/ Chunk \/ Stamp \/ Finish
    PROVE  Sound(msg') /\ UNCHANGED queueVars
  <1>1. CASE Write
    BY <1>1, WriteArgIs DEF Write, Build
  <1>2. CASE Chunk
    BY <1>2, WriteBytesIs DEF Chunk, Build
  <1>3. CASE Stamp
    BY <1>3, SetTxidIs DEF Stamp, Build
  <1>4. CASE Finish
    BY <1>4, FinalizeIs DEF Finish, Build
  <1> QED
    BY <1>1, <1>2, <1>3, <1>4

LEMMA SoundStep ==
    ASSUME CrcFits, SoundInv, [Next]_vars
    PROVE  SoundInv'
  <1>1. ASSUME Sound(msg'), UNCHANGED queueVars PROVE SoundInv'
    BY <1>1, SameItems DEF SoundInv, AllSound
  <1>2. PICK T : Items \in Seq(T)
    BY ItemsAre DEF SoundInv
  <1>3. CASE New \/ NewWithArg \/ Answer
    BY <1>1, <1>3, BeginsSound
  <1>4. CASE Write \/ Chunk \/ Stamp \/ Finish
    BY <1>1, <1>4, BuildsSound DEF SoundInv
  <1>5. CASE Push
    <2>1. Sound(msg')
      BY <1>5, EmptyIsSound DEF Push
    <2>2. CASE PushItem(msg)
      <3>1. QueueInv' /\ Items' = Append(Items, msg)
        BY <2>2, Pushed DEF SoundInv
      <3>2. AllSound(Append(Items, msg))
        BY <1>2, AppendedSound DEF SoundInv
      <3> QED
        BY <2>1, <3>1, <3>2 DEF SoundInv, AllSound
    <2>3. CASE UNCHANGED queueVars
      BY <1>1, <2>1, <2>3
    <2> QED
      BY <1>5, <2>2, <2>3 DEF Push
  <1>6. CASE Deliver
    <2>1. QueueInv' /\ Items # <<>> /\ msg' = Head(Items) /\ Items' = Tail(Items)
      BY <1>6, Popped DEF Deliver, SoundInv
    <2>2. Sound(Head(Items)) /\ AllSound(Tail(Items))
      BY <1>2, <2>1, HeadAndTailSound DEF SoundInv
    <2> QED
      BY <2>1, <2>2 DEF SoundInv, AllSound
  <1>7. CASE Clear
    <2>1. QueueInv' /\ Items' = <<>> /\ msg' = msg
      BY <1>7, Cleared DEF Clear, SoundInv
    <2> QED
      BY <2>1 DEF SoundInv, AllSound
  <1>8. CASE (\E types \in Asked : Read(types)) \/ Copy \/ Done
    BY <1>1, <1>8, EmptyIsSound DEF Read, Copy, Done, SoundInv
  <1>9. CASE UNCHANGED vars
    BY <1>1, <1>9 DEF vars, SoundInv
  <1> QED
    BY <1>3, <1>4, <1>5, <1>6, <1>7, <1>8, <1>9 DEF Next

LEMMA SoundAndComplete ==
    ASSUME NEW m, Sound(m), Complete(m)
    PROVE  WellFormed(m)
  BY DEF Sound, Complete, WellFormed, HeaderOK, CrcOK, LenField

(* A message that is complete is well-formed, of whatever capacity, sizes  *)
(* and data it is, and in whatever order its builder called what there is  *)
(* to call; also when it comes out of the queue (message.h, "well-formed,  *)
(* complete with checksum, and safe to send").  All it takes is that the   *)
(* checksum fills its field, as the one of checksum.h does (crc16Fits).    *)
THEOREM CompleteMeansSound == CrcFits => (Spec => []CompleteIsSound)
  <1> SUFFICES ASSUME CrcFits PROVE Spec => []CompleteIsSound
    OBVIOUS
  <1>1. Init => SoundInv
    BY QueueInitially, EmptyIsSound DEF Init, SoundInv, AllSound
  <1>2. SoundInv /\ [Next]_vars => SoundInv'
    BY SoundStep
  <1>3. SoundInv => CompleteIsSound
    BY SoundAndComplete DEF SoundInv, CompleteIsSound
  <1> QED
    BY <1>1, <1>2, <1>3, PTL DEF Spec
-----------------------------------------------------------------------------
(* The checksum.  What the passes of its loops, and of those of the        *)
(* division, make of a register or of a polynomial.                        *)
Polynomials == SUBSET Int

LEMMA ShiftInIs ==
    ASSUME NEW c \in Register, NEW bit
    PROVE  ShiftIn(c, bit) \in Register
  BY DEF ShiftIn, ShiftRight, Xor, Poly, Register

LEMMA EliminateIs ==
    ASSUME NEW S \in Polynomials, NEW d \in Int
    PROVE  Eliminate(S, d) \in Polynomials
  BY DEF Eliminate, Generator, Xor, Polynomials

LEMMA ByteInIs ==
    ASSUME NEW b, NEW c \in Register
    PROVE  \E f \in [0..8 -> Register] :
              /\ f[0] = c /\ f[8] = ByteIn(b)[c]
              /\ \A i \in 1..8 : f[i] = ShiftIn(f[i - 1], i - 1 \in BitsOf(b))
  <1> DEFINE pass == [i \in 1..8 |-> [r \in Register |-> ShiftIn(r, i - 1 \in BitsOf(b))]]
  <1>1. pass \in [1..8 -> [Register -> Register]]
    BY ShiftInIs
  <1>2. ByteIn(b)[c] = AfterLoop(8, c, pass)
    BY DEF ByteIn
  <1>3. \A i \in 1..8, r \in Register : pass[i][r] = ShiftIn(r, i - 1 \in BitsOf(b))
    OBVIOUS
  <1> HIDE DEF pass
  <1>4. PICK f \in [0..8 -> Register] : /\ f[0] = c /\ f[8] = AfterLoop(8, c, pass)
                                        /\ \A i \in 1..8 : f[i] = pass[i][f[i - 1]]
    <2> DEFINE n == 8
    <2>1. n \in Nat /\ pass \in [1..n -> [Register -> Register]]
      BY <1>1
    <2> HIDE DEF n
    <2>2. \E f \in [0..n -> Register] : /\ f[0] = c /\ f[n] = AfterLoop(n, c, pass)
                                    /\ \A i \in 1..n : f[i] = pass[i][f[i - 1]]
      BY <2>1, AfterLoopIs
    <2> QED
      BY <2>2 DEF n
  <1>5. \A i \in 1..8 : f[i - 1] \in Register
    BY <1>4
  <1> QED
    BY <1>2, <1>3, <1>4, <1>5

LEMMA EliminateByteIs ==
    ASSUME NEW d \in Int, NEW S \in Polynomials
    PROVE  \E f \in [0..8 -> Polynomials] :
              /\ f[0] = S /\ f[8] = EliminateByte(d)[S]
              /\ \A i \in 1..8 : f[i] = Eliminate(f[i - 1], d + 1 - i)
  <1> DEFINE pass == [i \in 1..8 |-> [T \in Polynomials |-> Eliminate(T, d + 1 - i)]]
  <1>1. pass \in [1..8 -> [Polynomials -> Polynomials]]
    BY EliminateIs
  <1>2. EliminateByte(d)[S] = AfterLoop(8, S, pass)
    BY DEF EliminateByte, Polynomials
  <1>3. \A i \in 1..8, T \in Polynomials : pass[i][T] = Eliminate(T, d + 1 - i)
    OBVIOUS
  <1> HIDE DEF pass
  <1>4. PICK f \in [0..8 -> Polynomials] : /\ f[0] = S /\ f[8] = AfterLoop(8, S, pass)
                                           /\ \A i \in 1..8 : f[i] = pass[i][f[i - 1]]
    <2> DEFINE n == 8
    <2>1. n \in Nat /\ pass \in [1..n -> [Polynomials -> Polynomials]]
      BY <1>1
    <2> HIDE DEF n
    <2>2. \E f \in [0..n -> Polynomials] : /\ f[0] = S /\ f[n] = AfterLoop(n, S, pass)
                                    /\ \A i \in 1..n : f[i] = pass[i][f[i - 1]]
      BY <2>1, AfterLoopIs
    <2> QED
      BY <2>2 DEF n
  <1>5. \A i \in 1..8 : f[i - 1] \in Polynomials
    BY <1>4
  <1> QED
    BY <1>2, <1>3, <1>4, <1>5

LEMMA BytesAre ==
    /\ \A b : ByteIn(b) \in [Register -> Register]
    /\ \A d \in Int : EliminateByte(d) \in [Polynomials -> Polynomials]
  <1>1. ASSUME NEW b, NEW c \in Register PROVE ByteIn(b)[c] \in Register
    BY ByteInIs
  <1>2. ASSUME NEW d \in Int, NEW S \in Polynomials PROVE EliminateByte(d)[S] \in Polynomials
    BY EliminateByteIs
  <1>3. ASSUME NEW b PROVE ByteIn(b) = [c \in Register |-> ByteIn(b)[c]]
    BY DEF ByteIn
  <1>4. ASSUME NEW d \in Int PROVE EliminateByte(d) = [S \in Polynomials |-> EliminateByte(d)[S]]
    BY DEF EliminateByte, Polynomials
  <1> QED
    BY <1>1, <1>2, <1>3, <1>4

BytePass(n, data) == [k \in 1..n |-> ByteIn(data[k])]

LEMMA BytesIn ==
    ASSUME NEW n \in Nat, NEW data, NEW x \in Register
    PROVE  \E f \in [0..n -> Register] :
              /\ f[0] = x /\ f[n] = AfterLoop(n, x, BytePass(n, data))
              /\ \A k \in 1..n : f[k] = ByteIn(data[k])[f[k - 1]]
  <1> DEFINE pass == BytePass(n, data)
  <1>1. pass \in [1..n -> [Register -> Register]]
    BY BytesAre DEF BytePass
  <1>2. \A k \in 1..n : pass[k] = ByteIn(data[k])
    BY DEF BytePass
  <1> HIDE DEF pass
  <1>3. \E f \in [0..n -> Register] : /\ f[0] = x /\ f[n] = AfterLoop(n, x, pass)
                                      /\ \A k \in 1..n : f[k] = pass[k][f[k - 1]]
    BY <1>1, AfterLoopIs
  <1> QED
    BY <1>2, <1>3 DEF pass

LEMMA RegisterIs ==
    ASSUME NEW data, Len(data) \in Nat
    PROVE  \E f \in [0..Len(data) -> Register] :
              /\ f[0] = crc16_begin /\ f[Len(data)] = crc16_update(crc16_begin, data)
              /\ \A k \in 1..Len(data) : f[k] = ByteIn(data[k])[f[k - 1]]
  <1>1. crc16_begin \in Register
    BY DEF crc16_begin, Register
  <1>2. crc16_update(crc16_begin, data)
          = AfterLoop(Len(data), crc16_begin, BytePass(Len(data), data))
    BY DEF crc16_update, BytePass
  <1> QED
    BY <1>1, <1>2, BytesIn

DivisionPass(l) == [k \in 1..l |-> EliminateByte(8 * l + 23 - 8 * k)]

LEMMA BytesEliminated ==
    ASSUME NEW l \in Nat, NEW x \in Polynomials
    PROVE  \E f \in [0..l -> Polynomials] :
              /\ f[0] = x /\ f[l] = AfterLoop(l, x, DivisionPass(l))
              /\ \A k \in 1..l : f[k] = EliminateByte(8 * l + 23 - 8 * k)[f[k - 1]]
  <1> DEFINE pass == DivisionPass(l)
  <1>1. pass \in [1..l -> [Polynomials -> Polynomials]]
    BY BytesAre DEF DivisionPass
  <1>2. \A k \in 1..l : pass[k] = EliminateByte(8 * l + 23 - 8 * k)
    BY DEF DivisionPass
  <1> HIDE DEF pass
  <1>3. \E f \in [0..l -> Polynomials] : /\ f[0] = x /\ f[l] = AfterLoop(l, x, pass)
                                         /\ \A k \in 1..l : f[k] = pass[k][f[k - 1]]
    BY <1>1, AfterLoopIs
  <1> QED
    BY <1>2, <1>3 DEF pass

(* The bits of the data, the first of them the highest power. *)
Ones(data, from) == {8 * Len(data) + 15 - k :
                        k \in {j \in from..(8 * Len(data) - 1) : BitAt(data, j)}}

LEMMA DivisionIs ==
    ASSUME NEW data, Len(data) \in Nat
    PROVE  LET n == 8 * Len(data)
           IN  \E f \in [0..Len(data) -> Polynomials] :
                  /\ f[0] = Xor(Ones(data, 0), n..(n + 15)) /\ f[Len(data)] = Remainder(data)
                  /\ \A k \in 1..Len(data) : f[k] = EliminateByte(n + 23 - 8 * k)[f[k - 1]]
  <1> DEFINE n == 8 * Len(data)
             x == Xor(Ones(data, 0), n..(n + 15))
  <1>1. x \in Polynomials
    BY DEF Ones, Xor, Polynomials
  <1>2. Remainder(data) = AfterLoop(Len(data), x, DivisionPass(Len(data)))
    BY Zenon DEF Remainder, Ones, DivisionPass
  <1> DEFINE l == Len(data)
  <1>3. \E f \in [0..l -> Polynomials] :
           /\ f[0] = x /\ f[l] = AfterLoop(l, x, DivisionPass(l))
           /\ \A k \in 1..l : f[k] = EliminateByte(8 * l + 23 - 8 * k)[f[k - 1]]
    <2>1. l \in Nat
      OBVIOUS
    <2> HIDE DEF x, l
    <2> QED
      BY <1>1, <2>1, BytesEliminated
  <1>4. \E f \in [0..l -> Polynomials] :
           /\ f[0] = x /\ f[l] = Remainder(data)
           /\ \A k \in 1..l : f[k] = EliminateByte(8 * l + 23 - 8 * k)[f[k - 1]]
    <2> HIDE DEF x
    <2> QED
      BY <1>2, <1>3
  <1> QED
    BY <1>4

(* The register holds the 16 highest powers that are left, the highest of  *)
(* them in bit 0.                                                          *)
Aligned(d, c) == {d - i : i \in c}

(* A step of the division is a shift of the register. *)
LEMMA ShiftIsDivision ==
    ASSUME NEW d \in Nat, d >= 16, NEW c \in Register, NEW bit \in BOOLEAN,
           NEW low, NEW here, \A e \in low : e \in Int /\ e < d,
           here = IF bit THEN low \cup {d} ELSE low
    PROVE  Eliminate(Xor(Aligned(d, c), here), d) = Xor(Aligned(d - 1, ShiftIn(c, bit)), low)
  <1> DEFINE S == Xor(Aligned(d, c), here)
             T == Aligned(d - 1, ShiftIn(c, bit))
             odd == (0 \in c) # bit
  <1>1. \A e \in Int : e \in Aligned(d, c) <=> d - e \in c
    BY DEF Aligned, Register
  <1>2. \A e \in Int : e \in Aligned(d - 1, ShiftRight(c)) <=> d - e \in c \ {0}
    <2>1. ASSUME NEW e \in Int, e \in Aligned(d - 1, ShiftRight(c)) PROVE d - e \in c \ {0}
      <3>1. PICK i \in c \ {0} : e = (d - 1) - (i - 1)
        BY <2>1 DEF Aligned, ShiftRight
      <3>2. i \in Int
        BY DEF Register
      <3> QED
        BY <3>1, <3>2
    <2>2. ASSUME NEW e \in Int, d - e \in c \ {0} PROVE e \in Aligned(d - 1, ShiftRight(c))
      <3>1. (d - e) - 1 \in ShiftRight(c)
        BY <2>2 DEF ShiftRight
      <3>2. e = (d - 1) - ((d - e) - 1)
        OBVIOUS
      <3> QED
        BY <3>1, <3>2 DEF Aligned
    <2> QED
      BY <2>1, <2>2
  <1>3. \A e \in Int : e \in Aligned(d - 1, Poly) <=> e \in Generator(d) \ {d}
    BY DEF Aligned, Poly, Generator
  <1>4. \A e \in Int : e \in T <=> IF odd THEN (e \in Aligned(d - 1, ShiftRight(c)))
                                                # (e \in Aligned(d - 1, Poly))
                                   ELSE e \in Aligned(d - 1, ShiftRight(c))
    <2>1. \A i \in Xor(ShiftRight(c), Poly) : i \in Int
      BY DEF Xor, ShiftRight, Poly, Register
    <2>2. \A e \in Int : e \in Aligned(d - 1, Xor(ShiftRight(c), Poly))
                           <=> (d - 1) - e \in Xor(ShiftRight(c), Poly)
      BY <2>1 DEF Aligned
    <2>3. ShiftRight(c) \subseteq Int /\ Poly \subseteq Int
      BY DEF ShiftRight, Poly, Register
    <2>4. ASSUME NEW B, B \subseteq Int, NEW e \in Int
          PROVE  e \in Aligned(d - 1, B) <=> (d - 1) - e \in B
      BY <2>4 DEF Aligned
    <2>5. CASE odd
      <3>1. T = Aligned(d - 1, Xor(ShiftRight(c), Poly))
        BY <2>5 DEF ShiftIn
      <3>2. ASSUME NEW e \in Int
            PROVE  e \in T <=> (e \in Aligned(d - 1, ShiftRight(c))) # (e \in Aligned(d - 1, Poly))
        <4>1. /\ e \in Aligned(d - 1, ShiftRight(c)) <=> (d - 1) - e \in ShiftRight(c)
              /\ e \in Aligned(d - 1, Poly) <=> (d - 1) - e \in Poly
          BY <2>3, <2>4
        <4>2. e \in T <=> (d - 1) - e \in Xor(ShiftRight(c), Poly)
          BY <2>2, <3>1
        <4> HIDE DEF T
        <4> QED
          BY <4>1, <4>2 DEF Xor
      <3> HIDE DEF T, odd
      <3> QED
        BY <2>5, <3>2
    <2>6. CASE ~odd
      BY <2>6 DEF ShiftIn
    <2> QED
      BY <2>5, <2>6
  <1>5. d \in Generator(d) /\ Generator(d) \subseteq Int
    BY DEF Generator
  <1>6. S \subseteq Int /\ T \subseteq Int /\ low \subseteq Int
    <2>1. S \subseteq Int
      BY DEF Xor, Aligned, Register
    <2>2. T \subseteq Int
      BY ShiftInIs DEF Aligned, Register
    <2> QED
      BY <2>1, <2>2
  <1>7. \A e \in Int : e \in S <=> (d - e \in c) # (e \in here)
    BY <1>1 DEF Xor
  <1>8. d \in S <=> odd
    <2>1. (d \in here) = bit
      <3>1. CASE bit = TRUE
        BY <3>1
      <3>2. CASE bit = FALSE
        BY <3>2
      <3> QED
        BY <3>1, <3>2
    <2>2. d - d = 0 /\ d \in Int
      OBVIOUS
    <2> HIDE DEF S
    <2>3. d \in S <=> (0 \in c) # (d \in here)
      <3>1. d \in S <=> (d - d \in c) # (d \in here)
        BY <1>7, <2>2
      <3> QED
        BY <2>2, <3>1
    <2> QED
      BY <2>1, <2>3
  <1> HIDE DEF S, T
  <1>9. ASSUME NEW e \in Int PROVE e \in Eliminate(S, d) <=> e \in Xor(T, low)
    <2>1. CASE e = d
      <3>1. e \notin low /\ e \notin Aligned(d - 1, ShiftRight(c)) /\ e \notin Aligned(d - 1, Poly)
        BY <1>2, <1>3, <2>1
      <3>2. e \notin T
        BY <1>4, <3>1
      <3>3. e \notin Eliminate(S, d)
        BY <1>5, <2>1 DEF Eliminate, Xor
      <3> QED
        BY <3>1, <3>2, <3>3 DEF Xor
    <2>2. CASE e # d
      <3>1. d - e # 0
        BY <2>2
      <3>2. e \in S <=> (d - e \in c) # (e \in low)
        BY <1>7, <2>2
      <3>3. e \in T <=> IF odd THEN (d - e \in c) # (e \in Generator(d)) ELSE d - e \in c
        BY <1>2, <1>3, <1>4, <2>2, <3>1
      <3>4. e \in Eliminate(S, d) <=> IF odd THEN (e \in S) # (e \in Generator(d)) ELSE e \in S
        BY <1>8 DEF Eliminate, Xor
      <3> QED
        BY <3>2, <3>3, <3>4 DEF Xor
    <2> QED
      BY <2>1, <2>2
  <1>10. Eliminate(S, d) \subseteq Int /\ Xor(T, low) \subseteq Int
    BY <1>5, <1>6 DEF Eliminate, Xor
  <1> QED
    BY <1>9, <1>10 DEF S, T

(* And eight of them take a byte in. *)
ByteOnes(d, b) == {d - i : i \in BitsOf(b)}

LEMMA ByteIsDivision ==
    ASSUME NEW d \in Nat, d >= 23, NEW c \in Register, NEW b,
           NEW low, \A e \in low : e \in Int /\ e < d - 7
    PROVE  EliminateByte(d)[Xor(Aligned(d, c), low \cup ByteOnes(d, b))]
             = Xor(Aligned(d - 8, ByteIn(b)[c]), low)
  <1> DEFINE Here(i) == low \cup {d - j : j \in BitsOf(b) \cap (i..7)}
             dividend == Xor(Aligned(d, c), low \cup ByteOnes(d, b))
  <1>1. PICK reg \in [0..8 -> Register] :
               /\ reg[0] = c /\ reg[8] = ByteIn(b)[c]
               /\ \A i \in 1..8 : reg[i] = ShiftIn(reg[i - 1], i - 1 \in BitsOf(b))
    BY ByteInIs
  <1>2. dividend \in Polynomials
    BY DEF Xor, Aligned, Polynomials, Register, BitsOf, ByteOnes
  <1> HIDE DEF dividend
  <1>3. PICK rem \in [0..8 -> Polynomials] :
               /\ rem[0] = dividend /\ rem[8] = EliminateByte(d)[dividend]
               /\ \A i \in 1..8 : rem[i] = Eliminate(rem[i - 1], d + 1 - i)
    BY <1>2, EliminateByteIs
  <1>4. BitsOf(b) \subseteq 0..7
    BY DEF BitsOf
  <1> HIDE DEF Here
  <1> DEFINE S == {i \in 0..8 : rem[i] = Xor(Aligned(d - i, reg[i]), Here(i))}
  <1>5. 0 \in S
    <2>0. rem[0] = Xor(Aligned(d, reg[0]), low \cup ByteOnes(d, b))
      BY <1>1, <1>3 DEF dividend
    <2>1. Here(0) = low \cup ByteOnes(d, b)
      <3>1. BitsOf(b) \cap (0..7) = BitsOf(b)
        BY <1>4
      <3> QED
        BY <3>1 DEF Here, ByteOnes
    <2>2. d - 0 = d
      OBVIOUS
    <2> QED
      BY <2>0, <2>1, <2>2
  <1>6. ASSUME NEW m \in 0..(8 - 1), m \in S PROVE m + 1 \in S
    <2>1. /\ m \in 0..8 /\ m + 1 \in 1..8 /\ (m + 1) - 1 = m /\ d + 1 - (m + 1) = d - m
          /\ d - m \in Nat /\ d - m >= 16 /\ (d - m) - 1 = d - (m + 1)
      OBVIOUS
    <2>2. rem[m] = Xor(Aligned(d - m, reg[m]), Here(m))
      BY <1>6
    <2>3. /\ reg[m + 1] = ShiftIn(reg[m], m \in BitsOf(b))
          /\ rem[m + 1] = Eliminate(rem[m], d - m)
      BY <1>1, <1>3, <2>1
    <2>4. \A e \in Here(m + 1) : e \in Int /\ e < d - m
      BY <1>4 DEF Here
    <2>5. Here(m) = IF m \in BitsOf(b) THEN Here(m + 1) \cup {d - m} ELSE Here(m + 1)
      <3>1. \A j : j \in m..7 <=> j = m \/ j \in (m + 1)..7
        OBVIOUS
      <3>2. BitsOf(b) \cap (m..7) = (BitsOf(b) \cap ((m + 1)..7))
                                      \cup (IF m \in BitsOf(b) THEN {m} ELSE {})
        BY <3>1
      <3> QED
        BY <3>2 DEF Here
    <2>6. reg[m] \in Register /\ (m \in BitsOf(b)) \in BOOLEAN
      BY <1>1, <2>1
    <2>7. Eliminate(Xor(Aligned(d - m, reg[m]), Here(m)), d - m)
            = Xor(Aligned((d - m) - 1, ShiftIn(reg[m], m \in BitsOf(b))), Here(m + 1))
      <3> DEFINE e == d - m
                 bit == m \in BitsOf(b)
                 r == reg[m]
      <3>1. e \in Nat /\ e >= 16 /\ r \in Register /\ bit \in BOOLEAN
        BY <2>1, <2>6
      <3>2. /\ \A p \in Here(m + 1) : p \in Int /\ p < e
            /\ Here(m) = IF bit THEN Here(m + 1) \cup {e} ELSE Here(m + 1)
        BY <2>4, <2>5
      <3> HIDE DEF e, bit, r
      <3>3. Eliminate(Xor(Aligned(e, r), Here(m)), e) = Xor(Aligned(e - 1, ShiftIn(r, bit)), Here(m + 1))
        BY <3>1, <3>2, ShiftIsDivision
      <3> QED
        BY <3>3 DEF e, bit, r
    <2>8. rem[m + 1] = Xor(Aligned(d - (m + 1), reg[m + 1]), Here(m + 1))
      BY <2>1, <2>2, <2>3, <2>7
    <2> QED
      BY <2>1, <2>8
  <1>7. 8 \in S
    <2>1. 0..8 \subseteq S
      <3> HIDE DEF S
      <3> QED
        BY <1>5, <1>6, BoundedInduction
    <2> QED
      BY <2>1
  <1>8. Here(8) = low
    BY DEF Here
  <1> QED
    BY <1>1, <1>3, <1>7, <1>8 DEF dividend

(* For all data: what the code shifts out is the remainder, and so is what *)
(* it makes of it.                                                         *)
LEMMA ChecksumDivides ==
    ASSUME NEW data, Len(data) \in Nat
    PROVE  crc16(data) = ReferenceCrc(data)
  <1> DEFINE l == Len(data)
             n == 8 * l
  <1>0. l \in Nat /\ n \in Nat
    OBVIOUS
  <1>1. PICK reg \in [0..l -> Register] :
               /\ reg[0] = crc16_begin /\ reg[l] = crc16_update(crc16_begin, data)
               /\ \A k \in 1..l : reg[k] = ByteIn(data[k])[reg[k - 1]]
    BY RegisterIs
  <1>2. PICK rem \in [0..l -> Polynomials] :
               /\ rem[0] = Xor(Ones(data, 0), n..(n + 15)) /\ rem[l] = Remainder(data)
               /\ \A k \in 1..l : rem[k] = EliminateByte(n + 23 - 8 * k)[rem[k - 1]]
    BY DivisionIs
  <1>3. \A k : Ones(data, k) = {n + 15 - j : j \in {i \in k..(n - 1) : BitAt(data, i)}}
    BY DEF Ones
  <1> HIDE DEF l
  <1> DEFINE S == {k \in 0..l : rem[k] = Xor(Aligned(n + 15 - 8 * k, reg[k]), Ones(data, 8 * k))}
  <1>5. 0 \in S
    <2>1. Aligned(n + 15, 0..15) = n..(n + 15)
      <3> HIDE DEF n
      <3>1. ASSUME NEW e \in n..(n + 15) PROVE e \in Aligned(n + 15, 0..15)
        <4>1. (n + 15) - e \in 0..15 /\ e = (n + 15) - ((n + 15) - e)
          BY <1>0
        <4> QED
          BY <4>1 DEF Aligned
      <3>2. ASSUME NEW e \in Aligned(n + 15, 0..15) PROVE e \in n..(n + 15)
        <4>1. PICK i \in 0..15 : e = (n + 15) - i
          BY DEF Aligned
        <4> QED
          BY <1>0, <4>1
      <3> QED
        BY <3>1, <3>2
    <2>2. n + 15 - 8 * 0 = n + 15 /\ 8 * 0 = 0
      BY <1>0
    <2> HIDE DEF n
    <2>3. rem[0] = Xor(Aligned(n + 15 - 8 * 0, reg[0]), Ones(data, 8 * 0))
      BY <1>1, <1>2, <2>1, <2>2 DEF Xor, crc16_begin
    <2> QED
      BY <1>0, <2>3
  <1>6. ASSUME NEW m \in 0..(l - 1), m \in S PROVE m + 1 \in S
    <2> DEFINE k == m + 1
               d == n + 15 - 8 * m
               b == data[k]
               low == Ones(data, 8 * k)
    <2>1. /\ k \in 1..l /\ k \in 0..l /\ k - 1 = m /\ m \in 0..l /\ d \in Nat /\ d >= 23
          /\ d = n + 23 - 8 * k /\ d - 8 = n + 15 - 8 * k
      BY <1>0
    <2>2. rem[m] = Xor(Aligned(d, reg[m]), Ones(data, 8 * m))
      BY <1>6
    <2>3. reg[k] = ByteIn(b)[reg[m]] /\ rem[k] = EliminateByte(d)[rem[m]]
      BY <1>1, <1>2, <2>1
    <2>4. \A e \in low : e \in Int /\ e < d - 7
      <3>1. \A j \in (8 * k)..(n - 1) : n + 15 - j \in Int /\ n + 15 - j < d - 7
        BY <1>0
      <3> QED
        BY <1>3, <3>1
    <2>5. Ones(data, 8 * m) = low \cup ByteOnes(d, b)
      <3>1. ASSUME NEW j \in 0..7 PROVE BitAt(data, 8 * m + j) <=> j \in BitsOf(b)
        <4>1. (8 * m + j) % 8 = j /\ (8 * m + j) \div 8 = m
          BY <1>0
        <4> QED
          BY <4>1 DEF BitAt
      <3>2. ASSUME NEW e \in Ones(data, 8 * m) PROVE e \in low \cup ByteOnes(d, b)
        <4>1. PICK j \in (8 * m)..(n - 1) : BitAt(data, j) /\ e = n + 15 - j
          BY <1>3
        <4>2. CASE j >= 8 * k
          <5>1. j \in (8 * k)..(n - 1)
            BY <1>0, <4>2
          <5> HIDE DEF k, n, d, b
          <5> QED
            BY <1>3, <4>1, <5>1
        <4>3. CASE j < 8 * k
          <5> DEFINE i == j - 8 * m
          <5>1. i \in 0..7 /\ j = 8 * m + i /\ e = d - i
            BY <1>0, <4>1, <4>3
          <5>2. i \in BitsOf(b)
            <6> HIDE DEF i, b
            <6> QED
              BY <3>1, <4>1, <5>1
          <5> HIDE DEF i, b, d
          <5> QED
            BY <5>1, <5>2 DEF ByteOnes
        <4> QED
          BY <1>0, <4>2, <4>3
      <3>3. ASSUME NEW e \in low PROVE e \in Ones(data, 8 * m)
        <4>1. \A j \in (8 * k)..(n - 1) : j \in (8 * m)..(n - 1)
          BY <1>0
        <4> HIDE DEF k, n
        <4> QED
          BY <1>3, <4>1
      <3>4. ASSUME NEW i \in BitsOf(b) PROVE d - i \in Ones(data, 8 * m)
        <4>1. i \in 0..7
          BY DEF BitsOf
        <4>2. 8 * m + i \in (8 * m)..(n - 1) /\ d - i = n + 15 - (8 * m + i)
          BY <1>0, <4>1
        <4>3. PICK j \in (8 * m)..(n - 1) : j = 8 * m + i /\ d - i = n + 15 - j
          BY <4>2
        <4>4. BitAt(data, j)
          BY <3>1, <4>1, <4>3
        <4> HIDE DEF d, n, b
        <4> QED
          BY <1>3, <4>3, <4>4
      <3> HIDE DEF low, d, b
      <3> QED
        BY <3>2, <3>3, <3>4 DEF ByteOnes
    <2>6. rem[k] = Xor(Aligned(d - 8, reg[k]), low)
      <3> DEFINE r == reg[m]
      <3>1. d \in Nat /\ d >= 23 /\ r \in Register
        BY <1>1, <2>1
      <3> HIDE DEF k, d, low, b, r
      <3>2. EliminateByte(d)[Xor(Aligned(d, r), low \cup ByteOnes(d, b))]
              = Xor(Aligned(d - 8, ByteIn(b)[r]), low)
        <4>1. \A a \in Register : \A B, L :
                 (\A e \in L : e \in Int /\ e < d - 7)
                 => EliminateByte(d)[Xor(Aligned(d, a), L \cup ByteOnes(d, B))]
                      = Xor(Aligned(d - 8, ByteIn(B)[a]), L)
          BY <3>1, ByteIsDivision
        <4> QED
          BY <2>4, <3>1, <4>1
      <3> QED
        BY <2>2, <2>3, <2>5, <3>2 DEF r
    <2> QED
      BY <2>1, <2>6
  <1>7. l \in S
    <2>1. 0..l \subseteq S
      <3> HIDE DEF S
      <3> QED
        BY <1>0, <1>5, <1>6, BoundedInduction
    <2> QED
      BY <1>0, <2>1
  <1>8. Remainder(data) = Aligned(15, crc16_update(crc16_begin, data))
    <2>1. Ones(data, 8 * l) = {}
      BY <1>0, <1>3
    <2>2. n + 15 - 8 * l = 15
      BY <1>0
    <2> QED
      BY <1>1, <1>2, <1>7, <2>1, <2>2 DEF Xor
  <1>9. \A c \in Register : {15 - d : d \in Aligned(15, c)} = c
    <2> SUFFICES ASSUME NEW c \in Register PROVE {15 - d : d \in Aligned(15, c)} = c
      OBVIOUS
    <2>1. \A i \in c : i \in Int /\ 15 - (15 - i) = i
      BY DEF Register
    <2>2. \A i \in c : 15 - i \in Aligned(15, c)
      BY DEF Aligned
    <2>3. \A d \in Aligned(15, c) : \E i \in c : d = 15 - i
      BY DEF Aligned
    <2> QED
      BY <2>1, <2>2, <2>3
  <1>10. crc16_update(crc16_begin, data) \in Register
    BY <1>0, <1>1
  <1> QED
    BY <1>8, <1>9, <1>10 DEF crc16, ReferenceCrc

(* In a program whose checksum is the one of checksum.cpp: a message that  *)
(* is complete carries the remainder of the division that its comment      *)
(* speaks of, whatever is in it (checksum.h:9-16).                         *)
CrcIsCrc16 == SizeCrc = 2 /\ \A bytes : Crc(bytes) = crc16(bytes)

LEMMA CarriesRemainder ==
    ASSUME CrcIsCrc16, NEW m, IsMessage(m), Size(m) >= SizeMin, WellFormed(m)
    PROVE  Field(m, ArgsEnd(m), SizeCrc) = ReferenceCrc(Covered(m))
  <1>1. Len(Covered(m)) \in Nat
    <2> DEFINE b == m.bytes
               n == ArgsEnd(m)
    <2>0. Size(m) \in Nat /\ n = Size(m) - SizeCrc
      BY SequenceIs DEF ArgsEnd, Size, IsMessage
    <2>1. n \in Int
      BY <2>0, SizesAre
    <2>2. n - SizeMagic \in Nat
      BY <2>0, SizesAre
    <2>3. Covered(m) = [k \in 1..(n - SizeMagic) |-> b[(SizeMagic + 1) + k - 1]]
      <3> HIDE DEF b, n
      <3>1. Covered(m) = SubSeq(b, SizeMagic + 1, n)
        BY DEF Covered, b, n
      <3>2. n - (SizeMagic + 1) + 1 = n - SizeMagic
        BY <2>1, SizesAre
      <3> QED
        BY <2>1, <3>1, <3>2, SizesAre
    <2> HIDE DEF b, n
    <2> QED
      BY <2>2, <2>3
  <1> QED
    BY <1>1, ChecksumDivides DEF CrcIsCrc16, WellFormed

THEOREM ChecksumIsDivision == CrcIsCrc16 => (Spec => []ChecksumIsRemainder)
  <1> SUFFICES ASSUME CrcIsCrc16 PROVE Spec => []ChecksumIsRemainder
    OBVIOUS
  <1>0. CrcFits
    BY crc16Fits, Zenon DEF CrcIsCrc16, CrcFits
  <1>1. Init => SoundInv
    BY QueueInitially, EmptyIsSound DEF Init, SoundInv, AllSound
  <1>2. SoundInv /\ [Next]_vars => SoundInv'
    BY <1>0, SoundStep
  <1>3. SoundInv => ChecksumIsRemainder
    <2> SUFFICES ASSUME SoundInv, Complete(msg)
                 PROVE  Field(msg, ArgsEnd(msg), SizeCrc) = ReferenceCrc(Covered(msg))
      BY DEF ChecksumIsRemainder
    <2>1. Sound(msg)
      BY DEF SoundInv
    <2> QED
      BY <2>1, SoundAndComplete, CarriesRemainder DEF Sound, Complete
  <1> QED
    BY <1>1, <1>2, <1>3, PTL DEF Spec
-----------------------------------------------------------------------------
(* Reading.  Numbers by their bytes: writeInt() and its kind take a number *)
(* apart, readInt() and its kind put it together (beio.cpp).               *)
LEMMA Split ==
    ASSUME NEW c \in Nat \ {0}, NEW v \in Int
    PROVE  \E q \in Int, r \in Int :
              q = v \div c /\ r = v % c /\ 0 <= r /\ r < c /\ v = c * q + r
  <1>1. PICK q, r : q = v \div c /\ r = v % c
    OBVIOUS
  <1>2. r \in 0..(c - 1) /\ q \in Int /\ r = v - c * q
    BY <1>1, DivMod
  <1>3. c * q \in Int
    BY <1>2
  <1>4. r \in Int /\ 0 <= r /\ r < c /\ v = c * q + r
    BY <1>2, <1>3
  <1> QED
    BY <1>1, <1>2, <1>4

LEMMA ByBytes ==
    ASSUME NEW v \in Int
    PROVE  \E q \in Int, r \in Int :
              q = v \div 256 /\ r = v % 256 /\ 0 <= r /\ r < 256 /\ v = 256 * q + r
  <1>1. 256 \in Nat \ {0}
    BY SMT
  <1> QED
    BY <1>1, Split

LEMMA BeforeTwoBytes ==
    ASSUME NEW v \in Int
    PROVE  \E q \in Int, r \in Int :
              q = v \div 65536 /\ 0 <= r /\ r < 65536 /\ v = 65536 * q + r
  <1>1. 65536 \in Nat \ {0}
    BY SMT
  <1> QED
    BY <1>1, Split, SMT

LEMMA BeforeThreeBytes ==
    ASSUME NEW v \in Int
    PROVE  \E q \in Int, r \in Int :
              q = v \div 16777216 /\ 0 <= r /\ r < 16777216 /\ v = 16777216 * q + r
  <1>1. 16777216 \in Nat \ {0}
    BY SMT
  <1> QED
    BY <1>1, Split, SMT

LEMMA TwoBytes ==
    ASSUME NEW v \in Int
    PROVE  v \div 65536 = (v \div 256) \div 256
  <1>1. PICK q \in Int, r \in Int :
               q = v \div 256 /\ 0 <= r /\ r < 256 /\ v = 256 * q + r
    BY ByBytes
  <1>2. PICK p \in Int, s \in Int : p = q \div 256 /\ 0 <= s /\ s < 256 /\ q = 256 * p + s
    BY ByBytes
  <1>3. PICK a \in Int, b \in Int :
               a = v \div 65536 /\ 0 <= b /\ b < 65536 /\ v = 65536 * a + b
    BY BeforeTwoBytes
  <1>4. a = p
    BY <1>1, <1>2, <1>3, SMT
  <1> QED
    BY <1>1, <1>2, <1>3, <1>4, SMT

LEMMA ThreeBytes ==
    ASSUME NEW v \in Int
    PROVE  v \div 16777216 = (v \div 65536) \div 256
  <1>1. PICK q \in Int, r \in Int :
               q = v \div 65536 /\ 0 <= r /\ r < 65536 /\ v = 65536 * q + r
    BY BeforeTwoBytes
  <1>2. PICK p \in Int, s \in Int : p = q \div 256 /\ 0 <= s /\ s < 256 /\ q = 256 * p + s
    BY ByBytes
  <1>3. PICK a \in Int, b \in Int :
               a = v \div 16777216 /\ 0 <= b /\ b < 16777216 /\ v = 16777216 * a + b
    BY BeforeThreeBytes
  <1>4. a = p
    BY <1>1, <1>2, <1>3, SMT
  <1> QED
    BY <1>1, <1>2, <1>3, <1>4, SMT

(* The high byte of a negative number counts from 256 down. *)
LEMMA TopByte ==
    ASSUME NEW q \in (-128)..127
    PROVE  (IF q % 256 >= 128 THEN (q % 256) - 256 ELSE q % 256) = q
  <1>1. PICK p \in Int, s \in Int :
               s = q % 256 /\ 0 <= s /\ s < 256 /\ q = 256 * p + s
    BY ByBytes
  <1>2. (IF s >= 128 THEN s - 256 ELSE s) = q
    BY <1>1, SMT
  <1> QED
    BY <1>1, <1>2

(* What is written. *)
LEMMA WrittenOne ==
    ASSUME NEW v \in Int
    PROVE  WriteBE(v, 1)[1] = v % 256 /\ Len(WriteBE(v, 1)) = 1
  <1>1. 256^0 = 1 /\ v \div 1 = v
    BY SMT
  <1>2. WriteBE(v, 1)[1] = (v \div 256^0) % 256
    BY SMT DEF WriteBE
  <1>3. Len(WriteBE(v, 1)) = 1
    BY WriteBEIs
  <1> QED
    BY <1>1, <1>2, <1>3, SMT

LEMMA WrittenTwo ==
    ASSUME NEW v \in Int
    PROVE  /\ WriteBE(v, 2)[1] = (v \div 256) % 256 /\ WriteBE(v, 2)[2] = v % 256
           /\ Len(WriteBE(v, 2)) = 2
  <1>1. 256^0 = 1 /\ 256^1 = 256 /\ v \div 1 = v
    BY SMT
  <1>2. /\ WriteBE(v, 2)[1] = (v \div 256^1) % 256
        /\ WriteBE(v, 2)[2] = (v \div 256^0) % 256
    BY SMT DEF WriteBE
  <1>3. Len(WriteBE(v, 2)) = 2
    BY WriteBEIs
  <1> QED
    BY <1>1, <1>2, <1>3, SMT

LEMMA WrittenFour ==
    ASSUME NEW v \in Int
    PROVE  /\ WriteBE(v, 4)[1] = (v \div 16777216) % 256
           /\ WriteBE(v, 4)[2] = (v \div 65536) % 256
           /\ WriteBE(v, 4)[3] = (v \div 256) % 256 /\ WriteBE(v, 4)[4] = v % 256
           /\ Len(WriteBE(v, 4)) = 4
  <1>1. /\ 256^0 = 1 /\ 256^1 = 256 /\ 256^2 = 65536 /\ 256^3 = 16777216 /\ v \div 1 = v
    BY SMT
  <1>2. /\ WriteBE(v, 4)[1] = (v \div 256^3) % 256 /\ WriteBE(v, 4)[2] = (v \div 256^2) % 256
        /\ WriteBE(v, 4)[3] = (v \div 256^1) % 256 /\ WriteBE(v, 4)[4] = (v \div 256^0) % 256
    BY SMT DEF WriteBE
  <1>3. Len(WriteBE(v, 4)) = 4
    BY WriteBEIs
  <1> QED
    BY <1>1, <1>2, <1>3, SMT

(* What is read: ReadBE() unrolled for the widths there are. *)
TopOf(bytes, signed) == IF signed /\ bytes[1] >= 128 THEN bytes[1] - 256 ELSE bytes[1]

ReadIs(f, n, bytes, signed) ==
    f = [k \in 1..n |-> IF k = 1 THEN TopOf(bytes, signed) ELSE f[k - 1] * 256 + bytes[k]]

LEMMA ReadBEIs ==
    ASSUME NEW n \in Nat \ {0}, NEW bytes, Len(bytes) = n, NEW signed,
           NEW f, ReadIs(f, n, bytes, signed)
    PROVE  ReadBE(bytes, signed) = f[n]
  <1> DEFINE Is(g) == ReadIs(g, n, bytes, signed)
             v == CHOOSE g : Is(g)
  <1>1. ReadBE(bytes, signed) = v[n]
    BY ZenonT(60) DEF ReadBE, ReadIs, TopOf
  <1>2. Is(v)
    <2>1. Is(f)
      OBVIOUS
    <2> HIDE DEF Is
    <2> QED
      BY <2>1, Zenon
  <1> HIDE DEF v
  <1> DEFINE S == {k \in 0..n : k = 0 \/ v[k] = f[k]}
  <1>3. 0 \in S
    OBVIOUS
  <1>4. ASSUME NEW k \in 0..(n - 1), k \in S PROVE k + 1 \in S
    <2>1. /\ k + 1 \in 1..n /\ (k + 1) - 1 = k
          /\ v[k + 1] = IF k + 1 = 1 THEN TopOf(bytes, signed) ELSE v[k] * 256 + bytes[k + 1]
          /\ f[k + 1] = IF k + 1 = 1 THEN TopOf(bytes, signed) ELSE f[k] * 256 + bytes[k + 1]
      BY <1>2 DEF ReadIs
    <2> QED
      BY <1>4, <2>1
  <1>5. 0..n \subseteq S
    <2> HIDE DEF S
    <2> QED
      BY <1>3, <1>4, BoundedInduction
  <1> QED
    BY <1>1, <1>5

(* Reading takes the bytes of a number one by one. *)
LEMMA ReadOne ==
    ASSUME NEW bytes, Len(bytes) = 1, NEW signed
    PROVE  ReadBE(bytes, signed) = TopOf(bytes, signed)
  <1> DEFINE f == [k \in 1..1 |-> TopOf(bytes, signed)]
  <1>1. ReadIs(f, 1, bytes, signed)
    BY DEF ReadIs
  <1>2. f[1] = TopOf(bytes, signed)
    OBVIOUS
  <1> HIDE DEF f
  <1>3. ReadBE(bytes, signed) = f[1]
    <2>1. 1 \in Nat \ {0}
      OBVIOUS
    <2> QED
      BY <1>1, <2>1, ReadBEIs, Zenon
  <1> QED
    BY <1>2, <1>3

LEMMA ReadTwo ==
    ASSUME NEW bytes, Len(bytes) = 2, NEW signed
    PROVE  ReadBE(bytes, signed) = TopOf(bytes, signed) * 256 + bytes[2]
  <1> DEFINE t == TopOf(bytes, signed)
             f == [k \in 1..2 |-> IF k = 1 THEN t ELSE t * 256 + bytes[2]]
  <1>1. f[1] = t /\ f[2] = t * 256 + bytes[2]
    OBVIOUS
  <1>2. ReadIs(f, 2, bytes, signed)
    <2>1. \A k \in 1..2 : k = 1 \/ (k = 2 /\ k - 1 = 1)
      OBVIOUS
    <2>2. f = [k \in 1..2 |-> f[k]]
      OBVIOUS
    <2>3. \A k \in 1..2 : f[k] = IF k = 1 THEN t ELSE f[k - 1] * 256 + bytes[k]
      BY <1>1, <2>1
    <2> HIDE DEF f
    <2> QED
      BY <2>2, <2>3 DEF ReadIs
  <1> HIDE DEF f
  <1>3. ReadBE(bytes, signed) = f[2]
    <2>1. 2 \in Nat \ {0}
      OBVIOUS
    <2> QED
      BY <1>2, <2>1, ReadBEIs
  <1> QED
    BY <1>1, <1>3

LEMMA ReadFour ==
    ASSUME NEW bytes, Len(bytes) = 4, NEW signed
    PROVE  ReadBE(bytes, signed)
              = ((TopOf(bytes, signed) * 256 + bytes[2]) * 256 + bytes[3]) * 256 + bytes[4]
  <1> DEFINE t == TopOf(bytes, signed)
             u == t * 256 + bytes[2]
             v == u * 256 + bytes[3]
             w == v * 256 + bytes[4]
             f == [k \in 1..4 |-> IF k = 1 THEN t ELSE IF k = 2 THEN u ELSE IF k = 3 THEN v ELSE w]
  <1> HIDE DEF t
  <1>1. /\ f[1] = t /\ f[2] = f[1] * 256 + bytes[2] /\ f[3] = f[2] * 256 + bytes[3]
        /\ f[4] = f[3] * 256 + bytes[4] /\ f[4] = w
    <2> HIDE DEF t
    <2>1. f[1] = t /\ f[2] = u /\ f[3] = v /\ f[4] = w
      <3> HIDE DEF u, v, w
      <3> QED
        OBVIOUS
    <2> HIDE DEF f
    <2> QED
      BY <2>1
  <1>2. ReadIs(f, 4, bytes, signed)
    <2>1. \A k \in 1..4 : \/ k = 1 \/ (k = 2 /\ k - 1 = 1)
                         \/ (k = 3 /\ k - 1 = 2) \/ (k = 4 /\ k - 1 = 3)
      OBVIOUS
    <2>2. f = [k \in 1..4 |-> f[k]]
      <3> HIDE DEF u, v, w
      <3> QED
        OBVIOUS
    <2> HIDE DEF f
    <2>3. \A k \in 1..4 : f[k] = IF k = 1 THEN t ELSE f[k - 1] * 256 + bytes[k]
      BY <1>1, <2>1
    <2> QED
      BY <2>2, <2>3 DEF ReadIs, t
  <1> HIDE DEF f
  <1>3. ReadBE(bytes, signed) = f[4]
    <2>1. PICK n : n = 4
      OBVIOUS
    <2>2. n \in Nat \ {0} /\ Len(bytes) = n /\ ReadIs(f, n, bytes, signed)
      BY <1>2, <2>1
    <2>3. ReadBE(bytes, signed) = f[n]
      BY <2>2, ReadBEIs
    <2> QED
      BY <2>1, <2>3
  <1> QED
    BY <1>1, <1>3 DEF t

(* The types. *)
LEMMA RangeIs ==
    ASSUME NEW type \in Types, NEW v \in RangeOf(type)
    PROVE  v \in Int /\ Lowest[type] <= v /\ v <= Highest[type]
  <1>1. Lowest[type] \in Int /\ Highest[type] \in Int
    BY SMT DEF Types, Width, Lowest, Highest
  <1> QED
    BY <1>1 DEF RangeOf

LEMMA TypesAre ==
    /\ Types = {"u8", "u16", "i16", "i32"}
    /\ Width["u8"] = 1 /\ Width["u16"] = 2 /\ Width["i16"] = 2 /\ Width["i32"] = 4
    /\ Lowest["u8"] = 0 /\ Highest["u8"] = 255
    /\ Lowest["u16"] = 0 /\ Highest["u16"] = 65535
    /\ Lowest["i16"] = -32768 /\ Highest["i16"] = 32767
    /\ Lowest["i32"] = -2147483647 - 1 /\ Highest["i32"] = 2147483647
  BY SMT DEF Types, Width, Lowest, Highest

(* What was written is read, whatever it is. *)
LEMMA ReadsByte ==
    ASSUME NEW v \in RangeOf("u8")
    PROVE  ReadBE(WriteBE(v, 1), FALSE) = v
  <1> DEFINE b == WriteBE(v, 1)
  <1>1. v \in Int /\ 0 <= v /\ v <= 255
    BY RangeIs, TypesAre, SMT
  <1>2. Len(b) = 1 /\ b[1] = v % 256
    BY <1>1, WrittenOne
  <1>3. v % 256 = v
    BY <1>1
  <1> HIDE DEF b
  <1>4. ReadBE(b, FALSE) = v
    BY <1>2, <1>3, ReadOne DEF TopOf
  <1> QED
    BY <1>4 DEF b

LEMMA ReadsWord ==
    ASSUME NEW v \in RangeOf("u16")
    PROVE  ReadBE(WriteBE(v, 2), FALSE) = v
  <1> DEFINE b == WriteBE(v, 2)
  <1>1. v \in Int /\ 0 <= v /\ v <= 65535
    BY RangeIs, TypesAre, SMT
  <1>2. Len(b) = 2 /\ b[1] = (v \div 256) % 256 /\ b[2] = v % 256
    BY <1>1, WrittenTwo
  <1> HIDE DEF b
  <1>3. PICK q \in Int, r \in Int :
               q = v \div 256 /\ r = v % 256 /\ 0 <= r /\ r < 256 /\ v = 256 * q + r
    BY <1>1, ByBytes
  <1>4. q \in 0..255 /\ q % 256 = q
    <2>1. q \in 0..255
      BY <1>1, <1>3
    <2> QED
      BY <2>1
  <1>5. TopOf(b, FALSE) * 256 + b[2] = v
    BY <1>2, <1>3, <1>4 DEF TopOf
  <1>6. ReadBE(b, FALSE) = v
    BY <1>2, <1>5, ReadTwo
  <1> QED
    BY <1>6 DEF b

LEMMA ReadsShort ==
    ASSUME NEW v \in RangeOf("i16")
    PROVE  ReadBE(WriteBE(v, 2), TRUE) = v
  <1> DEFINE b == WriteBE(v, 2)
  <1>1. v \in Int /\ -32768 <= v /\ v <= 32767
    BY RangeIs, TypesAre, SMT
  <1>2. Len(b) = 2 /\ b[1] = (v \div 256) % 256 /\ b[2] = v % 256
    BY <1>1, WrittenTwo
  <1> HIDE DEF b
  <1>3. PICK q \in Int, r \in Int :
               q = v \div 256 /\ r = v % 256 /\ 0 <= r /\ r < 256 /\ v = 256 * q + r
    BY <1>1, ByBytes
  <1>4. q \in (-128)..127
    BY <1>1, <1>3
  <1>5. TopOf(b, TRUE) = q
    BY <1>2, <1>3, <1>4, TopByte DEF TopOf
  <1>6. ReadBE(b, TRUE) = TopOf(b, TRUE) * 256 + b[2]
    BY <1>2, ReadTwo
  <1>7. ReadBE(b, TRUE) = q * 256 + r
    BY <1>2, <1>3, <1>5, <1>6
  <1>8. ReadBE(b, TRUE) = v
    <2>1. v = q * 256 + r
      BY <1>3
    <2> QED
      BY <1>7, <2>1
  <1> QED
    BY <1>8, Zenon DEF b

LEMMA ReadsInt ==
    ASSUME NEW v \in RangeOf("i32")
    PROVE  ReadBE(WriteBE(v, 4), TRUE) = v
  <1> DEFINE b == WriteBE(v, 4)
  <1>1. v \in Int /\ -2147483647 - 1 <= v /\ v <= 2147483647
    BY RangeIs, TypesAre, SMT
  <1>2. /\ Len(b) = 4 /\ b[1] = (v \div 16777216) % 256 /\ b[2] = (v \div 65536) % 256
        /\ b[3] = (v \div 256) % 256 /\ b[4] = v % 256
    BY <1>1, WrittenFour, SMT
  <1> HIDE DEF b
  <1>3. PICK q \in Int, r \in Int :
               q = v \div 256 /\ r = v % 256 /\ 0 <= r /\ r < 256 /\ v = 256 * q + r
    BY <1>1, ByBytes, SMT
  <1>4. PICK p \in Int, s \in Int :
               p = q \div 256 /\ s = q % 256 /\ 0 <= s /\ s < 256 /\ q = 256 * p + s
    BY ByBytes, SMT
  <1>5. PICK o \in Int, t \in Int :
               o = p \div 256 /\ t = p % 256 /\ 0 <= t /\ t < 256 /\ p = 256 * o + t
    BY ByBytes, SMT
  <1>6. v \div 65536 = p /\ v \div 16777216 = o
    BY <1>1, <1>3, <1>4, <1>5, TwoBytes, ThreeBytes, SMT
  <1>7. o \in (-128)..127
    BY <1>1, <1>3, <1>4, <1>5, SMT
  <1>8. TopOf(b, TRUE) = o
    BY <1>2, <1>6, <1>7, TopByte, SMT DEF TopOf
  <1>9. b[2] = t /\ b[3] = s /\ b[4] = r
    BY <1>2, <1>3, <1>4, <1>5, <1>6, SMT
  <1>10. ReadBE(b, TRUE) = ((o * 256 + t) * 256 + s) * 256 + r
    <2>1. ReadBE(b, TRUE) = ((TopOf(b, TRUE) * 256 + b[2]) * 256 + b[3]) * 256 + b[4]
      <3>1. Len(b) = 4
        BY <1>2, SMT
      <3> QED
        BY <3>1, ReadFour
    <2> QED
      BY <1>8, <1>9, <2>1
  <1>11. ReadBE(b, TRUE) = v
    <2>1. p = o * 256 + t /\ q = p * 256 + s /\ v = q * 256 + r
      BY <1>3, <1>4, <1>5, SMT
    <2> QED
      BY <1>10, <2>1
  <1> QED
    BY <1>11, Zenon DEF b

(* For every type. *)
LEMMA ReadsBack ==
    ASSUME NEW type \in Types, NEW v \in RangeOf(type)
    PROVE  ReadBE(WriteBE(v, Width[type]), type \in {"i16", "i32"}) = v
  <1>1. CASE type = "u8"
    <2>1. Width[type] = 1 /\ (type \in {"i16", "i32"}) = FALSE
      BY <1>1, SMT DEF Width
    <2> QED
      BY <1>1, <2>1, ReadsByte, Zenon
  <1>2. CASE type = "u16"
    <2>1. Width[type] = 2 /\ (type \in {"i16", "i32"}) = FALSE
      BY <1>2, SMT DEF Width
    <2> QED
      BY <1>2, <2>1, ReadsWord, Zenon
  <1>3. CASE type = "i16"
    <2>1. Width[type] = 2 /\ (type \in {"i16", "i32"}) = TRUE
      BY <1>3, SMT DEF Width
    <2> QED
      BY <1>3, <2>1, ReadsShort, Zenon
  <1>4. CASE type = "i32"
    <2>1. Width[type] = 4 /\ (type \in {"i16", "i32"}) = TRUE
      BY <1>4, SMT DEF Width
    <2> QED
      BY <1>4, <2>1, ReadsInt, Zenon
  <1>5. type \in {"u8", "u16", "i16", "i32"}
    BY TypesAre, SMT
  <1> QED
    BY <1>1, <1>2, <1>3, <1>4, <1>5
-----------------------------------------------------------------------------
(* How fields lie in bytes: the bytes behind lo, up to hi, are a field's,  *)
(* and those behind offset off[k - 1], up to off[k], are the k-th one's.   *)
Fields == Seq(Types \X Int)

Piece(b, lo, hi, field) ==
    /\ field[2] \in RangeOf(field[1])
    /\ hi = lo + Width[field[1]]
    /\ \A i \in 1..Width[field[1]] : b[lo + i] = WriteBE(field[2], Width[field[1]])[i]

IsLaid(off, b, from, to, fields) ==
    /\ off \in [0..Len(fields) -> from..to] /\ off[0] = from /\ off[Len(fields)] = to
    /\ \A k \in 1..Len(fields) : Piece(b, off[k - 1], off[k], fields[k])

Encodes(b, from, to, fields) ==
    fields \in Fields /\ \E off : IsLaid(off, b, from, to, fields)

LEMMA WidthIs == \A type \in Types : Width[type] \in 1..4
  BY DEF Types, Width

LEMMA EncodesNone ==
    ASSUME NEW b, NEW at \in Nat
    PROVE  Encodes(b, at, at, <<>>)
  <1> DEFINE off == [k \in 0..0 |-> at]
  <1>1. off \in [0..0 -> at..at] /\ off[0] = at
    OBVIOUS
  <1> HIDE DEF off
  <1>2. IsLaid(off, b, at, at, <<>>)
    BY <1>1 DEF IsLaid
  <1> QED
    BY <1>2 DEF Encodes, Fields

LEMMA SamePiece ==
    ASSUME NEW b, NEW c, NEW d \in Int, NEW lo \in Int, NEW hi \in Int, NEW field \in Types \X Int,
           Piece(b, lo, hi, field), \A k \in (lo + 1)..hi : c[k - d] = b[k]
    PROVE  Piece(c, lo - d, hi - d, field) /\ lo < hi
  <1> DEFINE w == Width[field[1]]
  <1>1. w \in 1..4
    BY WidthIs
  <1>2. /\ field[2] \in RangeOf(field[1]) /\ hi = lo + w
        /\ \A i \in 1..w : b[lo + i] = WriteBE(field[2], w)[i]
    BY DEF Piece
  <1> HIDE DEF w
  <1>3. \A i \in 1..w : lo + i \in (lo + 1)..hi /\ (lo + i) - d = (lo - d) + i
    BY <1>1, <1>2
  <1>4. \A i \in 1..w : c[(lo - d) + i] = WriteBE(field[2], w)[i]
    BY <1>2, <1>3
  <1>5. hi - d = (lo - d) + w /\ lo < hi
    BY <1>1, <1>2
  <1> QED
    BY <1>2, <1>4, <1>5 DEF Piece, w

(* The same bytes elsewhere are the same fields. *)
LEMMA EncodesMoved ==
    ASSUME NEW b, NEW c, NEW d \in Int, NEW from \in Nat, NEW to \in Nat, NEW fields,
           Encodes(b, from, to, fields), \A k \in (from + 1)..to : c[k - d] = b[k]
    PROVE  Encodes(c, from - d, to - d, fields)
  <1>1. PICK off : IsLaid(off, b, from, to, fields)
    BY DEF Encodes
  <1> DEFINE n == Len(fields)
             new == [k \in 0..n |-> off[k] - d]
  <1>2. n \in Nat /\ \A k \in 1..n : fields[k] \in Types \X Int
    BY DEF Encodes, Fields
  <1>3. /\ off \in [0..n -> from..to] /\ off[0] = from /\ off[n] = to
        /\ \A k \in 1..n : Piece(b, off[k - 1], off[k], fields[k])
    BY <1>1 DEF IsLaid
  <1> HIDE DEF n
  <1>4. new \in [0..n -> (from - d)..(to - d)] /\ new[0] = from - d /\ new[n] = to - d
    BY <1>2, <1>3
  <1>5. ASSUME NEW k \in 1..n PROVE Piece(c, new[k - 1], new[k], fields[k])
    <2>1. k - 1 \in 0..n /\ k \in 0..n
      BY <1>2
    <2>2. PICK lo, hi : lo = off[k - 1] /\ hi = off[k]
      OBVIOUS
    <2>3. lo \in from..to /\ hi \in from..to /\ new[k - 1] = lo - d /\ new[k] = hi - d
      BY <1>3, <2>1, <2>2
    <2>4. \A i \in (lo + 1)..hi : c[i - d] = b[i]
      BY <2>3
    <2>5. lo \in Int /\ hi \in Int /\ fields[k] \in Types \X Int /\ Piece(b, lo, hi, fields[k])
      <3>1. lo \in Int /\ hi \in Int
        BY <2>3
      <3>2. fields[k] \in Types \X Int
        BY <1>2
      <3>3. Piece(b, lo, hi, fields[k])
        BY <1>3, <2>2
      <3> QED
        BY <3>1, <3>2, <3>3
    <2>6. Piece(c, lo - d, hi - d, fields[k])
      BY <2>4, <2>5, SamePiece
    <2> QED
      BY <2>3, <2>6
  <1> HIDE DEF new
  <1>6. IsLaid(new, c, from - d, to - d, fields)
    BY <1>4, <1>5 DEF IsLaid, n
  <1> QED
    BY <1>6 DEF Encodes

LEMMA EncodesSame ==
    ASSUME NEW b, NEW c, NEW from \in Nat, NEW to \in Nat, NEW fields,
           Encodes(b, from, to, fields), \A k \in (from + 1)..to : c[k] = b[k]
    PROVE  Encodes(c, from, to, fields)
  <1>1. PICK d \in Int : d = 0
    OBVIOUS
  <1>2. \A k \in (from + 1)..to : c[k - d] = b[k]
    BY <1>1
  <1>3. Encodes(c, from - d, to - d, fields)
    BY <1>2, EncodesMoved
  <1>4. from - d = from /\ to - d = to
    BY <1>1
  <1> QED
    BY <1>3, <1>4

(* A field, or as many bytes. *)
LEMMA EncodesOne ==
    ASSUME NEW b, NEW at \in Nat, NEW type \in Types, NEW v \in RangeOf(type),
           \A i \in 1..Width[type] : b[at + i] = WriteBE(v, Width[type])[i]
    PROVE  Encodes(b, at, at + Width[type], <<<<type, v>>>>)
  <1> DEFINE w == Width[type]
             off == [k \in 0..1 |-> IF k = 0 THEN at ELSE at + w]
             f == <<<<type, v>>>>
  <1>1. w \in 1..4 /\ v \in Int
    BY WidthIs, RangeIs
  <1>2. f \in Fields /\ Len(f) = 1 /\ f[1] = <<type, v>>
    BY <1>1 DEF Fields
  <1>3. Piece(b, at, at + w, <<type, v>>)
    BY DEF Piece
  <1> HIDE DEF w, f
  <1>4. off \in [0..1 -> at..(at + w)] /\ off[0] = at /\ off[1] = at + w
    BY <1>1
  <1> HIDE DEF off
  <1>5. IsLaid(off, b, at, at + w, f)
    <2>1. \A k \in 1..1 : k = 1 /\ k - 1 = 0
      OBVIOUS
    <2> QED
      BY <1>2, <1>3, <1>4, <2>1 DEF IsLaid
  <1> QED
    BY <1>2, <1>5 DEF Encodes, w, f

LEMMA EncodesBytes ==
    ASSUME NEW b, NEW at \in Nat, NEW src \in Seq(RangeOf("u8")),
           \A i \in 1..Len(src) : b[at + i] = src[i]
    PROVE  Encodes(b, at, at + Len(src), [k \in DOMAIN src |-> <<"u8", src[k]>>])
  <1> DEFINE n == Len(src)
             off == [k \in 0..n |-> at + k]
             f == [k \in DOMAIN src |-> <<"u8", src[k]>>]
  <1>1. n \in Nat /\ DOMAIN src = 1..n /\ \A k \in 1..n : src[k] \in RangeOf("u8")
    OBVIOUS
  <1>2. "u8" \in Types /\ Width["u8"] = 1
    BY TypesAre, SMT
  <1>3. \A k \in 1..n : src[k] \in Int /\ 0 <= src[k] /\ src[k] <= 255
    BY <1>1, <1>2, RangeIs, TypesAre, SMT
  <1>4. f \in Fields /\ Len(f) = n /\ \A k \in 1..n : f[k] = <<"u8", src[k]>>
    <2>1. f = [k \in 1..n |-> <<"u8", src[k]>>]
      BY <1>1
    <2>2. \A k \in 1..n : <<"u8", src[k]>> \in Types \X Int
      BY <1>2, <1>3
    <2> HIDE DEF f, n
    <2> QED
      BY <1>1, <2>1, <2>2 DEF Fields
  <1> HIDE DEF f
  <1>5. ASSUME NEW k \in 1..n PROVE Piece(b, at + (k - 1), at + k, f[k])
    <2>1. WriteBE(src[k], 1)[1] = src[k]
      <3>1. src[k] % 256 = src[k]
        <4>1. PICK x : x = src[k]
          OBVIOUS
        <4>2. x \in Int /\ 0 <= x /\ x <= 255
          BY <1>3, <4>1
        <4>3. PICK q \in Int, r \in Int :
                    q = x \div 256 /\ r = x % 256 /\ 0 <= r /\ r < 256 /\ x = 256 * q + r
          BY <4>2, ByBytes
        <4>4. r = x
          BY <4>2, <4>3
        <4> QED
          BY <4>1, <4>3, <4>4
      <3> QED
        BY <1>3, <3>1, WrittenOne
    <2>2. f[k][1] = "u8" /\ f[k][2] = src[k]
      BY <1>4
    <2>3. at + k = (at + (k - 1)) + 1 /\ b[at + k] = src[k]
      BY <1>1
    <2>4. \A i \in 1..1 : b[(at + (k - 1)) + i] = WriteBE(src[k], 1)[i]
      BY <2>1, <2>3
    <2>5. src[k] \in RangeOf("u8")
      BY <1>1
    <2> QED
      BY <1>2, <2>2, <2>3, <2>4, <2>5 DEF Piece
  <1>6. /\ off \in [0..n -> at..(at + n)] /\ off[0] = at /\ off[n] = at + n
        /\ \A k \in 1..n : off[k] = at + k /\ off[k - 1] = at + (k - 1)
    BY <1>1
  <1> HIDE DEF off, n
  <1>7. IsLaid(off, b, at, at + n, f)
    BY <1>4, <1>5, <1>6 DEF IsLaid
  <1> QED
    BY <1>4, <1>7 DEF Encodes, f, n

(* One part after the other. *)
LEMMA EncodesBoth ==
    ASSUME NEW b, NEW from \in Nat, NEW mid \in Nat, NEW to \in Nat, NEW F, NEW G,
           Encodes(b, from, mid, F), Encodes(b, mid, to, G)
    PROVE  Encodes(b, from, to, F \o G)
  <1>1. PICK o : IsLaid(o, b, from, mid, F)
    BY DEF Encodes
  <1>2. PICK p : IsLaid(p, b, mid, to, G)
    BY DEF Encodes
  <1> DEFINE n == Len(F)
             m == Len(G)
             H == F \o G
             off == [k \in 0..(n + m) |-> IF k <= n THEN o[k] ELSE p[k - n]]
  <1>3. /\ n \in Nat /\ m \in Nat /\ H \in Fields /\ Len(H) = n + m
        /\ \A k \in 1..n : H[k] = F[k]
        /\ \A k \in (n + 1)..(n + m) : H[k] = G[k - n]
    BY DEF Encodes, Fields
  <1>4. /\ o \in [0..n -> from..mid] /\ o[0] = from /\ o[n] = mid
        /\ \A k \in 1..n : Piece(b, o[k - 1], o[k], F[k])
    BY <1>1 DEF IsLaid
  <1>5. /\ p \in [0..m -> mid..to] /\ p[0] = mid /\ p[m] = to
        /\ \A k \in 1..m : Piece(b, p[k - 1], p[k], G[k])
    BY <1>2 DEF IsLaid
  <1> HIDE DEF n, m, H
  <1>6. from <= mid /\ mid <= to
    <2>1. o[0] \in from..mid /\ p[0] \in mid..to
      BY <1>3, <1>4, <1>5
    <2> QED
      BY <2>1
  <1>7. /\ \A k \in 0..n : off[k] = o[k]
        /\ \A k \in n..(n + m) : off[k] = p[k - n]
    <2>1. \A k \in 0..n : k \in 0..(n + m) /\ k <= n
      BY <1>3
    <2>2. \A k \in n..(n + m) : k \in 0..(n + m) /\ (k <= n => k = n) /\ k - n \in 0..m
      BY <1>3
    <2>3. n - n = 0
      BY <1>3
    <2> QED
      BY <1>3, <1>4, <1>5, <2>1, <2>2, <2>3
  <1>8. off \in [0..(n + m) -> from..to] /\ off[0] = from /\ off[n + m] = to
    <2>1. ASSUME NEW k \in 0..(n + m) PROVE off[k] \in from..to
      <3>1. CASE k <= n
        <4>1. k \in 0..n /\ o[k] \in from..mid
          BY <1>3, <1>4, <3>1
        <4> QED
          BY <1>6, <1>7, <4>1
      <3>2. CASE k > n
        <4>1. k \in n..(n + m) /\ k - n \in 0..m
          BY <1>3, <3>2
        <4>2. PICK x : x = p[k - n]
          OBVIOUS
        <4>3. x \in mid..to /\ off[k] = x
          BY <1>5, <1>7, <4>1, <4>2
        <4> QED
          BY <1>6, <4>3
      <3> QED
        BY <1>3, <3>1, <3>2
    <2>2. 0 \in 0..n /\ n + m \in n..(n + m) /\ (n + m) - n = m
      BY <1>3
    <2>3. off[0] = from /\ off[n + m] = to
      BY <1>4, <1>5, <1>7, <2>2
    <2>4. off = [k \in 0..(n + m) |-> off[k]]
      OBVIOUS
    <2> HIDE DEF off
    <2> QED
      BY <2>1, <2>3, <2>4
  <1> HIDE DEF off
  <1>9. ASSUME NEW k \in 1..(n + m) PROVE Piece(b, off[k - 1], off[k], H[k])
    <2>1. CASE k <= n
      <3>1. k \in 1..n /\ k \in 0..n /\ k - 1 \in 0..n
        BY <1>3, <2>1
      <3> QED
        BY <1>3, <1>4, <1>7, <3>1
    <2>2. CASE k > n
      <3>1. /\ k \in (n + 1)..(n + m) /\ k \in n..(n + m) /\ k - 1 \in n..(n + m)
            /\ k - n \in 1..m /\ (k - 1) - n = (k - n) - 1
        BY <1>3, <2>2
      <3> QED
        BY <1>3, <1>5, <1>7, <3>1
    <2> QED
      BY <1>3, <2>1, <2>2
  <1>10. IsLaid(off, b, from, to, H)
    BY <1>3, <1>8, <1>9 DEF IsLaid
  <1> QED
    BY <1>3, <1>10 DEF Encodes, H
-----------------------------------------------------------------------------
(* A message holds what its owner wrote: its fields lie between the header *)
(* and the cursor.                                                         *)
CmdField == SizeMagic + SizeTxid

Encoded(m) ==
    Size(m) >= SizeMin =>
        /\ m.cursor <= ArgsEnd(m)
        /\ \A k \in 1..SizeCmd : m.bytes[CmdField + k] \in 0..255
        /\ Encodes(m.bytes, SizeHeader, m.cursor, m.fields)

(* The same message but for its transaction and its checksum. *)
Alike(r, m) == /\ r.fields = m.fields /\ r.cursor = m.cursor /\ Size(r) = Size(m)
               /\ \A k \in (CmdField + 1)..ArgsEnd(m) : r.bytes[k] = m.bytes[k]

LEMMA PlacesAre ==
    ASSUME NEW m, IsMessage(m), Size(m) >= SizeMin
    PROVE  /\ CmdField \in Nat /\ SizeHeader \in Nat /\ SizeCmd \in Nat
           /\ ArgsEnd(m) \in Nat /\ Size(m) \in Nat /\ m.cursor \in Nat
           /\ CmdField + SizeCmd <= SizeHeader /\ SizeHeader <= ArgsEnd(m) /\ ArgsEnd(m) <= Size(m)
  <1>1. Size(m) \in Nat /\ m.cursor \in Nat
    BY SequenceIs DEF IsMessage, Size
  <1> QED
    BY <1>1, SizesAre DEF CmdField, LenField, ArgsEnd

LEMMA AlikeEncoded ==
    ASSUME NEW m, IsMessage(m), Encoded(m), NEW r, Alike(r, m)
    PROVE  Encoded(r)
  <1> SUFFICES ASSUME Size(m) >= SizeMin
               PROVE  /\ r.cursor <= ArgsEnd(r)
                      /\ \A k \in 1..SizeCmd : r.bytes[CmdField + k] \in 0..255
                      /\ Encodes(r.bytes, SizeHeader, r.cursor, r.fields)
    BY DEF Encoded, Alike
  <1>1. /\ CmdField \in Nat /\ SizeHeader \in Nat /\ SizeCmd \in Nat /\ ArgsEnd(m) \in Nat
        /\ m.cursor \in Nat /\ CmdField + SizeCmd <= SizeHeader /\ SizeHeader <= ArgsEnd(m)
    BY PlacesAre
  <1>2. /\ r.fields = m.fields /\ r.cursor = m.cursor /\ ArgsEnd(r) = ArgsEnd(m)
        /\ \A k \in (CmdField + 1)..ArgsEnd(m) : r.bytes[k] = m.bytes[k]
    BY DEF Alike, ArgsEnd
  <1>3. /\ m.cursor <= ArgsEnd(m)
        /\ \A k \in 1..SizeCmd : m.bytes[CmdField + k] \in 0..255
        /\ Encodes(m.bytes, SizeHeader, m.cursor, m.fields)
    BY DEF Encoded
  <1>4. \A k \in 1..SizeCmd : r.bytes[CmdField + k] \in 0..255
    <2>1. \A k \in 1..SizeCmd : CmdField + k \in (CmdField + 1)..ArgsEnd(m)
      BY <1>1
    <2> QED
      BY <1>2, <1>3, <2>1
  <1>5. Encodes(r.bytes, SizeHeader, m.cursor, m.fields)
    <2>1. \A k \in (SizeHeader + 1)..m.cursor : k \in (CmdField + 1)..ArgsEnd(m)
      BY <1>1, <1>3
    <2>2. \A k \in (SizeHeader + 1)..m.cursor : r.bytes[k] = m.bytes[k]
      BY <1>2, <2>1
    <2> QED
      BY <1>1, <1>3, <2>2, EncodesSame
  <1> QED
    BY <1>2, <1>3, <1>4, <1>5

LEMMA SetChecksumAlike ==
    ASSUME NEW m, IsMessage(m), Size(m) >= SizeMin
    PROVE  IsMessage(SetChecksum(m)) /\ Alike(SetChecksum(m), m)
  <1> DEFINE r == SetChecksum(m)
             c == Crc(Covered(m))
             e == ArgsEnd(m)
             b == Overwrite(m.bytes, e, c)
  <1>1. r = [bytes |-> b, cursor |-> m.cursor, fields |-> m.fields]
    BY DEF SetChecksum, IsMessage
  <1>2. e \in Nat /\ Size(m) \in Nat /\ e <= Size(m) /\ DOMAIN m.bytes = 1..Size(m)
        /\ CmdField \in Nat
    BY PlacesAre, SequenceIs DEF IsMessage, Size
  <1> HIDE DEF c, e, r
  <1>3. b = [k \in 1..Size(m) |-> IF e < k /\ k <= e + Len(c) THEN c[k - e] ELSE m.bytes[k]]
    BY <1>2 DEF Overwrite
  <1>4. IsSequence(b) /\ Len(b) = Size(m)
    <2>1. b = [k \in 1..Size(m) |-> b[k]]
      BY <1>3
    <2> HIDE DEF b
    <2> QED
      BY <1>2, <2>1, FunctionIsSequence
  <1>5. \A k \in (CmdField + 1)..e : b[k] = m.bytes[k]
    <2>1. \A k \in (CmdField + 1)..e : k \in 1..Size(m) /\ ~(e < k)
      BY <1>2
    <2> QED
      BY <1>3, <2>1
  <1> HIDE DEF b
  <1>6. r.bytes = b /\ r.cursor = m.cursor /\ r.fields = m.fields
    BY <1>1
  <1>7. IsMessage(r)
    BY <1>1, <1>4, <1>6 DEF IsMessage
  <1> QED
    BY <1>4, <1>5, <1>6, <1>7 DEF Alike, Size, e, r

LEMMA WhenFullAlike ==
    ASSUME NEW m, IsMessage(m), Size(m) >= SizeMin
    PROVE  IsMessage(WhenFull(m)) /\ Alike(WhenFull(m), m)
  <1>1. Alike(m, m)
    BY DEF Alike
  <1> QED
    BY <1>1, SetChecksumAlike DEF WhenFull

(* Fields behind those that are there. *)
LEMMA FurtherEncoded ==
    ASSUME NEW m, IsMessage(m), Encoded(m), Size(m) >= SizeMin, m.cursor >= SizeHeader,
           NEW n \in Nat, m.cursor + n <= ArgsEnd(m),
           NEW r, Size(r) = Size(m), r.cursor = m.cursor + n,
           \A k \in (CmdField + 1)..m.cursor : r.bytes[k] = m.bytes[k],
           NEW F, Encodes(r.bytes, m.cursor, m.cursor + n, F), r.fields = m.fields \o F
    PROVE  Encoded(r)
  <1>1. /\ CmdField \in Nat /\ SizeHeader \in Nat /\ SizeCmd \in Nat /\ ArgsEnd(m) \in Nat
        /\ m.cursor \in Nat /\ CmdField + SizeCmd <= SizeHeader
    BY PlacesAre
  <1>2. /\ \A k \in 1..SizeCmd : m.bytes[CmdField + k] \in 0..255
        /\ Encodes(m.bytes, SizeHeader, m.cursor, m.fields)
    BY DEF Encoded
  <1>3. \A k \in 1..SizeCmd : r.bytes[CmdField + k] \in 0..255
    <2>1. \A k \in 1..SizeCmd : CmdField + k \in (CmdField + 1)..m.cursor
      BY <1>1
    <2> QED
      BY <1>2, <2>1
  <1>4. Encodes(r.bytes, SizeHeader, m.cursor, m.fields)
    <2>1. \A k \in (SizeHeader + 1)..m.cursor : k \in (CmdField + 1)..m.cursor
      BY <1>1
    <2>2. \A k \in (SizeHeader + 1)..m.cursor : r.bytes[k] = m.bytes[k]
      BY <2>1
    <2> QED
      BY <1>1, <1>2, <2>2, EncodesSame
  <1>5. Encodes(r.bytes, SizeHeader, r.cursor, r.fields)
    <2> DEFINE b == r.bytes
               from == SizeHeader
               mid == m.cursor
               to == r.cursor
               G == m.fields
    <2>1. from \in Nat /\ mid \in Nat /\ to \in Nat
      BY <1>1
    <2>2. Encodes(b, from, mid, G) /\ Encodes(b, mid, to, F)
      BY <1>4
    <2> HIDE DEF b, from, mid, to, G
    <2>3. Encodes(b, from, to, G \o F)
      BY <2>1, <2>2, EncodesBoth
    <2> QED
      BY <2>3 DEF b, from, to, G
  <1>6. r.cursor <= ArgsEnd(r)
    BY DEF ArgsEnd
  <1> QED
    BY <1>3, <1>5, <1>6 DEF Encoded

LEMMA PutFields ==
    ASSUME NEW m, Sound(m), NEW src, IsSequence(src), CanWrite(m, Len(src))
    PROVE  Put(m, src).fields = m.fields
  <1>1. IsMessage(m) /\ Size(m) >= SizeMin
    BY DEF Sound, CanWrite
  <1>2. /\ IsMessage(Placed(m, src)) /\ Placed(m, src).fields = m.fields
        /\ Size(Placed(m, src)) = Size(m)
    BY <1>1, PlacedIs
  <1>3. Put(m, src) = WhenFull(Placed(m, src))
    BY DEF Put, Placed
  <1> QED
    BY <1>1, <1>2, <1>3, WhenFullAlike DEF Alike

(* What data it places, a message that takes it holds. *)
LEMMA PutEncoded ==
    ASSUME NEW m, Sound(m), Encoded(m), NEW src, IsSequence(src), CanWrite(m, Len(src)),
           NEW F, \A b : (\A i \in 1..Len(src) : b[m.cursor + i] = src[i])
                            => Encodes(b, m.cursor, m.cursor + Len(src), F),
           NEW r, r = [Put(m, src) EXCEPT !.fields = m.fields \o F]
    PROVE  Encoded(r)
  <1> DEFINE p == Placed(m, src)
             q == Put(m, src)
             n == Len(src)
  <1>1. /\ IsMessage(m) /\ Size(m) >= SizeMin /\ m.cursor >= SizeHeader
        /\ m.cursor + n <= ArgsEnd(m) /\ n \in Nat
    BY SequenceIs DEF Sound, CanWrite
  <1>2. /\ CmdField \in Nat /\ ArgsEnd(m) \in Nat /\ m.cursor \in Nat /\ Size(m) \in Nat
        /\ ArgsEnd(m) <= Size(m) /\ m.cursor >= CmdField
    <2>1. SizeHeader \in Nat /\ CmdField + SizeCmd <= SizeHeader /\ SizeCmd \in Nat
      BY <1>1, PlacesAre
    <2>2. /\ CmdField \in Nat /\ ArgsEnd(m) \in Nat /\ m.cursor \in Nat /\ Size(m) \in Nat
          /\ ArgsEnd(m) <= Size(m)
      BY <1>1, PlacesAre
    <2> QED
      BY <1>1, <2>1, <2>2
  <1>3. /\ IsMessage(p) /\ Size(p) = Size(m) /\ p.cursor = m.cursor + n /\ p.fields = m.fields
        /\ \A k \in 1..Size(m) :
              p.bytes[k] = IF m.cursor < k /\ k <= m.cursor + n
                           THEN src[k - m.cursor] ELSE m.bytes[k]
    BY <1>1, PlacedIs
  <1>4. q = WhenFull(p)
    BY DEF Put, Placed
  <1> HIDE DEF p, q, n
  <1>5. Alike(q, p)
    BY <1>1, <1>3, <1>4, WhenFullAlike
  <1>6. /\ Size(q) = Size(m) /\ q.cursor = m.cursor + n /\ ArgsEnd(p) = ArgsEnd(m)
        /\ \A k \in (CmdField + 1)..ArgsEnd(m) : q.bytes[k] = p.bytes[k]
    BY <1>3, <1>5 DEF Alike, ArgsEnd
  <1>7. \A k \in (CmdField + 1)..m.cursor : q.bytes[k] = m.bytes[k]
    <2>1. \A k \in (CmdField + 1)..m.cursor :
             k \in (CmdField + 1)..ArgsEnd(m) /\ k \in 1..Size(m) /\ ~(m.cursor < k)
      BY <1>1, <1>2
    <2> QED
      BY <1>3, <1>6, <2>1
  <1>8. \A i \in 1..n : q.bytes[m.cursor + i] = src[i]
    <2> TAKE i \in 1..n
    <2>1. /\ m.cursor + i \in (CmdField + 1)..ArgsEnd(m) /\ m.cursor + i \in 1..Size(m)
          /\ m.cursor < m.cursor + i /\ m.cursor + i <= m.cursor + n
          /\ (m.cursor + i) - m.cursor = i
      BY <1>1, <1>2
    <2> QED
      BY <1>3, <1>6, <2>1
  <1>9. Encodes(q.bytes, m.cursor, m.cursor + n, F)
    BY <1>8 DEF n
  <1>10. Size(r) = Size(q) /\ r.cursor = q.cursor /\ r.bytes = q.bytes /\ r.fields = m.fields \o F
    <2>1. IsMessage(q)
      BY <1>1, <1>3, <1>4, WhenFullAlike
    <2>2. r = [q EXCEPT !.fields = m.fields \o F]
      BY DEF q
    <2> DEFINE f == m.fields \o F
    <2> HIDE DEF f
    <2>3. r = [q EXCEPT !.fields = f]
      BY <2>2 DEF f
    <2>4. r = [bytes |-> q.bytes, cursor |-> q.cursor, fields |-> f]
      BY <2>1, <2>3 DEF IsMessage
    <2>5. r.bytes = q.bytes /\ r.cursor = q.cursor /\ r.fields = f
      BY <2>4
    <2> QED
      BY <2>5 DEF Size, f
  <1> QED
    BY <1>1, <1>6, <1>7, <1>9, <1>10, FurtherEncoded

LEMMA WriteArgEncoded ==
    ASSUME NEW m, Sound(m), Encoded(m), NEW type \in Types, NEW v \in RangeOf(type)
    PROVE  Encoded(WriteArg(m, type, v))
  <1> DEFINE w == Width[type]
             src == WriteBE(v, w)
             F == <<<<type, v>>>>
             r == [Put(m, src) EXCEPT !.fields = m.fields \o F]
  <1>1. w \in Nat
    BY WidthIs
  <1>2. CASE CanWrite(m, w)
    <2>1. IsSequence(src) /\ Len(src) = w
      BY <1>1, WriteBEIs
    <2>2. m.cursor \in Nat
      BY DEF Sound, IsMessage
    <2>3. \A b : (\A i \in 1..Len(src) : b[m.cursor + i] = src[i])
                    => Encodes(b, m.cursor, m.cursor + Len(src), F)
      BY <2>1, <2>2, EncodesOne
    <2>4. WriteArg(m, type, v) = r
      <3>1. WriteArg(m, type, v)
               = [Put(m, src) EXCEPT !.fields = Append(Put(m, src).fields, <<type, v>>)]
        BY <1>2 DEF WriteArg
      <3>2. Put(m, src).fields = m.fields
        BY <1>2, <2>1, PutFields
      <3>3. Append(m.fields, <<type, v>>) = m.fields \o F
        <4>1. m.fields \in Fields /\ <<type, v>> \in Types \X Int
          <5>1. Size(m) >= SizeMin
            BY <1>2 DEF CanWrite
          <5> QED
            BY <5>1, RangeIs DEF Encoded, Encodes
        <4>2. PICK S, f, e : /\ S = Types \X Int /\ f = m.fields /\ e = <<type, v>>
                             /\ f \in Seq(S) /\ e \in S
          BY <4>1 DEF Fields
        <4>3. Append(f, e) = f \o <<e>>
          <5>1. PICK a, c : a = Append(f, e) /\ c = f \o <<e>>
            OBVIOUS
          <5>2. /\ a \in Seq(S) /\ Len(a) = Len(f) + 1 /\ a[Len(f) + 1] = e
                /\ \A i \in 1..Len(f) : a[i] = f[i]
            BY <4>2, <5>1
          <5>3. /\ c \in Seq(S) /\ Len(c) = Len(f) + 1 /\ c[Len(f) + 1] = e
                /\ \A i \in 1..Len(f) : c[i] = f[i]
            BY <4>2, <5>1
          <5>4. Len(f) \in Nat /\ \A i \in 1..(Len(f) + 1) : i \in 1..Len(f) \/ i = Len(f) + 1
            BY <4>2
          <5>5. a = c
            BY <5>2, <5>3, <5>4, SameSeq
          <5> QED
            BY <5>1, <5>5
        <4> QED
          BY <4>2, <4>3
      <3> HIDE DEF F, src
      <3> QED
        BY <3>1, <3>2, <3>3
    <2> HIDE DEF r, F, src
    <2>5. Encoded(r)
      BY <1>2, <2>1, <2>3, PutEncoded DEF r
    <2> QED
      BY <2>4, <2>5
  <1>3. CASE ~CanWrite(m, w)
    BY <1>3 DEF WriteArg
  <1> QED
    BY <1>2, <1>3

LEMMA WriteBytesEncoded ==
    ASSUME NEW m, Sound(m), Encoded(m), NEW src \in Chunks
    PROVE  Encoded(WriteBytes(m, src))
  <1> DEFINE F == [k \in DOMAIN src |-> <<"u8", src[k]>>]
             r == [Put(m, src) EXCEPT !.fields = m.fields \o F]
  <1>1. src \in Seq(RangeOf("u8")) /\ IsSequence(src)
    BY MessagesAssumption DEF IsSequence
  <1>2. CASE CanWrite(m, Len(src))
    <2>1. m.cursor \in Nat
      BY DEF Sound, IsMessage
    <2>2. \A b : (\A i \in 1..Len(src) : b[m.cursor + i] = src[i])
                    => Encodes(b, m.cursor, m.cursor + Len(src), F)
      BY <1>1, <2>1, EncodesBytes
    <2>3. WriteBytes(m, src) = r
      <3>1. WriteBytes(m, src) = [Put(m, src) EXCEPT !.fields = Put(m, src).fields \o F]
        BY <1>2 DEF WriteBytes
      <3>2. Put(m, src).fields = m.fields
        BY <1>1, <1>2, PutFields
      <3> HIDE DEF F
      <3> QED
        BY <3>1, <3>2
    <2> HIDE DEF r, F
    <2>4. Encoded(r)
      BY <1>1, <1>2, <2>2, PutEncoded DEF r
    <2> QED
      BY <2>3, <2>4
  <1>3. CASE ~CanWrite(m, Len(src))
    BY <1>3 DEF WriteBytes
  <1> QED
    BY <1>2, <1>3

(* So does one that is stamped, filled up, or new. *)
LEMMA SetTxidEncoded ==
    ASSUME NEW m, Sound(m), Encoded(m), NEW txid
    PROVE  Encoded(SetTxid(m, txid))
  <1> DEFINE c == WriteBE(txid, SizeTxid)
             b == Overwrite(m.bytes, SizeMagic, c)
             r == [m EXCEPT !.bytes = b]
  <1>1. /\ IsMessage(m) /\ IsSequence(m.bytes) /\ Len(m.bytes) = Size(m) /\ Size(m) \in Nat
        /\ SizeMin \in Nat
    BY SequenceIs, SizesAre DEF Sound, IsMessage, Size
  <1>2. CASE Size(m) < SizeMin
    BY <1>2 DEF SetTxid
  <1>3. CASE Size(m) >= SizeMin
    <2>1. SetTxid(m, txid) = WhenFull(r)
      <3>1. ~(Size(m) < SizeMin)
        BY <1>1, <1>3
      <3> QED
        BY <3>1 DEF SetTxid
    <2>2. IsSequence(c) /\ Len(c) = SizeTxid
      BY SizesAre, WriteBEIs
    <2>3. /\ IsSequence(b) /\ Len(b) = Size(m)
          /\ \A k \in 1..Size(m) :
                b[k] = IF SizeMagic < k /\ k <= SizeMagic + SizeTxid THEN c[k - SizeMagic]
                       ELSE m.bytes[k]
      BY <1>1, <2>2, OverwriteIs, SizesAre
    <2> HIDE DEF b, c
    <2>4. r = [bytes |-> b, cursor |-> m.cursor, fields |-> m.fields]
      BY DEF Sound, IsMessage
    <2> HIDE DEF r
    <2>5. r.bytes = b /\ r.cursor = m.cursor /\ r.fields = m.fields /\ IsMessage(r)
          /\ Size(r) = Size(m)
      BY <1>1, <2>3, <2>4 DEF IsMessage, Size
    <2>6. Alike(r, m)
      <3>1. \A k \in (CmdField + 1)..ArgsEnd(m) : k \in 1..Size(m) /\ ~(k <= SizeMagic + SizeTxid)
        <4>1. CmdField \in Nat /\ ArgsEnd(m) \in Nat /\ ArgsEnd(m) <= Size(m)
          BY <1>1, <1>3, PlacesAre
        <4> QED
          BY <1>1, <4>1 DEF CmdField
      <3> QED
        BY <2>3, <2>5, <3>1 DEF Alike
    <2>7. Encoded(r) /\ Size(r) >= SizeMin
      BY <1>1, <1>3, <2>5, <2>6, AlikeEncoded
    <2> QED
      BY <2>1, <2>5, <2>7, WhenFullAlike, AlikeEncoded
  <1> QED
    BY <1>1, <1>2, <1>3

LEMMA FinalizeEncoded ==
    ASSUME NEW m, Sound(m), Encoded(m)
    PROVE  Encoded(Finalize(m))
  <1>1. Size(m) \in Nat /\ SizeMin \in Nat
    BY SequenceIs, SizesAre DEF Sound, IsMessage, Size
  <1>2. CASE Size(m) < SizeMin
    BY <1>2 DEF Finalize
  <1>3. CASE Size(m) >= SizeMin
    <2> DEFINE n == Missing(m)
               z == Zeros(n)
    <2>1. PICK r : /\ Finalize(m) = SetChecksum(r)
                   /\ IsMessage(r) /\ Size(r) = Size(m)
                   /\ r.cursor = m.cursor + n /\ r.fields = m.fields \o Padding(m)
                   /\ \A k \in 1..Size(m) :
                         r.bytes[k] = IF m.cursor < k /\ k <= m.cursor + n
                                      THEN z[k - m.cursor] ELSE m.bytes[k]
      BY <1>3, Filled
    <2>2. /\ CmdField \in Nat /\ SizeHeader \in Nat /\ ArgsEnd(m) \in Nat /\ m.cursor \in Nat
          /\ CmdField <= SizeHeader /\ ArgsEnd(m) <= Size(m) /\ IsMessage(m)
          /\ m.cursor >= SizeHeader /\ m.cursor <= ArgsEnd(m)
      <3>1. IsMessage(m) /\ m.cursor >= SizeHeader /\ m.cursor <= ArgsEnd(m)
        BY <1>3 DEF Sound, Encoded
      <3>2. SizeCmd \in Nat /\ CmdField + SizeCmd <= SizeHeader
            /\ CmdField \in Nat /\ SizeHeader \in Nat /\ ArgsEnd(m) \in Nat /\ m.cursor \in Nat
            /\ ArgsEnd(m) <= Size(m)
        BY <1>3, <3>1, PlacesAre
      <3> QED
        BY <3>1, <3>2
    <2>3. n \in Nat /\ m.cursor + n = ArgsEnd(m)
      BY <2>2 DEF Missing, Full
    <2>4. z \in Seq(RangeOf("u8")) /\ Len(z) = n /\ DOMAIN z = 1..n
          /\ Padding(m) = [k \in DOMAIN z |-> <<"u8", z[k]>>]
      <3>1. 0 \in RangeOf("u8")
        BY TypesAre, SMT DEF RangeOf
      <3>2. z = [k \in 1..n |-> 0]
        BY DEF Zeros
      <3> HIDE DEF z, n
      <3>3. z \in Seq(RangeOf("u8")) /\ Len(z) = n /\ DOMAIN z = 1..n /\ \A k \in 1..n : z[k] = 0
        BY <2>3, <3>1, <3>2
      <3> QED
        BY <3>3 DEF Padding, n
    <2> HIDE DEF n, z
    <2>5. \A i \in 1..n : r.bytes[m.cursor + i] = z[i]
      <3> TAKE i \in 1..n
      <3>1. /\ m.cursor + i \in 1..Size(m) /\ m.cursor < m.cursor + i
            /\ m.cursor + i <= m.cursor + n /\ (m.cursor + i) - m.cursor = i
        BY <1>1, <2>2, <2>3
      <3> QED
        BY <2>1, <3>1
    <2>6. Encodes(r.bytes, m.cursor, m.cursor + n, Padding(m))
      BY <2>2, <2>4, <2>5, EncodesBytes
    <2>7. \A k \in (CmdField + 1)..m.cursor : r.bytes[k] = m.bytes[k]
      <3>1. \A k \in (CmdField + 1)..m.cursor : k \in 1..Size(m) /\ ~(m.cursor < k)
        BY <1>1, <2>2
      <3> QED
        BY <2>1, <3>1
    <2>8. Encoded(r)
      <3>1. m.cursor + n <= ArgsEnd(m)
        BY <2>2, <2>3
      <3> QED
        BY <1>3, <2>1, <2>2, <2>3, <2>6, <2>7, <3>1, FurtherEncoded
    <2>9. Alike(SetChecksum(r), r)
      BY <1>3, <2>1, SetChecksumAlike
    <2> QED
      BY <2>1, <2>8, <2>9, AlikeEncoded
  <1> QED
    BY <1>1, <1>2, <1>3

LEMMA ConstructEncoded ==
    ASSUME NEW cmd \in Int, NEW n \in 0..MostArgs
    PROVE  Encoded(Construct(cmd, n))
  <1>1. PICK m : /\ Construct(cmd, n) = WhenFull(m)
                 /\ IsMessage(m) /\ Size(m) = SizeMin + n
                 /\ m.cursor = SizeHeader /\ m.fields = <<>>
                 /\ \A k \in 1..SizeCmd :
                       m.bytes[SizeMagic + SizeTxid + k] = WriteBE(cmd, SizeCmd)[k]
    BY Headed
  <1>2. Size(m) >= SizeMin
    BY <1>1, SizesAre, RoomForNack
  <1>3. /\ SizeHeader \in Nat /\ SizeHeader <= ArgsEnd(m)
    BY <1>1, <1>2, PlacesAre
  <1>4. \A k \in 1..SizeCmd : m.bytes[CmdField + k] \in 0..255
    <2>1. SizeCmd = 2
      BY MessagesAssumption, TypesAre, SMT
    <2>2. WriteBE(cmd, 2)[1] \in 0..255 /\ WriteBE(cmd, 2)[2] \in 0..255
      <3>1. (cmd \div 256) \in Int
        BY SMT
      <3>2. (cmd \div 256) % 256 \in 0..255 /\ cmd % 256 \in 0..255
        BY <3>1, DivMod
      <3> QED
        BY <3>2, WrittenTwo
    <2>3. \A k \in 1..2 : k = 1 \/ k = 2
      OBVIOUS
    <2>4. \A k \in 1..2 : m.bytes[CmdField + k] = WriteBE(cmd, 2)[k]
      BY <1>1, <2>1 DEF CmdField
    <2> QED
      BY <2>1, <2>2, <2>3, <2>4
  <1>5. Encodes(m.bytes, SizeHeader, m.cursor, m.fields)
    BY <1>1, <1>3, EncodesNone
  <1>6. Encoded(m)
    BY <1>1, <1>3, <1>4, <1>5 DEF Encoded
  <1> QED
    BY <1>1, <1>2, <1>6, WhenFullAlike, AlikeEncoded
-----------------------------------------------------------------------------
(* What a reader got of a payload are its first fields, and the cursor is  *)
(* behind them.                                                            *)
At(p, c) == [cmd |-> p.cmd, txid |-> p.txid, args |-> p.args, cursor |-> c, fields |-> p.fields]

ReadUpTo(p, off, values) ==
    /\ p = At(p, off[Len(values)]) /\ p.cmd \in RangeOf("u16") /\ IsSequence(p.args)
    /\ p.fields \in Fields /\ Len(values) \in 0..Len(p.fields)
    /\ values = SubSeq(p.fields, 1, Len(values))
    /\ IsLaid(off, p.args, 0, Len(p.args), p.fields)

(* The state of a reader of several arguments. *)
Reader(p, c, values) == [payload |-> At(p, c), values |-> values, ok |-> TRUE]
Fresh(p) == [payload |-> p, values |-> <<>>, ok |-> TRUE]
Stuck(p, c, values) == [payload |-> At(p, c), values |-> values, ok |-> FALSE]

LEMMA AtIs == \A p, c : LET q == At(p, c)
                        IN  /\ q.cmd = p.cmd /\ q.txid = p.txid /\ q.args = p.args
                            /\ q.cursor = c /\ q.fields = p.fields
  BY DEF At

LEMMA MovedCursor ==
    ASSUME NEW p, NEW c, NEW d
    PROVE  [At(p, c) EXCEPT !.cursor = d] = At(p, d)
  <1>1. PICK q : q = At(p, c)
    OBVIOUS
  <1>2. /\ q = [cmd |-> q.cmd, txid |-> q.txid, args |-> q.args, cursor |-> q.cursor,
                fields |-> q.fields]
        /\ q.cmd = p.cmd /\ q.txid = p.txid /\ q.args = p.args /\ q.fields = p.fields
    BY <1>1 DEF At
  <1>3. [q EXCEPT !.cursor = d] = [cmd |-> q.cmd, txid |-> q.txid, args |-> q.args, cursor |-> d,
                                   fields |-> q.fields]
    BY <1>2
  <1> QED
    BY <1>1, <1>2, <1>3 DEF At

LEMMA NextArgReads ==
    ASSUME NEW p, NEW c, NEW values, NEW type, CanReadArg(At(p, c), type)
    PROVE  NextArg(Reader(p, c, values), type)
              = Reader(p, c + Width[type], Append(values, <<type, ArgAt(At(p, c), type)>>))
  <1> DEFINE w == Width[type]
             v == <<type, ArgAt(At(p, c), type)>>
  <1>1. PICK r : r = Reader(p, c, values)
    OBVIOUS
  <1>2. r.payload = At(p, c) /\ r.values = values /\ r.ok
    BY <1>1 DEF Reader
  <1>3. NextArg(r, type) = [payload |-> [At(p, c) EXCEPT !.cursor = @ + w],
                            values |-> Append(values, v), ok |-> TRUE]
    BY <1>2, Zenon DEF NextArg
  <1>4. [At(p, c) EXCEPT !.cursor = @ + w] = At(p, c + w)
    <2>1. [At(p, c) EXCEPT !.cursor = @ + w] = [At(p, c) EXCEPT !.cursor = At(p, c).cursor + w]
      BY Zenon
    <2>2. At(p, c).cursor = c
      BY DEF At
    <2> QED
      BY <2>1, <2>2, MovedCursor, Zenon
  <1> HIDE DEF w, v
  <1>5. NextArg(r, type) = Reader(p, c + w, Append(values, v))
    BY <1>3, <1>4, Zenon DEF Reader
  <1> QED
    BY <1>1, <1>5, Zenon DEF w, v

LEMMA NextArgFails ==
    ASSUME NEW p, NEW c, NEW values, NEW type, ~CanReadArg(At(p, c), type)
    PROVE  NextArg(Reader(p, c, values), type) = Stuck(p, c, values)
  <1>1. PICK r : r = Reader(p, c, values)
    OBVIOUS
  <1>2. /\ r = [payload |-> r.payload, values |-> r.values, ok |-> r.ok]
        /\ r.payload = At(p, c) /\ r.values = values
    BY <1>1 DEF Reader
  <1>3. NextArg(r, type) = [r EXCEPT !.ok = FALSE]
    BY <1>2, Zenon DEF NextArg
  <1>4. \A b : [r EXCEPT !.ok = b] = [payload |-> r.payload, values |-> r.values, ok |-> b]
    BY <1>2
  <1> QED
    BY <1>1, <1>2, <1>3, <1>4, Zenon DEF Reader, Stuck

(* ReadEach() and TotalWidth() are what a function that is built the same  *)
(* way ends in.                                                            *)
EachIs(f, n, p, types) ==
    f = [k \in 0..n |-> IF k = 0 THEN Fresh(p) ELSE NextArg(f[k - 1], types[k])]

LEMMA ReadEachIs ==
    ASSUME NEW p, NEW types, NEW n \in Nat, Len(types) = n, NEW f, EachIs(f, n, p, types)
    PROVE  ReadEach(p, types) = f[n]
  <1> DEFINE Is(g) == EachIs(g, n, p, types)
             v == CHOOSE g : Is(g)
  <1>1. ReadEach(p, types) = v[n]
    BY Zenon DEF ReadEach, EachIs, Fresh
  <1>2. Is(v)
    <2>1. Is(f)
      OBVIOUS
    <2> HIDE DEF Is
    <2> QED
      BY <2>1, Zenon
  <1> HIDE DEF v
  <1> DEFINE S == {k \in 0..n : v[k] = f[k]}
  <1>3. 0 \in S
    BY <1>2 DEF EachIs
  <1>4. ASSUME NEW k \in 0..(n - 1), k \in S PROVE k + 1 \in S
    <2>1. k + 1 \in 0..n /\ k + 1 # 0 /\ (k + 1) - 1 = k
      OBVIOUS
    <2>2. v[k + 1] = NextArg(v[k], types[k + 1]) /\ f[k + 1] = NextArg(f[k], types[k + 1])
      BY <1>2, <2>1 DEF EachIs
    <2> QED
      BY <1>4, <2>1, <2>2
  <1>5. 0..n \subseteq S
    <2> HIDE DEF S
    <2> QED
      BY <1>3, <1>4, BoundedInduction
  <1> QED
    BY <1>1, <1>5

SumIs(f, n, types) ==
    f = [k \in 0..n |-> IF k = 0 THEN 0 ELSE f[k - 1] + Width[types[k]]]

LEMMA TotalWidthIs ==
    ASSUME NEW types, NEW n \in Nat, Len(types) = n, NEW f, SumIs(f, n, types)
    PROVE  TotalWidth(types) = f[n]
  <1> DEFINE Is(g) == SumIs(g, n, types)
             v == CHOOSE g : Is(g)
  <1>1. TotalWidth(types) = v[n]
    BY Zenon DEF TotalWidth, SumIs
  <1>2. Is(v)
    <2>1. Is(f)
      OBVIOUS
    <2> HIDE DEF Is
    <2> QED
      BY <2>1, Zenon
  <1> HIDE DEF v
  <1> DEFINE S == {k \in 0..n : v[k] = f[k]}
  <1>3. 0 \in S
    BY <1>2 DEF SumIs
  <1>4. ASSUME NEW k \in 0..(n - 1), k \in S PROVE k + 1 \in S
    <2>1. k + 1 \in 0..n /\ k + 1 # 0 /\ (k + 1) - 1 = k
      OBVIOUS
    <2>2. v[k + 1] = v[k] + Width[types[k + 1]] /\ f[k + 1] = f[k] + Width[types[k + 1]]
      BY <1>2, <2>1 DEF SumIs
    <2> QED
      BY <1>4, <2>1, <2>2
  <1>5. 0..n \subseteq S
    <2> HIDE DEF S
    <2> QED
      BY <1>3, <1>4, BoundedInduction
  <1> QED
    BY <1>1, <1>5

LEMMA OneMore ==
    ASSUME NEW S, NEW s \in Seq(S), NEW a \in Nat, NEW h \in Nat, a <= h, h < Len(s)
    PROVE  SubSeq(s, a + 1, h + 1) = Append(SubSeq(s, a + 1, h), s[h + 1])
  <1> DEFINE n == h - a
             t == SubSeq(s, a + 1, h)
             u == SubSeq(s, a + 1, h + 1)
             x == s[h + 1]
  <1>1. t \in Seq(S) /\ Len(t) = n /\ n \in Nat /\ \A i \in 1..n : t[i] = s[a + i]
    <2>1. h - (a + 1) + 1 = n /\ n \in Nat /\ \A i \in 1..n : (a + 1) + i - 1 = a + i
      OBVIOUS
    <2> QED
      BY <2>1
  <1>2. u \in Seq(S) /\ Len(u) = n + 1 /\ \A i \in 1..(n + 1) : u[i] = s[a + i]
    <2>1. (h + 1) - (a + 1) + 1 = n + 1 /\ \A i \in 1..(n + 1) : (a + 1) + i - 1 = a + i
      OBVIOUS
    <2> QED
      BY <2>1
  <1>3. x \in S /\ x = s[h + 1] /\ a + (n + 1) = h + 1
    OBVIOUS
  <1> HIDE DEF n, t, u, x
  <1> DEFINE v == Append(t, x)
  <1>4. v \in Seq(S) /\ Len(v) = n + 1 /\ v[n + 1] = x /\ \A i \in 1..n : v[i] = t[i]
    BY <1>1, <1>3
  <1> HIDE DEF v
  <1>5. \A i \in 1..(n + 1) : u[i] = v[i]
    <2>1. \A i \in 1..(n + 1) : i \in 1..n \/ i = n + 1
      BY <1>1
    <2> QED
      BY <1>1, <1>2, <1>3, <1>4, <2>1
  <1>6. u = v
    BY <1>2, <1>4, <1>5, SameSeq
  <1> QED
    BY <1>6 DEF t, u, v, x

(* A field that is there is read. *)
LEMMA FieldReads ==
    ASSUME NEW p, NEW off, NEW values, ReadUpTo(p, off, values), NEW k \in 1..Len(p.fields)
    PROVE  LET type == p.fields[k][1]
               c == off[k - 1]
           IN  /\ CanReadArg(At(p, c), type) /\ off[k] = c + Width[type]
               /\ <<type, ArgAt(At(p, c), type)>> = p.fields[k]
  <1> DEFINE field == p.fields[k]
             type == field[1]
             v == field[2]
             w == Width[type]
             c == off[k - 1]
             d == off[k]
             n == Len(p.args)
             src == WriteBE(v, w)
  <1>1. field \in Types \X Int /\ Len(p.fields) \in Nat
    BY DEF ReadUpTo, Fields
  <1>2. w \in 1..4 /\ field = <<type, v>> /\ type \in Types /\ v \in Int
    BY <1>1, WidthIs
  <1>3. n \in Nat /\ c \in 0..n /\ d \in 0..n
    <2>1. off \in [0..Len(p.fields) -> 0..n] /\ n \in Nat
      BY SequenceIs DEF ReadUpTo, IsLaid
    <2>2. k \in 0..Len(p.fields) /\ k - 1 \in 0..Len(p.fields)
      BY <1>1
    <2> QED
      BY <2>1, <2>2
  <1>4. /\ v \in RangeOf(type) /\ d = c + w
        /\ \A i \in 1..w : p.args[c + i] = src[i]
    BY DEF ReadUpTo, IsLaid, Piece
  <1>5. IsSequence(src) /\ Len(src) = w
    BY <1>2, WriteBEIs
  <1> HIDE DEF field, v, w, c, d, n, src
  <1>6. CanReadArg(At(p, c), type)
    <2>1. ~(c >= n) /\ n - c >= w
      BY <1>2, <1>3, <1>4
    <2>2. Available(At(p, c)) = n - c
      BY <2>1 DEF Available, At, n
    <2> QED
      BY <2>1, <2>2 DEF CanReadArg, w
  <1>7. ArgAt(At(p, c), type) = v
    <2>1. SubSeq(p.args, c + 1, c + w) = src
      <3>1. PICK a : a = p.args
        OBVIOUS
      <3>2. c \in Nat
        BY <1>3
      <3>3. \A i \in 1..Len(src) : a[c + i] = src[i]
        BY <1>4, <1>5, <3>1
      <3>4. SubSeq(a, c + 1, c + Len(src)) = src
        BY <1>5, <3>2, <3>3, SubSeqIs
      <3> QED
        BY <1>5, <3>1, <3>4
    <2>2. ArgAt(At(p, c), type) = ReadBE(src, type \in {"i16", "i32"})
      BY <2>1, Zenon, AtIs DEF ArgAt, w
    <2>3. ReadBE(src, type \in {"i16", "i32"}) = v
      BY <1>2, <1>4, ReadsBack, Zenon DEF src, w
    <2> QED
      BY <2>2, <2>3, Zenon
  <1> QED
    BY <1>2, <1>4, <1>6, <1>7 DEF field, c, d, w

(* The reader behind the next k fields after g others. *)
Behind(p, off, g, k) == Reader(p, off[g + k], SubSeq(p.fields, g + 1, g + k))

Ahead(p, g, n, types) ==
    n \in 0..(Len(p.fields) - g) /\ \A k \in 1..n : types[k] = p.fields[g + k][1]

LEMMA ReadsLeft ==
    ASSUME NEW p, NEW off, NEW values, ReadUpTo(p, off, values),
           NEW g, g = Len(values), NEW n, NEW types, Ahead(p, g, n, types)
    PROVE  /\ Behind(p, off, g, 0) = Fresh(p)
           /\ \A k \in 1..n : Behind(p, off, g, k)
                                   = NextArg(Behind(p, off, g, k - 1), types[k])
  <1> DEFINE R(k) == Behind(p, off, g, k)
             F == p.fields
             l == Len(F)
  <1>1. /\ F \in Fields /\ l \in Nat /\ g \in 0..l /\ p = At(p, off[g])
        /\ n \in 0..(l - g) /\ \A k \in 1..n : types[k] = F[g + k][1]
    BY DEF ReadUpTo, Fields, Ahead
  <1>2. R(0) = Fresh(p)
    <2>1. g + 0 = g
      BY <1>1
    <2>2. SubSeq(F, g + 1, g) = <<>>
      BY <1>1
    <2>3. At(p, off[g + 0]) = p
      BY <1>1, <2>1
    <2> QED
      BY <2>1, <2>2, <2>3 DEF Behind, Reader, Fresh
  <1>3. ASSUME NEW k \in 1..n PROVE R(k) = NextArg(R(k - 1), types[k])
    <2> DEFINE h == g + k
               c == off[h - 1]
               type == F[h][1]
               t == SubSeq(F, g + 1, g + (k - 1))
    <2>1. h \in 1..l /\ h - 1 = g + (k - 1) /\ k - 1 \in Nat /\ (k - 1) + 1 = k /\ g + (k - 1) < l
      <3>1. l \in Nat /\ g \in 0..l /\ n \in 0..(l - g)
        BY <1>1
      <3> HIDE DEF l
      <3> QED
        BY <3>1
    <2>2. /\ CanReadArg(At(p, c), type) /\ off[h] = c + Width[type]
          /\ <<type, ArgAt(At(p, c), type)>> = F[h]
      BY <2>1, FieldReads
    <2>3. SubSeq(F, g + 1, g + k) = Append(t, F[h])
      <3>1. PICK S, e, f : /\ S = Types \X Int /\ f = F /\ f \in Seq(S)
                           /\ e = g + (k - 1) /\ e \in Nat /\ e + 1 = g + k
                           /\ g \in Nat /\ g <= e /\ e < Len(f)
        <4>1. g + (k - 1) \in Nat /\ (g + (k - 1)) + 1 = g + k /\ g \in Nat /\ g <= g + (k - 1)
          BY <1>1, <2>1
        <4>2. F \in Seq(Types \X Int) /\ g + (k - 1) < Len(F)
          BY <1>1, <2>1 DEF Fields
        <4> HIDE DEF F
        <4> QED
          BY <4>1, <4>2
      <3>2. SubSeq(f, g + 1, e + 1) = Append(SubSeq(f, g + 1, e), f[e + 1])
        BY <3>1, OneMore
      <3> QED
        BY <3>1, <3>2
    <2>4. types[k] = type
      BY <1>1
    <2>5. R(k - 1) = Reader(p, c, t)
      BY <2>1 DEF Behind
    <2> HIDE DEF h, c, t, type
    <2>6. NextArg(Reader(p, c, t), type)
             = Reader(p, c + Width[type], Append(t, <<type, ArgAt(At(p, c), type)>>))
      BY <2>2, NextArgReads
    <2>7. R(k) = Reader(p, off[h], Append(t, F[h]))
      BY <2>3 DEF h, Behind
    <2> HIDE DEF R
    <2> QED
      BY <2>2, <2>4, <2>5, <2>6, <2>7
  <1> QED
    BY <1>2, <1>3

LEMMA ReadsAll ==
    ASSUME NEW p, NEW off, NEW values, ReadUpTo(p, off, values),
           NEW g, g = Len(values), NEW n, NEW types, Ahead(p, g, n, types), Len(types) = n
    PROVE  ReadEach(p, types) = Behind(p, off, g, n)
  <1> DEFINE R(k) == Behind(p, off, g, k)
             f == [k \in 0..n |-> R(k)]
  <1>1. /\ R(0) = Fresh(p)
        /\ \A k \in 1..n : R(k) = NextArg(R(k - 1), types[k])
    BY ReadsLeft
  <1>2. n \in Nat
    BY DEF ReadUpTo, Fields, Ahead
  <1> HIDE DEF R
  <1>3. EachIs(f, n, p, types)
    <2>1. \A k \in 0..n : f[k] = R(k) /\ (k # 0 => k \in 1..n /\ f[k - 1] = R(k - 1))
      BY <1>2
    <2>2. f = [k \in 0..n |-> f[k]]
      OBVIOUS
    <2> HIDE DEF f
    <2>3. \A k \in 0..n : f[k] = IF k = 0 THEN Fresh(p)
                                 ELSE NextArg(f[k - 1], types[k])
      BY <1>1, <2>1
    <2> QED
      BY <2>2, <2>3 DEF EachIs
  <1>4. f[n] = R(n)
    BY <1>2
  <1> HIDE DEF f
  <1>5. ReadEach(p, types) = f[n]
    <2>1. Len(types) = n
      OBVIOUS
    <2> QED
      BY <1>2, <1>3, <2>1, ReadEachIs
  <1> QED
    BY <1>4, <1>5 DEF R

(* And a byte more than there is. *)
Beyond(p, g, n, types) ==
    /\ n = Len(p.fields) - g /\ Len(types) = n + 1 /\ types[n + 1] = "u8"
    /\ \A k \in 1..n : types[k] = p.fields[g + k][1]

LEMMA ReadsNoMore ==
    ASSUME NEW p, NEW off, NEW values, ReadUpTo(p, off, values),
           NEW g, g = Len(values), NEW n, NEW types, Beyond(p, g, n, types)
    PROVE  ReadEach(p, types) = Stuck(p, off[g + n], SubSeq(p.fields, g + 1, g + n))
  <1> DEFINE R(k) == Behind(p, off, g, k)
             last == Stuck(p, off[g + n], SubSeq(p.fields, g + 1, g + n))
             f == [k \in 0..(n + 1) |-> IF k = n + 1 THEN last ELSE R(k)]
  <1>0. /\ n = Len(p.fields) - g /\ Len(types) = n + 1 /\ types[n + 1] = "u8"
        /\ \A k \in 1..n : types[k] = p.fields[g + k][1]
    BY DEF Beyond
  <1>1. n \in Nat /\ n \in 0..(Len(p.fields) - g) /\ g + n = Len(p.fields)
    BY <1>0 DEF ReadUpTo, Fields
  <1>2. /\ R(0) = Fresh(p)
        /\ \A k \in 1..n : R(k) = NextArg(R(k - 1), types[k])
    <2>1. Ahead(p, g, n, types)
      BY <1>0, <1>1 DEF Ahead
    <2> QED
      BY <2>1, ReadsLeft
  <1>3. last = NextArg(R(n), types[n + 1])
    <2> DEFINE c == off[g + n]
    <2>1. c = Len(p.args) /\ c \in Nat
      BY <1>1, SequenceIs DEF ReadUpTo, IsLaid
    <2> HIDE DEF c
    <2>2. Available(At(p, c)) = 0
      BY <2>1, AtIs DEF Available
    <2>3. ~CanReadArg(At(p, c), "u8")
      BY <2>2, TypesAre, SMT DEF CanReadArg
    <2>4. PICK t : t = SubSeq(p.fields, g + 1, g + n)
      OBVIOUS
    <2>5. NextArg(Reader(p, c, t), "u8") = Stuck(p, c, t)
      BY <2>3, NextArgFails
    <2>6. R(n) = Reader(p, c, t) /\ last = Stuck(p, c, t) /\ types[n + 1] = "u8"
      BY <1>0, <2>4 DEF c, Behind
    <2> QED
      BY <2>5, <2>6
  <1> HIDE DEF R, last
  <1>4. EachIs(f, n + 1, p, types)
    <2>1. \A k \in 0..(n + 1) : k \in 0..n \/ k = n + 1
      BY <1>1
    <2>2. \A k \in 0..n : f[k] = R(k) /\ (k # 0 => k \in 1..n /\ f[k - 1] = R(k - 1))
      BY <1>1
    <2>3. f[n + 1] = last /\ (n + 1) - 1 = n /\ f[n] = R(n) /\ n + 1 # 0
      BY <1>1
    <2>4. f = [k \in 0..(n + 1) |-> f[k]]
      OBVIOUS
    <2> HIDE DEF f
    <2>5. \A k \in 0..(n + 1) : f[k] = IF k = 0 THEN Fresh(p)
                                       ELSE NextArg(f[k - 1], types[k])
      <3> TAKE k \in 0..(n + 1)
      <3>1. CASE k \in 0..n
        BY <1>2, <2>2, <3>1
      <3>2. CASE k = n + 1
        BY <1>3, <2>3, <3>2
      <3> QED
        BY <2>1, <3>1, <3>2
    <2> QED
      BY <2>4, <2>5 DEF EachIs
  <1>5. f[n + 1] = last
    BY <1>1
  <1> HIDE DEF f
  <1>6. ReadEach(p, types) = f[n + 1]
    <2>1. n + 1 \in Nat /\ Len(types) = n + 1
      BY <1>0, <1>1
    <2> QED
      BY <1>4, <2>1, ReadEachIs
  <1> QED
    BY <1>5, <1>6 DEF last
-----------------------------------------------------------------------------
(* What a payload's reader got is what was written first.                  *)
IsRead(p, values) == \E off : ReadUpTo(p, off, values)

LEMMA NothingIsRead == IsRead(NoPayload, <<>>)
  <1> DEFINE p == NoPayload
             off == [k \in 0..0 |-> 0]
  <1>1. p = At(p, 0) /\ p.cmd = 0 /\ p.args = <<>> /\ p.fields = <<>>
    BY DEF NoPayload, At
  <1>2. p.cmd \in RangeOf("u16")
    <2>1. 0 \in RangeOf("u16")
      BY TypesAre, SMT DEF RangeOf
    <2> QED
      BY <1>1, <2>1
  <1> HIDE DEF p
  <1>3. off \in [0..0 -> 0..0] /\ off[0] = 0
    OBVIOUS
  <1> HIDE DEF off
  <1>4. IsLaid(off, p.args, 0, Len(p.args), p.fields)
    BY <1>1, <1>3 DEF IsLaid
  <1>5. ReadUpTo(p, off, <<>>)
    BY <1>1, <1>2, <1>3, <1>4 DEF ReadUpTo, Fields, IsSequence
  <1> QED
    BY <1>5 DEF IsRead, p

(* A payload that is read from its beginning. *)
LEMMA FreshIsRead ==
    ASSUME NEW p, p = At(p, 0), p.cmd \in RangeOf("u16"), IsSequence(p.args),
           Encodes(p.args, 0, Len(p.args), p.fields)
    PROVE  IsRead(p, <<>>)
  <1>1. PICK off : IsLaid(off, p.args, 0, Len(p.args), p.fields)
    BY DEF Encodes
  <1>2. p.fields \in Fields /\ Len(p.fields) \in Nat /\ off[0] = 0
    BY <1>1 DEF Encodes, IsLaid, Fields
  <1>3. <<>> = SubSeq(p.fields, 1, Len(<<>>)) /\ Len(<<>>) = 0
    BY <1>2 DEF Fields
  <1>4. p = At(p, off[Len(<<>>)])
    BY <1>2, <1>3
  <1> QED
    BY <1>1, <1>2, <1>3, <1>4 DEF ReadUpTo, IsRead

LEMMA CmdIsWord ==
    ASSUME NEW m, IsMessage(m), Size(m) >= SizeMin, Encoded(m)
    PROVE  Unsigned(Field(m, CmdField, SizeCmd)) \in RangeOf("u16")
  <1> DEFINE b == Field(m, CmdField, SizeCmd)
  <1>1. SizeCmd = 2
    BY TypesAre, MessagesAssumption
  <1>2. CmdField \in Nat /\ m.bytes[CmdField + 1] \in 0..255 /\ m.bytes[CmdField + 2] \in 0..255
    BY <1>1, PlacesAre DEF Encoded
  <1>3. Len(b) = 2 /\ b[1] = m.bytes[CmdField + 1] /\ b[2] = m.bytes[CmdField + 2]
    <2> DEFINE s == m.bytes
               c == CmdField
    <2>1. b = SubSeq(s, c + 1, c + 2)
      BY <1>1 DEF Field
    <2>2. c \in Nat
      BY <1>2
    <2> HIDE DEF s, c, b
    <2>3. SubSeq(s, c + 1, c + 2) = [k \in 1..2 |-> s[(c + 1) + k - 1]]
      <3>1. (c + 2) - (c + 1) + 1 = 2
        BY <2>2
      <3> QED
        BY <2>2, <3>1
    <2>4. (c + 1) + 1 - 1 = c + 1 /\ (c + 1) + 2 - 1 = c + 2
      BY <2>2
    <2>5. PICK t : t = SubSeq(s, c + 1, c + 2)
      OBVIOUS
    <2>6. Len(t) = 2 /\ t[1] = s[c + 1] /\ t[2] = s[c + 2]
      <3>1. \A k \in 1..2 : t[k] = s[(c + 1) + k - 1]
        BY <2>3, <2>5
      <3>2. t = [k \in 1..2 |-> t[k]]
        BY <2>3, <2>5
      <3> QED
        BY <2>4, <3>1, <3>2
    <2> QED
      BY <2>1, <2>5, <2>6 DEF s, c
  <1> HIDE DEF b
  <1>4. Unsigned(b) = b[1] * 256 + b[2]
    BY <1>3, ReadTwo DEF Unsigned, TopOf
  <1>5. PICK x \in 0..255, y \in 0..255 : x = b[1] /\ y = b[2]
    BY <1>2, <1>3
  <1>6. PICK v \in Int : v = x * 256 + y /\ 0 <= v /\ v <= 65535
    BY SMT
  <1>7. v \in RangeOf("u16")
    <2>1. PICK c \in Int, d \in Int : c = Lowest["u16"] /\ d = Highest["u16"] /\ c <= v /\ v <= d
      BY <1>6, TypesAre, SMT
    <2> QED
      BY <2>1 DEF RangeOf
  <1> QED
    BY <1>4, <1>5, <1>6, <1>7 DEF b

LEMMA DecodedIsRead ==
    ASSUME NEW m, Sound(m), Encoded(m), Complete(m)
    PROVE  IsRead(Decode(m), <<>>)
  <1> DEFINE h == SizeHeader
             e == ArgsEnd(m)
             b == m.bytes
             a == SubSeq(b, h + 1, e)
             p == Decode(m)
  <1>1. IsMessage(m) /\ Size(m) >= SizeMin
    BY DEF Sound, Complete
  <1>2. h \in Nat /\ e \in Nat /\ h <= e /\ m.cursor \in Nat /\ m.cursor = e
    <2>1. h \in Nat /\ e \in Nat /\ h <= e /\ m.cursor \in Nat
      BY <1>1, PlacesAre
    <2>2. m.cursor <= e /\ m.cursor >= e
      BY <1>1 DEF Encoded, Complete, Full
    <2> QED
      BY <2>1, <2>2
  <1>3. Encodes(b, h, e, m.fields)
    BY <1>1, <1>2 DEF Encoded
  <1>4. p.cmd \in RangeOf("u16")
    BY <1>1, CmdIsWord DEF Decode, CmdField
  <1>5. p = At(p, 0) /\ p.args = a /\ p.fields = m.fields
    BY DEF Decode, At
  <1> HIDE DEF h, e, b, p
  <1>6. a = [k \in 1..(e - h) |-> b[h + k]] /\ e - h \in Nat
    <2>1. a = [k \in 1..(e - (h + 1) + 1) |-> b[(h + 1) + k - 1]]
      BY <1>2
    <2>2. e - (h + 1) + 1 = e - h /\ e - h \in Nat /\ \A k \in 1..(e - h) : (h + 1) + k - 1 = h + k
      BY <1>2
    <2> QED
      BY <2>1, <2>2
  <1> HIDE DEF a
  <1>7. IsSequence(a) /\ Len(a) = e - h /\ \A k \in 1..(e - h) : a[k] = b[h + k]
    <2>1. a = [k \in 1..(e - h) |-> a[k]] /\ \A k \in 1..(e - h) : a[k] = b[h + k]
      BY <1>6
    <2> QED
      BY <1>6, <2>1, FunctionIsSequence
  <1>8. Encodes(a, 0, e - h, m.fields)
    <2>1. \A k \in (h + 1)..e : a[k - h] = b[k]
      <3>1. \A k \in (h + 1)..e : k - h \in 1..(e - h) /\ h + (k - h) = k
        BY <1>2
      <3> QED
        BY <1>7, <3>1
    <2>2. h \in Int /\ h - h = 0
      BY <1>2
    <2>3. Encodes(a, h - h, e - h, m.fields)
      BY <1>2, <1>3, <2>1, <2>2, EncodesMoved
    <2> QED
      BY <2>2, <2>3
  <1>9. IsSequence(p.args) /\ Encodes(p.args, 0, Len(p.args), p.fields)
    BY <1>5, <1>7, <1>8
  <1>10. IsRead(p, <<>>)
    BY <1>4, <1>5, <1>9, FreshIsRead
  <1> QED
    BY <1>10 DEF p

LEMMA CopyIsRead ==
    ASSUME NEW p, NEW values, IsRead(p, values), Len(p.args) <= CmdCapacity
    PROVE  IsRead(ToCmd(p), <<>>)
  <1>1. PICK off : ReadUpTo(p, off, values)
    BY DEF IsRead
  <1>2. /\ p = At(p, off[Len(values)]) /\ p.cmd \in RangeOf("u16") /\ IsSequence(p.args)
        /\ Encodes(p.args, 0, Len(p.args), p.fields)
    BY <1>1 DEF ReadUpTo, Encodes
  <1> DEFINE a == p.args
             n == IF Len(a) < CmdCapacity THEN Len(a) ELSE CmdCapacity
             q == ToCmd(p)
  <1>3. Len(a) \in Nat /\ CmdCapacity \in Nat /\ a = [i \in 1..Len(a) |-> a[i]]
    BY <1>2, SequenceIs, MessagesAssumption
  <1>4. n = Len(a)
    BY <1>3
  <1>5. SubSeq(a, 1, n) = a
    <2>1. PICK l : l = Len(a)
      OBVIOUS
    <2>2. SubSeq(a, 1, l) = [i \in 1..l |-> a[i]]
      <3>1. l \in Nat /\ l - 1 + 1 = l /\ \A i \in 1..l : 1 + i - 1 = i
        BY <1>3, <2>1
      <3>2. SubSeq(a, 1, l) = [i \in 1..(l - 1 + 1) |-> a[1 + i - 1]]
        BY <3>1
      <3> QED
        BY <3>1, <3>2
    <2> QED
      BY <1>3, <1>4, <2>1, <2>2
  <1>6. q = At(p, 0)
    <2>1. q = [p EXCEPT !.args = SubSeq(a, 1, n), !.cursor = 0]
      BY Zenon DEF ToCmd
    <2> HIDE DEF a, n, q
    <2>2. p = [cmd |-> p.cmd, txid |-> p.txid, args |-> p.args, cursor |-> p.cursor,
               fields |-> p.fields]
      <3>1. PICK c : c = off[Len(values)]
        OBVIOUS
      <3>2. p = [cmd |-> p.cmd, txid |-> p.txid, args |-> p.args, cursor |-> c,
                 fields |-> p.fields]
        BY <1>2, <3>1 DEF At
      <3>3. p.cursor = c
        <4>1. PICK r : r = At(p, c)
          OBVIOUS
        <4>2. r.cursor = c
          BY <4>1, AtIs, Zenon
        <4> QED
          BY <1>2, <3>1, <4>1, <4>2
      <3> QED
        BY <3>2, <3>3
    <2>3. PICK x : x = SubSeq(a, 1, n)
      OBVIOUS
    <2>4. [p EXCEPT !.args = x, !.cursor = 0]
            = [cmd |-> p.cmd, txid |-> p.txid, args |-> x, cursor |-> 0, fields |-> p.fields]
      <3>1. PICK y : y = [p EXCEPT !.args = x]
        OBVIOUS
      <3>2. [p EXCEPT !.args = x, !.cursor = 0] = [y EXCEPT !.cursor = 0]
        BY <3>1
      <3>3. y = [cmd |-> p.cmd, txid |-> p.txid, args |-> x, cursor |-> p.cursor,
                 fields |-> p.fields]
        BY <2>2, <3>1
      <3>4. [y EXCEPT !.cursor = 0]
               = [cmd |-> p.cmd, txid |-> p.txid, args |-> x, cursor |-> 0, fields |-> p.fields]
        BY <3>3
      <3> QED
        BY <3>2, <3>4
    <2>5. q = [cmd |-> p.cmd, txid |-> p.txid, args |-> a, cursor |-> 0, fields |-> p.fields]
      BY <1>5, <2>1, <2>3, <2>4
    <2> QED
      BY <2>5 DEF At, a
  <1> HIDE DEF q
  <1>7. q = At(q, 0) /\ q.cmd = p.cmd /\ q.args = p.args /\ q.fields = p.fields
    BY <1>6 DEF At
  <1>8. IsRead(q, <<>>)
    BY <1>2, <1>7, FreshIsRead
  <1> QED
    BY <1>8 DEF q

LEMMA TypesLeft ==
    ASSUME NEW f \in Fields, NEW g \in 0..Len(f)
    PROVE  LET t == TypesOf(SubSeq(f, g + 1, Len(f)))
           IN  /\ t \in Seq(Types) /\ Len(t) = Len(f) - g
               /\ \A k \in 1..(Len(f) - g) : t[k] = f[g + k][1]
  <1> DEFINE l == Len(f)
             n == l - g
             s == SubSeq(f, g + 1, l)
             t == TypesOf(s)
  <1>1. l \in Nat /\ g \in 0..l /\ \A i \in 1..l : f[i] \in Types \X Int
    BY DEF Fields
  <1> HIDE DEF l
  <1>2. s = [k \in 1..n |-> f[g + k]] /\ n \in Nat
    <2>1. l - (g + 1) + 1 = n /\ n \in Nat /\ \A k \in 1..n : (g + 1) + k - 1 = g + k
      BY <1>1
    <2>2. s = [k \in 1..(l - (g + 1) + 1) |-> f[(g + 1) + k - 1]]
      BY <1>1
    <2> QED
      BY <2>1, <2>2
  <1> HIDE DEF s
  <1>3. \A k \in 1..n : f[g + k] \in Types \X Int /\ f[g + k][1] \in Types
    <2>1. \A k \in 1..n : g + k \in 1..l
      BY <1>1
    <2> QED
      BY <1>1, <2>1
  <1>4. t = [k \in 1..n |-> f[g + k][1]]
    <2>1. DOMAIN s = 1..n /\ \A k \in 1..n : s[k] = f[g + k]
      BY <1>2
    <2> HIDE DEF n
    <2> QED
      BY <2>1 DEF TypesOf
  <1> HIDE DEF n, t
  <1>5. t \in Seq(Types) /\ Len(t) = n /\ \A k \in 1..n : t[k] = f[g + k][1]
    <2>1. t = [k \in 1..n |-> t[k]] /\ \A k \in 1..n : t[k] = f[g + k][1]
      BY <1>4
    <2>2. \A k \in 1..n : t[k] \in Types
      BY <1>3, <2>1
    <2> QED
      BY <1>2, <2>1, <2>2
  <1> QED
    BY <1>5 DEF t, s, n, l

(* The values of two parts that follow each other. *)
LEMMA TwoParts ==
    ASSUME NEW S, NEW s \in Seq(S), NEW g \in Nat, NEW n \in Nat, g + n <= Len(s)
    PROVE  /\ SubSeq(s, 1, g) \o SubSeq(s, g + 1, g + n) = SubSeq(s, 1, g + n)
           /\ Len(SubSeq(s, 1, g + n)) = g + n
  <1> DEFINE a == SubSeq(s, 1, g)
             b == SubSeq(s, g + 1, g + n)
             c == SubSeq(s, 1, g + n)
             d == a \o b
  <1>1. a \in Seq(S) /\ Len(a) = g /\ \A i \in 1..g : a[i] = s[i]
    OBVIOUS
  <1>2. b \in Seq(S) /\ Len(b) = n /\ \A i \in 1..n : b[i] = s[g + i]
    <2>1. (g + n) - (g + 1) + 1 = n /\ \A i \in 1..n : (g + 1) + i - 1 = g + i
      OBVIOUS
    <2> QED
      BY <2>1
  <1>3. c \in Seq(S) /\ Len(c) = g + n /\ \A i \in 1..(g + n) : c[i] = s[i]
    OBVIOUS
  <1> HIDE DEF a, b, c
  <1>4. d \in Seq(S) /\ Len(d) = g + n
        /\ \A i \in 1..(g + n) : d[i] = IF i <= g THEN a[i] ELSE b[i - g]
    <2>1. a \in Seq(S) /\ b \in Seq(S) /\ Len(a) = g /\ Len(b) = n
      BY <1>1, <1>2
    <2> QED
      BY <2>1
  <1> HIDE DEF d
  <1>5. \A i \in 1..(g + n) : d[i] = c[i]
    <2> TAKE i \in 1..(g + n)
    <2>1. CASE i <= g
      BY <1>1, <1>3, <1>4, <2>1
    <2>2. CASE i > g
      <3>1. i - g \in 1..n /\ g + (i - g) = i /\ ~(i <= g)
        BY <2>2
      <3> QED
        BY <1>2, <1>3, <1>4, <3>1
    <2> QED
      BY <2>1, <2>2
  <1>6. d = c
    BY <1>3, <1>4, <1>5, SameSeq
  <1> QED
    BY <1>3, <1>6 DEF a, b, c, d

LEMMA FurtherRead ==
    ASSUME NEW p, NEW off, NEW values, ReadUpTo(p, off, values),
           NEW g, g = Len(values), NEW n \in 0..(Len(p.fields) - g)
    PROVE  /\ values \o SubSeq(p.fields, g + 1, g + n) = SubSeq(p.fields, 1, g + n)
           /\ ReadUpTo(At(p, off[g + n]), off, SubSeq(p.fields, 1, g + n))
  <1> DEFINE F == p.fields
             l == Len(F)
             v == SubSeq(F, 1, g + n)
             q == At(p, off[g + n])
  <1>1. F \in Fields /\ l \in Nat /\ g \in 0..l /\ values = SubSeq(F, 1, g)
    BY DEF ReadUpTo, Fields
  <1>2. g \in Nat /\ n \in Nat /\ g + n <= l /\ g + n \in 0..l
    BY <1>1
  <1>3. values \o SubSeq(F, g + 1, g + n) = v /\ Len(v) = g + n
    <2>1. PICK S : S = Types \X Int
      OBVIOUS
    <2>2. F \in Seq(S)
      BY <1>1, <2>1 DEF Fields
    <2>3. g + n <= Len(F)
      BY <1>2
    <2> HIDE DEF F
    <2>4. /\ SubSeq(F, 1, g) \o SubSeq(F, g + 1, g + n) = SubSeq(F, 1, g + n)
          /\ Len(SubSeq(F, 1, g + n)) = g + n
      BY <1>2, <2>2, <2>3, TwoParts
    <2> QED
      BY <1>1, <2>4
  <1>4. q = At(q, off[g + n]) /\ q.cmd = p.cmd /\ q.args = p.args /\ q.fields = F
    BY DEF At
  <1> HIDE DEF q, v
  <1>5. ReadUpTo(q, off, v)
    <2>1. v = SubSeq(F, 1, Len(v))
      BY <1>3 DEF v
    <2>2. /\ q.cmd \in RangeOf("u16") /\ IsSequence(q.args)
          /\ IsLaid(off, q.args, 0, Len(q.args), q.fields)
      BY <1>4 DEF ReadUpTo
    <2> HIDE DEF F
    <2> QED
      BY <1>1, <1>2, <1>3, <1>4, <2>1, <2>2 DEF ReadUpTo
  <1> QED
    BY <1>3, <1>5 DEF q, v

(* readArgs() in one go. *)
LEMMA ReadArgsReads ==
    ASSUME NEW p, NEW values, IsRead(p, values), NEW g, g = Len(values),
           NEW n, NEW types, Ahead(p, g, n, types), Len(types) = n
    PROVE  LET r == ReadArgs(p, types)
           IN  r.ok /\ IsRead(r.payload, values \o r.values)
  <1>1. PICK off : ReadUpTo(p, off, values)
    BY DEF IsRead
  <1> DEFINE v == SubSeq(p.fields, g + 1, g + n)
             r == ReadEach(p, types)
  <1>2. r = Behind(p, off, g, n)
    BY <1>1, ReadsAll
  <1>3. r.ok /\ r.payload = At(p, off[g + n]) /\ r.values = v
    BY <1>2 DEF Behind, Reader
  <1>4. ReadArgs(p, types) = r
    BY <1>3, Zenon DEF ReadArgs
  <1> HIDE DEF r
  <1>5. n \in 0..(Len(p.fields) - g)
    BY DEF Ahead
  <1>6. IsRead(At(p, off[g + n]), values \o v)
    <2>1. values \o v = SubSeq(p.fields, 1, g + n)
      BY <1>1, <1>5, FurtherRead
    <2>2. ReadUpTo(At(p, off[g + n]), off, SubSeq(p.fields, 1, g + n))
      BY <1>1, <1>5, FurtherRead
    <2> QED
      BY <2>1, <2>2 DEF IsRead
  <1> QED
    BY <1>3, <1>4, <1>6

LEMMA ReadArgsFails ==
    ASSUME NEW p, NEW values, IsRead(p, values), NEW g, g = Len(values),
           NEW n, NEW types, Beyond(p, g, n, types)
    PROVE  ~ReadArgs(p, types).ok /\ ReadArgs(p, types).payload = p
  <1>1. PICK off : ReadUpTo(p, off, values)
    BY DEF IsRead
  <1> DEFINE v == SubSeq(p.fields, g + 1, g + n)
  <1>2. ReadEach(p, types) = Stuck(p, off[g + n], v)
    BY <1>1, ReadsNoMore
  <1>3. PICK r : r = ReadEach(p, types)
    OBVIOUS
  <1>4. r = [payload |-> r.payload, values |-> r.values, ok |-> FALSE]
    BY <1>2, <1>3 DEF Stuck
  <1>5. ~r.ok
    BY <1>4
  <1>6. ReadArgs(p, types) = [r EXCEPT !.payload = p]
    BY <1>3, <1>5, Zenon DEF ReadArgs
  <1>7. [r EXCEPT !.payload = p] = [payload |-> p, values |-> r.values, ok |-> FALSE]
    <2>1. PICK x, y, b : r = [payload |-> x, values |-> y, ok |-> b] /\ y = r.values /\ b = FALSE
      BY <1>4, Zenon
    <2>2. [r EXCEPT !.payload = p] = [payload |-> p, values |-> y, ok |-> b]
      BY <2>1
    <2> QED
      BY <2>1, <2>2, Zenon
  <1> QED
    BY <1>6, <1>7

(* What is left of the bytes are the fields that are left. *)
LEMMA AvailableIs ==
    ASSUME NEW p, NEW values, IsRead(p, values), NEW g, g = Len(values),
           NEW types, Len(types) = Len(p.fields) - g,
           \A k \in 1..(Len(p.fields) - g) : types[k] = p.fields[g + k][1]
    PROVE  Available(p) = TotalWidth(types)
  <1>1. PICK off : ReadUpTo(p, off, values)
    BY DEF IsRead
  <1> DEFINE l == Len(p.fields)
             n == l - g
             c == off[g]
             z == Len(p.args)
             f == [k \in 0..n |-> off[g + k] - c]
  <1>2. /\ l \in Nat /\ g \in 0..l /\ z \in Nat /\ off \in [0..l -> 0..z] /\ off[l] = z
        /\ p = At(p, c)
    BY <1>1, SequenceIs DEF ReadUpTo, Fields, IsLaid
  <1>3. ASSUME NEW k \in 1..n PROVE off[g + k] = off[g + (k - 1)] + Width[types[k]]
    <2>1. g + k \in 1..l /\ (g + k) - 1 = g + (k - 1)
      BY <1>2
    <2>2. off[g + k] = off[(g + k) - 1] + Width[p.fields[g + k][1]]
      BY <1>1, <2>1, FieldReads
    <2>3. types[k] = p.fields[g + k][1]
      OBVIOUS
    <2> QED
      BY <2>1, <2>2, <2>3
  <1>4. c \in 0..z /\ n \in Nat /\ g + n = l /\ Len(types) = n /\ g + 0 = g
    BY <1>2
  <1>5. Available(p) = z - c
    <2>1. p.cursor = c
      <3>1. PICK q : q = At(p, c)
        OBVIOUS
      <3>2. q.cursor = c
        BY <3>1, AtIs, Zenon
      <3> QED
        BY <1>2, <3>1, <3>2
    <2> HIDE DEF c, z
    <2>2. Available(p) = IF c >= z THEN 0 ELSE z - c
      BY <2>1 DEF Available, z
    <2> QED
      BY <1>2, <1>4, <2>2
  <1>6. SumIs(f, n, types)
    <2>1. f[0] = 0
      BY <1>4
    <2>2. ASSUME NEW k \in 1..n PROVE f[k] = f[k - 1] + Width[types[k]]
      <3>1. k \in 0..n /\ k - 1 \in 0..n /\ g + k \in 0..l /\ g + (k - 1) \in 0..l
        BY <1>2
      <3>2. PICK x, y : x = off[g + k] /\ y = off[g + (k - 1)]
        OBVIOUS
      <3>3. PICK w : w = Width[types[k]]
        OBVIOUS
      <3>4. x \in 0..z /\ y \in 0..z /\ c \in 0..z /\ z \in Nat
        BY <1>2, <1>4, <3>1, <3>2
      <3>5. x = y + w
        BY <1>3, <3>2, <3>3
      <3>6. w \in 1..4
        <4>1. types[k] = p.fields[g + k][1] /\ g + k \in 1..l /\ p.fields \in Seq(Types \X Int)
          BY <1>1, <1>2 DEF ReadUpTo, Fields
        <4>2. types[k] \in Types
          BY <4>1
        <4> QED
          BY <3>3, <4>2, WidthIs
      <3>7. f[k] = x - c /\ f[k - 1] = y - c
        BY <3>1, <3>2
      <3> HIDE DEF f, c, z
      <3> QED
        BY <3>3, <3>4, <3>5, <3>6, <3>7
    <2>3. f = [k \in 0..n |-> f[k]]
      OBVIOUS
    <2>4. \A k \in 0..n : k = 0 \/ k \in 1..n
      BY <1>4
    <2> HIDE DEF f, n
    <2>5. \A k \in 0..n : f[k] = IF k = 0 THEN 0 ELSE f[k - 1] + Width[types[k]]
      BY <2>1, <2>2, <2>4
    <2> QED
      BY <2>3, <2>5 DEF SumIs
  <1>7. f[n] = z - c
    BY <1>2, <1>4
  <1> HIDE DEF f, n, z, c
  <1>8. TotalWidth(types) = f[n]
    BY <1>4, <1>6, TotalWidthIs
  <1> QED
    BY <1>5, <1>7, <1>8
-----------------------------------------------------------------------------
(* The messages and the payload of a behavior. *)
Written(m) == Sound(m) /\ Encoded(m)

AllWritten(q) == \A k \in 1..Len(q) : Encoded(q[k]) /\ Complete(q[k])

ReadInv == /\ SoundInv /\ Encoded(msg) /\ AllWritten(Items)
           /\ IsRead(payload, got) /\ (phase # "reading" => got = <<>>)

LEMMA EmptyIsEncoded == Encoded(Empty)
  <1>1. Size(Empty) = 0
    BY DEF Empty, Size
  <1> QED
    BY <1>1, SizesAre DEF Encoded

LEMMA AppendedWritten ==
    ASSUME NEW T, NEW q \in Seq(T), AllWritten(q), NEW m, Encoded(m), Complete(m)
    PROVE  AllWritten(Append(q, m))
  BY DEF AllWritten

LEMMA HeadAndTailWritten ==
    ASSUME NEW T, NEW q \in Seq(T), AllWritten(q), q # <<>>
    PROVE  Encoded(Head(q)) /\ Complete(Head(q)) /\ AllWritten(Tail(q))
  BY DEF AllWritten

LEMMA ConstructWritten ==
    ASSUME CrcFits, NEW cmd \in RangeOf("u16"), NEW n \in 0..MostArgs
    PROVE  Written(Construct(cmd, n))
  <1>1. cmd \in Int
    BY RangeIs, TypesAre
  <1> QED
    BY <1>1, ConstructIs, ConstructEncoded DEF Written

LEMMA WriteArgWritten ==
    ASSUME CrcFits, NEW m, Written(m), NEW type \in Types, NEW v \in RangeOf(type)
    PROVE  Written(WriteArg(m, type, v))
  BY WriteArgIs, WriteArgEncoded DEF Written

LEMMA SetTxidWritten ==
    ASSUME CrcFits, NEW m, Written(m), NEW txid
    PROVE  Written(SetTxid(m, txid))
  BY SetTxidIs, SetTxidEncoded DEF Written

LEMMA AnswersWritten ==
    ASSUME CrcFits, NEW request, request.cmd \in RangeOf("u16")
    PROVE  /\ \A n \in {0, 4} : Written(ResponseTo(request, n))
           /\ Written(NackTo(request, 513, 0))
  <1>1. MostArgs \in Int /\ 0 \in 0..MostArgs /\ 4 \in 0..MostArgs /\ SizeNackArgs \in 0..MostArgs
    BY RoomForNack DEF SizeNackArgs
  <1>2. \A n \in 0..MostArgs, cmd \in RangeOf("u16") : \A txid :
           Written(SetTxid(Construct(cmd, n), txid))
    BY ConstructWritten, SetTxidWritten
  <1>3. Written(NackTo(request, 513, 0))
    <2> DEFINE m == SetTxid(Construct(NackCmd, SizeNackArgs), request.txid)
               m1 == WriteArg(m, "u16", request.cmd)
               m2 == WriteArg(m1, "u16", 513)
    <2>1. "u16" \in Types /\ "i32" \in Types
      BY TypesAre
    <2>2. NackTo(request, 513, 0) = WriteArg(m2, "i32", 0)
      BY DEF NackTo
    <2>3. 513 \in RangeOf("u16") /\ 0 \in RangeOf("i32") /\ NackCmd \in RangeOf("u16")
      <3>1. 513 \in RangeOf("u16") /\ 0 \in RangeOf("i32")
        <4>1. PICK a \in Int, b \in Int :
                     a = Lowest["i32"] /\ b = Highest["i32"] /\ a <= 0 /\ 0 <= b
          BY TypesAre, SMT
        <4>2. PICK c \in Int, d \in Int :
                     c = Lowest["u16"] /\ d = Highest["u16"] /\ c <= 513 /\ 513 <= d
          BY TypesAre, SMT
        <4> QED
          BY <4>1, <4>2 DEF RangeOf
      <3> QED
        BY <3>1, MessagesAssumption
    <2>4. Written(m)
      BY <1>1, <1>2, <2>3
    <2> HIDE DEF m
    <2>5. Written(m1)
      BY <2>1, <2>4, WriteArgWritten
    <2> HIDE DEF m1
    <2>6. Written(m2)
      BY <2>1, <2>3, <2>5, WriteArgWritten
    <2> HIDE DEF m2
    <2> QED
      BY <2>1, <2>2, <2>3, <2>6, WriteArgWritten
  <1> QED
    BY <1>1, <1>2, <1>3 DEF ResponseTo

(* What the actions do. *)
LEMMA BeginsWritten ==
    ASSUME CrcFits, IsRead(payload, got), New \/ NewWithArg \/ Answer
    PROVE  Encoded(msg') /\ payload' = NoPayload /\ got' = <<>>
  <1>1. Commands \subseteq RangeOf("u16") /\ ArgSizes \subseteq 0..MostArgs
        /\ \A type \in Types : Values(type) \subseteq RangeOf(type)
    BY MessagesAssumption
  <1>2. CASE New
    <2>1. PICK cmd \in Commands, n \in ArgSizes : Begin(Construct(cmd, n))
      BY <1>2 DEF New
    <2>2. Written(Construct(cmd, n))
      BY <1>1, ConstructWritten
    <2> QED
      BY <2>1, <2>2 DEF Begin, Written
  <1>3. CASE NewWithArg
    <2>1. PICK cmd \in Commands, type \in Types : \E v \in Values(type) :
             Begin(WriteArg(Construct(cmd, Width[type]), type, v))
      BY <1>3 DEF NewWithArg
    <2>2. PICK v \in Values(type) : Begin(WriteArg(Construct(cmd, Width[type]), type, v))
      BY <2>1
    <2>3. Width[type] \in 0..MostArgs
      BY RoomForNack, WidthIs
    <2>4. Written(Construct(cmd, Width[type])) /\ v \in RangeOf(type)
      BY <1>1, <2>3, ConstructWritten
    <2>5. Written(WriteArg(Construct(cmd, Width[type]), type, v))
      BY <2>4, WriteArgWritten
    <2> QED
      BY <2>2, <2>5 DEF Begin, Written
  <1>4. CASE Answer
    <2>1. payload.cmd \in RangeOf("u16")
      BY DEF IsRead, ReadUpTo
    <2>2. /\ Written(ResponseTo(payload, 0)) /\ Written(ResponseTo(payload, 4))
          /\ Written(NackTo(payload, 513, 0))
      BY <2>1, AnswersWritten
    <2>3. \A v \in Values("i32") : Written(WriteArg(ResponseTo(payload, 4), "i32", v))
      <3>1. "i32" \in Types
        BY TypesAre
      <3> QED
        BY <1>1, <2>2, <3>1, WriteArgWritten
    <2> QED
      BY <1>4, <2>2, <2>3 DEF Answer, Begin, Written
  <1> QED
    BY <1>2, <1>3, <1>4

LEMMA BuildsWritten ==
    ASSUME CrcFits, Written(msg), Write \/ Chunk \/ Stamp \/ Finish
    PROVE  Encoded(msg') /\ UNCHANGED <<phase, payload, got>>
  <1>1. CASE Write
    <2>0. PICK type \in Types : \E v \in Values(type) : Build(WriteArg(msg, type, v))
      BY <1>1 DEF Write
    <2>1. PICK v \in Values(type) : Build(WriteArg(msg, type, v))
      BY <2>0
    <2>2. Written(WriteArg(msg, type, v))
      BY MessagesAssumption, WriteArgWritten
    <2> QED
      BY <2>1, <2>2 DEF Build, Written
  <1>2. CASE Chunk
    BY <1>2, WriteBytesEncoded DEF Chunk, Build, Written
  <1>3. CASE Stamp
    BY <1>3, SetTxidEncoded DEF Stamp, Build, Written
  <1>4. CASE Finish
    BY <1>4, FinalizeEncoded DEF Finish, Build, Written
  <1> QED
    BY <1>1, <1>2, <1>3, <1>4

(* The types that are left, and those that are asked for. *)
LEMMA LeftIs ==
    ASSUME IsRead(payload, got)
    PROVE  /\ payload.fields \in Fields /\ Len(got) \in 0..Len(payload.fields)
           /\ Left \in Seq(Types) /\ Len(Left) = Len(payload.fields) - Len(got)
           /\ \A k \in 1..(Len(payload.fields) - Len(got)) :
                 Left[k] = payload.fields[Len(got) + k][1]
  <1>1. payload.fields \in Fields /\ Len(got) \in 0..Len(payload.fields)
    BY DEF IsRead, ReadUpTo
  <1> QED
    BY <1>1, TypesLeft DEF Left

LEMMA AskedAre ==
    ASSUME IsRead(payload, got), NEW types \in Asked
    PROVE  \/ \E n : Ahead(payload, Len(got), n, types) /\ Len(types) = n
           \/ \E n : Beyond(payload, Len(got), n, types)
  <1> DEFINE F == payload.fields
             g == Len(got)
             l == Len(F) - g
             L == Left
  <1>1. L \in Seq(Types) /\ Len(L) = l /\ l \in Nat /\ \A k \in 1..l : L[k] = F[g + k][1]
    <2>1. Len(F) \in Nat /\ g \in 0..Len(F)
      BY LeftIs DEF Fields
    <2>2. l \in Nat
      BY <2>1
    <2> QED
      BY <2>2, LeftIs
  <1>2. types \in {SubSeq(L, 1, n) : n \in 1..Len(L)} \/ types = Append(L, "u8")
    BY DEF Asked
  <1>3. ASSUME NEW n \in 1..Len(L), types = SubSeq(L, 1, n)
        PROVE  Ahead(payload, g, n, types) /\ Len(types) = n
    <2> HIDE DEF L, l
    <2>1. Len(types) = n /\ \A k \in 1..n : types[k] = L[k]
      BY <1>1, <1>3
    <2>2. n \in 0..l /\ \A k \in 1..n : k \in 1..l
      BY <1>1, <1>3
    <2>3. \A k \in 1..n : types[k] = F[g + k][1]
      BY <1>1, <2>1, <2>2
    <2> QED
      BY <2>1, <2>2, <2>3 DEF Ahead, l
  <1>4. ASSUME types = Append(L, "u8") PROVE Beyond(payload, g, l, types)
    <2>1. "u8" \in Types
      BY TypesAre
    <2>2. Len(types) = l + 1 /\ types[l + 1] = "u8" /\ \A k \in 1..l : types[k] = L[k]
      <3> HIDE DEF L, l
      <3> QED
        BY <1>1, <1>4, <2>1
    <2> QED
      BY <1>1, <2>2 DEF Beyond
  <1> QED
    BY <1>2, <1>3, <1>4

LEMMA ReadIsRead ==
    ASSUME IsRead(payload, got), NEW types \in Asked, Read(types)
    PROVE  IsRead(payload', got')
  <1> DEFINE r == ReadArgs(payload, types)
  <1>1. payload' = r.payload /\ got' = IF r.ok THEN got \o r.values ELSE got
    BY DEF Read
  <1>2. ASSUME NEW n, Ahead(payload, Len(got), n, types), Len(types) = n
        PROVE  r.ok /\ IsRead(r.payload, got \o r.values)
    BY <1>2, ReadArgsReads
  <1>3. ASSUME NEW n, Beyond(payload, Len(got), n, types)
        PROVE  ~r.ok /\ r.payload = payload
    BY <1>3, ReadArgsFails
  <1> HIDE DEF r
  <1>4. CASE \E n : Ahead(payload, Len(got), n, types) /\ Len(types) = n
    BY <1>1, <1>2, <1>4
  <1>5. CASE \E n : Beyond(payload, Len(got), n, types)
    BY <1>1, <1>3, <1>5
  <1> QED
    BY <1>4, <1>5, AskedAre

LEMMA ReadStep ==
    ASSUME CrcFits, ReadInv, [Next]_vars
    PROVE  ReadInv'
  <1>1. SoundInv /\ SoundInv' /\ Written(msg) /\ QueueInv /\ IsRead(payload, got)
    BY SoundStep DEF ReadInv, SoundInv, Written
  <1>2. PICK T : Items \in Seq(T)
    BY <1>1, ItemsAre
  <1>3. ASSUME UNCHANGED queueVars PROVE AllWritten(Items)'
    BY <1>3, SameItems DEF ReadInv, AllWritten
  <1>4. CASE New \/ NewWithArg \/ Answer
    <2>1. Encoded(msg') /\ payload' = NoPayload /\ got' = <<>> /\ UNCHANGED queueVars
      BY <1>1, <1>4, BeginsWritten, BeginsSound
    <2> QED
      BY <1>1, <1>3, <2>1, NothingIsRead DEF ReadInv
  <1>5. CASE Write \/ Chunk \/ Stamp \/ Finish
    <2>1. Encoded(msg') /\ UNCHANGED <<phase, payload, got>> /\ UNCHANGED queueVars
      BY <1>1, <1>5, BuildsWritten, BuildsSound DEF Written
    <2> QED
      BY <1>1, <1>3, <2>1 DEF ReadInv
  <1>6. CASE Push
    <2>1. /\ msg' = Empty /\ Complete(msg) /\ UNCHANGED <<payload, got>>
          /\ phase = "building" /\ phase' = "idle"
          /\ PushItem(msg) \/ UNCHANGED queueVars
      BY <1>6 DEF Push
    <2>2. AllWritten(Items)'
      <3>1. CASE PushItem(msg)
        <4>1. Items' = Append(Items, msg)
          BY <1>1, <3>1, Pushed
        <4>2. AllWritten(Append(Items, msg))
          BY <1>1, <1>2, <2>1, AppendedWritten DEF ReadInv, Written
        <4> QED
          BY <4>1, <4>2 DEF AllWritten
      <3> QED
        BY <1>3, <2>1, <3>1
    <2>3. got = <<>>
      BY <2>1 DEF ReadInv
    <2> QED
      BY <1>1, <2>1, <2>2, <2>3, EmptyIsEncoded DEF ReadInv
  <1>7. CASE Deliver
    <2>1. /\ phase = "idle" /\ phase' = "reading" /\ PopItem /\ msg' = Front
          /\ payload' = Decode(Front) /\ got' = got
      BY <1>7 DEF Deliver
    <2>2. Items # <<>> /\ Front = Head(Items) /\ Items' = Tail(Items)
      BY <1>1, <2>1, Popped
    <2>3. Encoded(Front) /\ Complete(Front) /\ AllWritten(Tail(Items)) /\ Sound(Front)
      BY <1>1, <1>2, <2>2, HeadAndTailWritten, HeadAndTailSound DEF ReadInv, SoundInv
    <2>4. IsRead(payload', <<>>) /\ got = <<>>
      BY <2>1, <2>3, DecodedIsRead DEF ReadInv
    <2>5. AllWritten(Items)'
      BY <2>2, <2>3 DEF AllWritten
    <2> QED
      BY <1>1, <2>1, <2>3, <2>4, <2>5 DEF ReadInv
  <1>8. CASE Clear
    <2>1. Items' = <<>> /\ UNCHANGED <<phase, msg, payload, got>>
      BY <1>1, <1>8, Cleared DEF Clear
    <2>2. AllWritten(Items)'
      BY <2>1 DEF AllWritten
    <2> QED
      BY <1>1, <2>1, <2>2 DEF ReadInv
  <1>9. CASE \E types \in Asked : Read(types)
    <2>1. UNCHANGED <<phase, msg>> /\ UNCHANGED queueVars /\ phase = "reading"
      BY <1>9 DEF Read
    <2>2. IsRead(payload', got')
      BY <1>1, <1>9, ReadIsRead
    <2> QED
      BY <1>1, <1>3, <2>1, <2>2 DEF ReadInv
  <1>10. CASE Copy
    <2>1. /\ phase = "reading" /\ Len(payload.args) <= CmdCapacity
          /\ payload' = ToCmd(payload) /\ got' = <<>>
          /\ UNCHANGED <<phase, msg>> /\ UNCHANGED queueVars
      BY <1>10 DEF Copy
    <2>2. IsRead(payload', <<>>)
      BY <1>1, <2>1, CopyIsRead
    <2> QED
      BY <1>1, <1>3, <2>1, <2>2 DEF ReadInv
  <1>11. CASE Done
    <2>1. msg' = Empty /\ payload' = NoPayload /\ got' = <<>> /\ UNCHANGED queueVars
      BY <1>11 DEF Done
    <2> QED
      BY <1>1, <1>3, <2>1, EmptyIsEncoded, NothingIsRead DEF ReadInv
  <1>12. CASE UNCHANGED vars
    <2>1. UNCHANGED <<phase, msg, payload, got>> /\ UNCHANGED queueVars
      BY <1>12 DEF vars
    <2> QED
      BY <1>1, <1>3, <2>1 DEF ReadInv
  <1> QED
    BY <1>4, <1>5, <1>6, <1>7, <1>8, <1>9, <1>10, <1>11, <1>12 DEF Next

LEMMA ReadMeansWritten ==
    ASSUME IsRead(payload, got)
    PROVE  ReadsWhatWasWritten
  <1>1. got = SubSeq(payload.fields, 1, Len(got))
    BY DEF IsRead, ReadUpTo
  <1>2. Available(payload) = TotalWidth(Left)
    BY LeftIs, AvailableIs
  <1> QED
    BY <1>1, <1>2 DEF ReadsWhatWasWritten

(* A reader gets what was written, value by value and type by type, of     *)
(* every range a type has and negative numbers included; a refusal in      *)
(* between takes nothing; and what is left of the bytes is what it has not *)
(* read yet.  This holds of a message that was built in whatever order,    *)
(* stamped, filled up, queued and popped, and of a copy of the payload     *)
(* (Payload::readArgs, beio.cpp).                                          *)
THEOREM ReadsAsWritten == CrcFits => (Spec => []ReadsWhatWasWritten)
  <1> SUFFICES ASSUME CrcFits PROVE Spec => []ReadsWhatWasWritten
    OBVIOUS
  <1>1. Init => ReadInv
    <2>1. QueueInit => QueueInv /\ Items = <<>>
      BY QueueInitially
    <2> QED
      BY <2>1, EmptyIsSound, EmptyIsEncoded, NothingIsRead
         DEF Init, ReadInv, SoundInv, AllSound, AllWritten
  <1>2. ReadInv /\ [Next]_vars => ReadInv'
    BY ReadStep
  <1>3. ReadInv => ReadsWhatWasWritten
    BY ReadMeansWritten DEF ReadInv
  <1> QED
    BY <1>1, <1>2, <1>3, PTL DEF Spec
=============================================================================
