----------------------------- MODULE RingBuffer -----------------------------
(***************************************************************************)
(* The byte ring buffer under the parser (lbp/include/lbp/ringbuffer.h).   *)
(* head and tail only ever grow: they count the bytes written and read     *)
(* since the last clear(), and a byte lives in data[index % Capacity].  A  *)
(* bookmark keeps the bytes from mark on, so that rewind() can hand them   *)
(* out a second time.                                                      *)
(*                                                                         *)
(* One thread owns a buffer, so a method is one action.                    *)
(***************************************************************************)
EXTENDS Integers, Sequences, FiniteSets

CONSTANTS Byte,         \* the values of a byte
          Garbage,      \* a byte of m_data that nothing has written
          Capacity      \* bytes in m_data

(* static_assert of ringbuffer.h: indices are reduced with a bit mask. *)
ASSUME PowerOfTwo == /\ Capacity \in Nat \ {0}
                     /\ \E k \in 0..Capacity : Capacity = 2^k
ASSUME GarbageIsNoByte == Garbage \notin Byte

VARIABLES data, head, tail, mark

ringVars == <<data, head, tail, mark>>

NoMark == -1                       \* kNoMark, which no index ever equals

Slot(i) == i % Capacity            \* i & kModMask

reserved  == IF mark = NoMark THEN tail ELSE mark
available == head - tail
freeSpace == Capacity - (head - reserved)
empty     == head = tail

(* The n bytes that a read of n copies out. *)
Peek(n) == [k \in 1..n |-> data[Slot(tail + k - 1)]]

RingInit == /\ data = [j \in 0..Capacity-1 |-> Garbage]
            /\ head = 0
            /\ tail = 0
            /\ mark = NoMark

-----------------------------------------------------------------------------
(* read() and readByte(): all n bytes or nothing. *)
CanRead(n) == n <= available

Consume(n) == /\ CanRead(n)
              /\ tail' = tail + n
              /\ UNCHANGED <<data, head, mark>>

(* Mutant: only the first memcpy of write(). *)
MutStored(src) ==
    [j \in 0..Capacity-1 |->
        LET k == j - Slot(head)
        IN  IF 0 <= k /\ k < Len(src) THEN src[k + 1] ELSE data[j]]

(* The two memcpy of write(): src[k] lands in slot head+k-1, wrapping. *)
Stored(src) ==
    [j \in 0..Capacity-1 |->
        LET k == (j - head) % Capacity
        IN  IF k < Len(src) THEN src[k + 1] ELSE data[j]]

Write(src) == /\ Len(src) <= freeSpace
              /\ data' = Stored(src)
              /\ head' = head + Len(src)
              /\ UNCHANGED <<tail, mark>>

SetBookmark == mark' = tail /\ UNCHANGED <<data, head, tail>>

ClearBookmark == mark' = NoMark /\ UNCHANGED <<data, head, tail>>

(* Mutant: the bookmark is kept. *)
MutRewind == tail' = reserved /\ UNCHANGED <<data, head, mark>>

Rewind == /\ tail' = reserved
          /\ mark' = NoMark
          /\ UNCHANGED <<data, head>>

(* clear() resets the indices.  The bytes stay where they are and mean      *)
(* nothing from here on: a read that returned one would return Garbage.    *)
RingClear == /\ head' = 0
             /\ tail' = 0
             /\ mark' = NoMark
             /\ data' = [j \in 0..Capacity-1 |-> Garbage]

RingCall == \/ \E n \in 1..Capacity : Consume(n)
            \/ SetBookmark
            \/ ClearBookmark
            \/ Rewind
            \/ RingClear

-----------------------------------------------------------------------------
RingTypeOK == /\ data \in [0..Capacity-1 -> Byte \cup {Garbage}]
              /\ head \in Nat
              /\ tail \in Nat
              /\ mark \in Nat \cup {NoMark}

(* The indices never pass each other, and what must be kept (the unread    *)
(* bytes and those a rewind would bring back) never exceeds the array.     *)
RingBounded == /\ reserved <= tail
               /\ tail <= head
               /\ head - reserved <= Capacity
=============================================================================
