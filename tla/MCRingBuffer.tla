---------------------------- MODULE MCRingBuffer ----------------------------
(* A ring buffer driven by every sequence of calls, until MaxIndex bytes   *)
(* were written (several times round the array).                           *)
EXTENDS RingBuffer

CONSTANTS MaxIndex,   \* bound on the bytes written between two clears
          MaxChunk    \* bound on the bytes of one write

VARIABLE input      \* the argument of the last write()

mcVars == <<ringVars, input>>

MCChunks == UNION {[1..n -> Byte] : n \in 1..MaxChunk}

MCInit == RingInit /\ input = <<>>

MCWrite(src) == /\ head + Len(src) <= MaxIndex
                /\ Write(src)
                /\ input' = src

MCNext == \/ \E src \in MCChunks : MCWrite(src)
          \/ RingCall /\ UNCHANGED input

MCSpec == MCInit /\ [][MCNext]_mcVars

(* The bytes at indices from..to-1, as the array holds them. *)
Held(from, to) == [k \in 1..(to - from) |-> data[Slot(from + k - 1)]]

(* The ring buffer implements the FIFO with rewind: no write touches a     *)
(* byte that is unread or that a rewind may bring back, and reading across *)
(* the end of the array keeps the order (ringbuffer.h:40-117).             *)
Fifo == INSTANCE RewindableFifo
          WITH kept   <- Held(reserved, tail),
               unread <- Held(tail, head),
               marked <- mark # NoMark

ImplementsFifo == Fifo!Spec
=============================================================================
