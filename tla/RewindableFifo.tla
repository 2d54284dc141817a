--------------------------- MODULE RewindableFifo ---------------------------
(***************************************************************************)
(* What a RingBuffer promises, with no array and no index: a bounded       *)
(* queue of bytes whose reader may place a bookmark and later take back    *)
(* everything it read since.                                               *)
(***************************************************************************)
EXTENDS Integers, Sequences

CONSTANTS Byte, Capacity

VARIABLES kept,      \* read since the bookmark, still retrievable
          unread,    \* written and not yet read
          marked,    \* is there a bookmark?
          input      \* the bytes written last, as the writer gave them

fifoVars == <<kept, unread, marked, input>>

Init == kept = <<>> /\ unread = <<>> /\ marked = FALSE /\ input = <<>>

Put(src) == /\ Len(kept) + Len(unread) + Len(src) <= Capacity
            /\ unread' = unread \o src
            /\ input' = src
            /\ UNCHANGED <<kept, marked>>

Take(n) == /\ n <= Len(unread)
           /\ unread' = SubSeq(unread, n + 1, Len(unread))
           /\ kept' = IF marked THEN kept \o SubSeq(unread, 1, n) ELSE <<>>
           /\ UNCHANGED <<marked, input>>

Bookmark == kept' = <<>> /\ marked' = TRUE /\ UNCHANGED <<unread, input>>

Release == kept' = <<>> /\ marked' = FALSE /\ UNCHANGED <<unread, input>>

TakeBack == /\ unread' = kept \o unread /\ kept' = <<>> /\ marked' = FALSE
            /\ UNCHANGED input

Drop == unread' = <<>> /\ kept' = <<>> /\ marked' = FALSE /\ UNCHANGED input

Next == \/ \E n \in 1..Capacity : \E src \in [1..n -> Byte] : Put(src)
        \/ \E n \in 1..Capacity : Take(n)
        \/ Bookmark
        \/ Release
        \/ TakeBack
        \/ Drop

Spec == Init /\ [][Next]_fifoVars
=============================================================================
