---------------------------- MODULE FrameStream -----------------------------
(***************************************************************************)
(* What the parser promises its caller.  The bytes that arrived since the  *)
(* last clear() determine the messages that come out, and their order,     *)
(* whatever the sizes of the pieces the bytes came in:                     *)
(*   - look for the magic;                                                 *)
(*   - what follows it is a message if its size is legal and its checksum  *)
(*     matches; the search goes on after the message;                      *)
(*   - if not, the search goes on right after that magic.                  *)
(***************************************************************************)
EXTENDS Frames, FiniteSetsExt

CONSTANT Byte

VARIABLES stream,            \* every byte accepted since the last clear
          delivered          \* every message handed out since then

streamVars == <<stream, delivered>>

Field(s, from, n) == SubSeq(s, from, from + n - 1)

MagicAt(s, i) == i + SizeMagic - 1 <= Len(s) /\ Field(s, i, SizeMagic) = Magic

(* Where a magic begins, from index i on. *)
Starts(s, i) == {j \in i..Len(s) : MagicAt(s, j)}

(* What begins at index b, behind a magic: the fields that come first; the *)
(* checksum, where it should be; and the message, if it is one.            *)
Txid(s, b) == Field(s, b, SizeTxid)
Cmd(s, b)  == Field(s, b + SizeTxid, SizeCmd)
Size(s, b) == Field(s, b + SizeTxid + SizeCmd, SizeLen)
Args(s, b) == Field(s, b + SizePrefix, LenOf(Size(s, b)))
CrcAt(s, b) == b + SizePrefix + LenOf(Size(s, b))
Frame(s, b) == [txid |-> Txid(s, b), cmd |-> Cmd(s, b), args |-> Args(s, b)]

SizeKnown(s, b) == b + SizePrefix - 1 <= Len(s)
SizeFits(s, b)  == LenOf(Size(s, b)) <= MaxArgs
Whole(s, b)     == CrcAt(s, b) + SizeCrc - 1 <= Len(s)
Intact(s, b)    == Field(s, CrcAt(s, b), SizeCrc)
                     = Crc(Txid(s, b) \o Cmd(s, b) \o Size(s, b) \o Args(s, b))

(* The messages in s, for each index from which to look for them. *)
Scan(s) ==
    LET scan[i \in 1..Len(s)+1] ==
          LET b == Min(Starts(s, i)) + SizeMagic
          IN  IF Starts(s, i) = {} \/ ~SizeKnown(s, b) THEN <<>>
              ELSE IF ~SizeFits(s, b) THEN scan[b]
              ELSE IF ~Whole(s, b) THEN <<>>
              ELSE IF Intact(s, b) THEN <<Frame(s, b)>> \o scan[CrcAt(s, b) + SizeCrc]
              ELSE scan[b]
    IN  scan

FramesFrom(s) == Scan(s)[1]

Init == stream = <<>> /\ delivered = <<>>

Arrive == /\ stream' \in Seq(Byte)
          /\ Len(stream') >= Len(stream)
          /\ SubSeq(stream', 1, Len(stream)) = stream
          /\ UNCHANGED delivered

Deliver == /\ Len(delivered) < Len(FramesFrom(stream))
           /\ delivered' = Append(delivered,
                                  FramesFrom(stream)[Len(delivered) + 1])
           /\ UNCHANGED stream

Restart == stream' = <<>> /\ delivered' = <<>>

Next == Arrive \/ Deliver \/ Restart

Spec == Init /\ [][Next]_streamVars
=============================================================================
