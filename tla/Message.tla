------------------------------ MODULE Message -------------------------------
(***************************************************************************)
(* The class that builds messages (lbp/include/lbp/message.h).  A message  *)
(* is its bytes, as many as m_size says, and the cursor behind what was    *)
(* written so far.  It also remembers, for the properties only, what its   *)
(* owner wrote as arguments: pairs of a type and a value.                  *)
(***************************************************************************)
EXTENDS Frames

CONSTANTS Capacity,          \* of Message<Capacity>
          NackCmd            \* cmd_nack

SizeHeader == SizeMagic + SizePrefix
SizeMin == SizeHeader + SizeCrc        \* size_min_msg

ASSUME CapacityHoldsHeader == Capacity \in Nat /\ Capacity >= SizeMin

NoTxid == 0

(* Big-endian bytes of a number, negative ones in two's complement         *)
(* (beio.cpp).                                                             *)
WriteBE(value, width) == [k \in 1..width |-> (value \div 256^(width - k)) % 256]

Zeros(n) == [k \in 1..n |-> 0]

(* The integers a message carries, and their width in bytes. *)
Width == [u8 |-> 1, u16 |-> 2, i16 |-> 2, i32 |-> 4]
Types == DOMAIN Width

(* What they can be. *)
Lowest  == [u8 |-> 0, u16 |-> 0, i16 |-> -32768, i32 |-> -2147483647 - 1]
Highest == [u8 |-> 255, u16 |-> 65535, i16 |-> 32767, i32 |-> 2147483647]
RangeOf(type) == Lowest[type]..Highest[type]

(* A default-constructed message, and what a move leaves behind. *)
Empty == [bytes |-> <<>>, cursor |-> 0, fields |-> <<>>]

Size(m) == Len(m.bytes)
ArgSize(m) == IF Size(m) >= SizeMin THEN Size(m) - SizeMin ELSE 0
ArgsEnd(m) == Size(m) - SizeCrc
Full(m) == m.cursor >= ArgsEnd(m)
Complete(m) == Size(m) >= SizeMin /\ Full(m)

(* The bytes of a field, behind offset. *)
Field(m, offset, width) == SubSeq(m.bytes, offset + 1, offset + width)

Overwrite(bytes, at, src) ==
    [k \in DOMAIN bytes |-> IF at < k /\ k <= at + Len(src) THEN src[k - at] ELSE bytes[k]]

(* What the checksum is taken of: all between the magic and itself. *)
Covered(m) == SubSeq(m.bytes, SizeMagic + 1, ArgsEnd(m))

SetChecksum(m) == [m EXCEPT !.bytes = Overwrite(@, ArgsEnd(m), Crc(Covered(m)))]

WhenFull(m) == IF Full(m) THEN SetChecksum(m) ELSE m

-----------------------------------------------------------------------------
CanWrite(m, n) == Size(m) >= SizeMin /\ m.cursor + n <= ArgsEnd(m)

(* writeByte(), writeShort(), writeInt(), writeData(): all of it or, with  *)
(* false, nothing.                                                         *)
Put(m, src) == WhenFull([m EXCEPT !.bytes = Overwrite(@, m.cursor, src),
                                  !.cursor = @ + Len(src)])

WriteData(m, src) == IF CanWrite(m, Len(src)) THEN Put(m, src) ELSE m

(* Data that its owner chose, a byte after the other. *)
WriteBytes(m, src) ==
    IF CanWrite(m, Len(src))
    THEN [Put(m, src) EXCEPT !.fields = @ \o [k \in DOMAIN src |-> <<"u8", src[k]>>]]
    ELSE m

WriteArg(m, type, value) ==
    IF CanWrite(m, Width[type])
    THEN [Put(m, WriteBE(value, Width[type])) EXCEPT !.fields = Append(@, <<type, value>>)]
    ELSE m

(* Message(cmd, arg_size), which asserts that it fits: the header is       *)
(* written like any data, and completes a message without arguments.       *)
Construct(cmd, argSize) ==
    LET blank == [Empty EXCEPT !.bytes = Zeros(SizeMin + argSize)]
        header == <<Magic, WriteBE(NoTxid, SizeTxid), WriteBE(cmd, SizeCmd),
                    WriteBE(argSize, SizeLen)>>
    IN  WriteData(WriteData(WriteData(WriteData(blank, header[1]), header[2]),
                            header[3]), header[4])

(* Mutant: a message that is complete keeps its checksum. *)
MutSetTxid(m, txid) ==
    IF Size(m) < SizeMin THEN m
    ELSE [m EXCEPT !.bytes = Overwrite(@, SizeMagic, WriteBE(txid, SizeTxid))]

SetTxid(m, txid) ==
    IF Size(m) < SizeMin THEN m
    ELSE WhenFull([m EXCEPT !.bytes = Overwrite(@, SizeMagic, WriteBE(txid, SizeTxid))])

(* finalize(): the bytes that nobody wrote are zero. *)
Finalize(m) ==
    LET missing == IF Full(m) THEN 0 ELSE ArgsEnd(m) - m.cursor
    IN  IF Size(m) < SizeMin THEN m
        ELSE SetChecksum([m EXCEPT !.bytes = Overwrite(@, m.cursor, Zeros(missing)),
                                   !.cursor = @ + missing,
                                   !.fields = @ \o [k \in 1..missing |-> <<"u8", 0>>]])

(* responseTo() and nackTo() a request that came as a payload. *)
ResponseTo(request, argSize) == SetTxid(Construct(request.cmd, argSize), request.txid)

SizeNackArgs == 8

NackTo(request, code, detail) ==
    LET m == SetTxid(Construct(NackCmd, SizeNackArgs), request.txid)
    IN  WriteArg(WriteArg(WriteArg(m, "u16", request.cmd), "u16", code), "i32", detail)

-----------------------------------------------------------------------------
(* The message that the wire is promised: every part in its place, and the *)
(* checksum that belongs to them.                                          *)
WellFormed(m) ==
    /\ Field(m, 0, SizeMagic) = Magic
    /\ LenOf(Field(m, SizeMagic + SizeTxid + SizeCmd, SizeLen)) = ArgSize(m)
    /\ Field(m, ArgsEnd(m), SizeCrc) = Crc(Covered(m))
=============================================================================
