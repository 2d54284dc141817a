------------------------------ MODULE Payload -------------------------------
(***************************************************************************)
(* The decoded content of a message (lbp/include/lbp/payload.h) and its    *)
(* argument cursor.  A payload also remembers, for the properties only,    *)
(* what the sender wrote.                                                  *)
(***************************************************************************)
EXTENDS Message

CONSTANT CmdCapacity         \* CmdPayload::kCapacity

NoPayload == [cmd |-> 0, txid |-> NoTxid, args |-> <<>>, cursor |-> 0, fields |-> <<>>]

(* The number in these bytes, big-endian; at most 31 bits of it are a      *)
(* magnitude.                                                              *)
ReadBE(bytes, signed) ==
    LET top == IF signed /\ bytes[1] >= 128 THEN bytes[1] - 256 ELSE bytes[1]
        value[k \in 1..Len(bytes)] == IF k = 1 THEN top ELSE value[k - 1] * 256 + bytes[k]
    IN  value[Len(bytes)]

Unsigned(bytes) == ReadBE(bytes, FALSE)

(* What the parser makes of a message whose checksum is right: reset(),    *)
(* and its arguments. *)
Decode(m) ==
    [cmd |-> Unsigned(Field(m, SizeMagic + SizeTxid, SizeCmd)),
     txid |-> Unsigned(Field(m, SizeMagic, SizeTxid)),
     args |-> SubSeq(m.bytes, SizeHeader + 1, ArgsEnd(m)),
     cursor |-> 0,
     fields |-> m.fields]

Available(p) == IF p.cursor >= Len(p.args) THEN 0 ELSE Len(p.args) - p.cursor

(* readArg(): the value, or nothing and the cursor stays where it is. *)
CanReadArg(p, type) == Available(p) >= Width[type]

ArgAt(p, type) == ReadBE(SubSeq(p.args, p.cursor + 1, p.cursor + Width[type]),
                         type \in {"i16", "i32"})

NextArg(r, type) ==
    IF r.ok /\ CanReadArg(r.payload, type)
    THEN [payload |-> [r.payload EXCEPT !.cursor = @ + Width[type]],
          values |-> Append(r.values, <<type, ArgAt(r.payload, type)>>), ok |-> TRUE]
    ELSE [r EXCEPT !.ok = FALSE]

(* readArg() for each of these types, until one fails. *)
ReadEach(p, types) ==
    LET read[k \in 0..Len(types)] ==
            IF k = 0 THEN [payload |-> p, values |-> <<>>, ok |-> TRUE]
            ELSE NextArg(read[k - 1], types[k])
    IN  read[Len(types)]

(* Mutant: the cursor stays behind what could be read. *)
MutReadArgs(p, types) == ReadEach(p, types)

(* readArgs(): a failure takes the cursor back to where it was.            *)
ReadArgs(p, types) == LET r == ReadEach(p, types)
                      IN  IF r.ok THEN r ELSE [r EXCEPT !.payload = p]

(* toCmd(), of arguments whose size was checked before. *)
ToCmd(p) == [p EXCEPT !.args = SubSeq(@, 1, IF Len(@) < CmdCapacity THEN Len(@) ELSE CmdCapacity),
                      !.cursor = 0]
=============================================================================
