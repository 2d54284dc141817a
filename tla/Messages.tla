------------------------------ MODULE Messages ------------------------------
(***************************************************************************)
(* The way of a message through the library: it is built, queued, popped,  *)
(* sent, decoded by the parser of the other side, and read; a request may  *)
(* be answered or rejected while it is read.  Each side does one of these  *)
(* at a time, and both use the same classes.  What becomes of the bytes on *)
(* the wire is what module Parser is about; here they arrive.              *)
(***************************************************************************)
EXTENDS Payload, Queue, Checksum

CONSTANTS Commands, TxIds,   \* what senders put in a header
          ArgSizes,          \* of the messages that are built by hand
          Values(_),         \* the values written for a type
          Chunks             \* and the data written as it is

(* Message(cmd, arg_size) asserts that the message fits, and what it       *)
(* writes as the size of the arguments is what a parser reads.             *)
MostArgs == Capacity - SizeMin

ASSUME MessagesAssumption ==
    /\ SizeNackArgs <= MostArgs /\ ArgSizes \subseteq 0..MostArgs
    /\ \A n \in 0..MostArgs : LenOf(WriteBE(n, SizeLen)) = n
    /\ \A type \in Types : Values(type) \subseteq RangeOf(type)
    /\ \A bytes \in Chunks : bytes \in Seq(RangeOf("u8"))
    /\ Commands \cup {NackCmd} \subseteq RangeOf("u16") /\ SizeCmd = Width["u16"]
    /\ CmdCapacity \in Nat

VARIABLES phase,             \* "idle", "building" or "reading"
          msg,               \* the message that is built, a local variable
          payload,           \* the payload that is read
          got,               \* history: what its reader got
          overflowed         \* OutputQueue::m_overflowed

vars == <<phase, msg, payload, got, overflowed, queueVars>>

Init == /\ phase = "idle" /\ msg = Empty /\ payload = NoPayload /\ got = <<>>
        /\ overflowed = FALSE
        /\ QueueInit

-----------------------------------------------------------------------------
(* Building. *)
Begin(m) == /\ phase' = "building" /\ msg' = m
            /\ payload' = NoPayload /\ got' = <<>>
            /\ UNCHANGED <<overflowed, queueVars>>

New == /\ phase = "idle"
       /\ \E cmd \in Commands, n \in ArgSizes : Begin(Construct(cmd, n))

(* Message(cmd, arg_size, arg) *)
NewWithArg == /\ phase = "idle"
              /\ \E cmd \in Commands, type \in Types :
                    \E v \in Values(type) :
                        Begin(WriteArg(Construct(cmd, Width[type]), type, v))

(* OutputQueue::respond() and nack(), from the handler of a request.       *)
Answer == /\ phase = "reading"
          /\ \/ Begin(ResponseTo(payload, 0))
             \/ \E v \in Values("i32") : Begin(WriteArg(ResponseTo(payload, 4), "i32", v))
             \/ Begin(NackTo(payload, 513, 0))

Build(m) == phase = "building" /\ msg' = m
            /\ UNCHANGED <<phase, payload, got, overflowed, queueVars>>

Write == \E type \in Types : \E v \in Values(type) : Build(WriteArg(msg, type, v))

Chunk == \E bytes \in Chunks : Build(WriteBytes(msg, bytes))

Stamp == \E txid \in TxIds : Build(SetTxid(msg, txid))

Finish == Build(Finalize(msg))

-----------------------------------------------------------------------------
(* OutputQueue::push() of a message that its builder has filled.           *)
Push == /\ phase = "building" /\ phase' = "idle"
        /\ Complete(msg)
        /\ \/ PushItem(msg) /\ UNCHANGED overflowed
           \/ FreeSpace = 0 /\ overflowed' = TRUE /\ UNCHANGED queueVars
        /\ msg' = Empty
        /\ UNCHANGED <<payload, got>>

Deliver == /\ phase = "idle" /\ phase' = "reading"
           /\ PopItem
           /\ msg' = Front /\ payload' = Decode(Front)
           /\ UNCHANGED <<got, overflowed>>

Clear == phase = "idle" /\ ClearItems /\ UNCHANGED <<phase, msg, payload, got, overflowed>>

-----------------------------------------------------------------------------
(* Reading: a handler knows the types of the arguments, and asks for all   *)
(* or some of those that are left, or for more than there are.             *)
TypesOf(fields) == [k \in DOMAIN fields |-> fields[k][1]]

Left == TypesOf(SubSeq(payload.fields, Len(got) + 1, Len(payload.fields)))

Asked == {SubSeq(Left, 1, n) : n \in 1..Len(Left)} \cup {Append(Left, "u8")}

Read(types) == /\ phase = "reading"
               /\ LET r == ReadArgs(payload, types)
                  IN  /\ payload' = r.payload
                      /\ got' = IF r.ok THEN got \o r.values ELSE got
               /\ UNCHANGED <<phase, msg, overflowed, queueVars>>

(* A copy of the payload, to be queued as a command, is read from its      *)
(* beginning. *)
Copy == /\ phase = "reading" /\ Len(payload.args) <= CmdCapacity
        /\ payload' = ToCmd(payload) /\ got' = <<>>
        /\ UNCHANGED <<phase, msg, overflowed, queueVars>>

Done == /\ phase = "reading" /\ phase' = "idle"
        /\ msg' = Empty /\ payload' = NoPayload /\ got' = <<>>
        /\ UNCHANGED <<overflowed, queueVars>>

Next == \/ New \/ NewWithArg \/ Answer
        \/ Write \/ Chunk \/ Stamp \/ Finish
        \/ Push \/ Deliver \/ Clear
        \/ \E types \in Asked : Read(types)
        \/ Copy \/ Done

Spec == Init /\ [][Next]_vars

-----------------------------------------------------------------------------
(* Whatever calls in whatever order made a message complete, it is what    *)
(* the wire was promised: a number that is set last, arguments that are    *)
(* zero-filled and a refused write leave its checksum right                *)
(* (Message::complete, "well-formed, complete with checksum, and safe to   *)
(* send").                                                                 *)
CompleteIsSound == Complete(msg) => WellFormed(msg)

(* The other side reads what was written, value by value and type by type, *)
(* negative numbers included, though it asks in vain for more in between;  *)
(* what is left of the arguments is what it has not read                   *)
(* (Payload::readArgs, beio.cpp).                                          *)
TotalWidth(types) ==
    LET sum[k \in 0..Len(types)] == IF k = 0 THEN 0 ELSE sum[k - 1] + Width[types[k]]
    IN  sum[Len(types)]

ReadsWhatWasWritten == /\ got = SubSeq(payload.fields, 1, Len(got))
                       /\ Available(payload) = TotalWidth(Left)

(* The checksum that the code shifts out bit by bit is the remainder of    *)
(* the division that its author had in mind (checksum.h:9-16), for all    *)
(* the messages that are built here.                                       *)
ChecksumIsRemainder ==
    Complete(msg) => Field(msg, ArgsEnd(msg), SizeCrc) = ReferenceCrc(Covered(msg))

Abstract == INSTANCE BoundedQueue
                WITH Cap <- QueueCapacity, input <- msg, q <- Items, output <- msg

(* The array with two indices is a queue, though the indices wrap: what is *)
(* popped is the oldest message that was pushed, and a message is dropped  *)
(* only when there is no room, and never in silence (queue.h:37-81,        *)
(* OutputQueue::push).                                                     *)
ImplementsQueue == Abstract!Spec
=============================================================================
