------------------------------- MODULE Parser -------------------------------
(***************************************************************************)
(* The message parser (lbp/include/lbp/parser.h), over its ring buffer.    *)
(* feed() and clear() are one action each; parseNext() runs its loop one   *)
(* iteration at a time, as ParseStep, until it returns.  One thread calls  *)
(* all three, so nothing is fed while parseNext() runs.                    *)
(***************************************************************************)
EXTENDS RingBuffer, Frames

CONSTANT Piece(_)         \* the pieces that may be fed next, after a stream

(* Whatever bytes are read as a size, the size is a number. *)
ASSUME LenOfIsNat ==
    \A s \in [1..SizeLen -> Byte \cup {Garbage}] : LenOf(s) \in Nat

(* static_assert(Capacity >= size_file_msg), parser.h:38. *)
ASSUME HoldsLargestMessage == Capacity >= MaxMsg

VARIABLES pstate,         \* m_state
          header,         \* m_header: the last SizeMagic bytes shifted in
          txid, cmd, size,\* m_txid_buffer, m_cmd_buffer, m_len_buffer
          argLen, args,   \* m_payload: its size, its bytes once read
          sizeRejections, crcRejections,
          call,           \* where the caller is: see below
          stream,         \* ghost: every byte accepted since clear()
          delivered       \* ghost: every message returned since clear()

(* "ready": parseNext() may find a message.  "parsing": inside parseNext().*)
(* "drained": the last parseNext() returned false, nothing was fed since.  *)
Calls  == {"ready", "parsing", "drained"}
States == {"HeaderSync", "TxId", "Cmd", "Size", "Args", "Checksum"}

fieldVars   == <<txid, cmd, size, argLen, args>>
rejectVars  == <<sizeRejections, crcRejections>>
ghostVars   == <<stream, delivered>>
parserVars  == <<pstate, header, fieldVars, rejectVars, call, ghostVars>>
vars        == <<ringVars, parserVars>>

NoHeader == [k \in 1..SizeMagic |-> 0]

Init == /\ RingInit
        /\ pstate = "HeaderSync"
        /\ header = NoHeader
        /\ txid = <<>> /\ cmd = <<>> /\ size = <<>>
        /\ argLen = 0 /\ args = <<>>
        /\ sizeRejections = 0 /\ crcRejections = 0
        /\ call = "ready"
        /\ stream = <<>> /\ delivered = <<>>

-----------------------------------------------------------------------------
(* feed(): take what fits, and tell the caller how much that was. *)
Clamp(chunk) == IF Len(chunk) <= freeSpace THEN chunk
                ELSE SubSeq(chunk, 1, freeSpace)

Feed(chunk) == /\ call # "parsing"
               /\ chunk \in Seq(Byte)
               /\ Write(Clamp(chunk))
               /\ stream' = stream \o Clamp(chunk)
               /\ call' = IF freeSpace = 0 THEN call ELSE "ready"
               /\ UNCHANGED <<pstate, header, fieldVars, rejectVars, delivered>>

Clear == /\ call # "parsing"
         /\ RingClear
         /\ header' = NoHeader
         /\ pstate' = "HeaderSync"
         /\ sizeRejections' = 0 /\ crcRejections' = 0
         /\ call' = "ready"
         /\ stream' = <<>> /\ delivered' = <<>>
         /\ UNCHANGED fieldVars

ParseNext == /\ call # "parsing"
             /\ call' = "parsing"
             /\ UNCHANGED <<ringVars, pstate, header, fieldVars, rejectVars,
                            ghostVars>>

-----------------------------------------------------------------------------
(* One iteration of the loop of parseNext(), per state of the parser.      *)

Running(s) == call = "parsing" /\ ~empty /\ pstate = s

(* The n bytes this state waits for are there: read them. *)
Got(n) == CanRead(n) /\ Consume(n)

Shifted == Append(Tail(header), data[Slot(tail)])

SyncNoMatch == /\ Running("HeaderSync")
               /\ Shifted # Magic
               /\ Got(1)
               /\ header' = Shifted
               /\ UNCHANGED <<pstate, fieldVars, rejectVars, call, ghostVars>>

(* readByte() and setBookmark() in one step: the mark is just behind the magic. *)
SyncMatch == /\ Running("HeaderSync")
             /\ Shifted = Magic
             /\ header' = Shifted
             /\ tail' = tail + 1
             /\ mark' = tail'
             /\ pstate' = "TxId"
             /\ UNCHANGED <<data, head, fieldVars, rejectVars, call, ghostVars>>

ReadTxId == /\ Running("TxId")
            /\ Got(SizeTxid)
            /\ txid' = Peek(SizeTxid)
            /\ pstate' = "Cmd"
            /\ UNCHANGED <<header, cmd, size, argLen, args, rejectVars, call,
                           ghostVars>>

ReadCmd == /\ Running("Cmd")
           /\ Got(SizeCmd)
           /\ cmd' = Peek(SizeCmd)
           /\ pstate' = "Size"
           /\ UNCHANGED <<header, txid, size, argLen, args, rejectVars, call,
                          ghostVars>>

(* Mutant: the size is compared with the buffer, not with a message. *)
MutSizeIsLegal(n) == n <= Capacity

SizeIsLegal(n) == n <= MaxArgs

ReadSize == /\ Running("Size")
            /\ SizeIsLegal(LenOf(Peek(SizeLen)))
            /\ Got(SizeLen)
            /\ size' = Peek(SizeLen)
            /\ argLen' = LenOf(Peek(SizeLen))
            /\ pstate' = "Args"
            /\ UNCHANGED <<header, txid, cmd, args, rejectVars, call, ghostVars>>

(* Mutant: go on behind the rejected bytes. *)
MutGiveUp == /\ ClearBookmark
             /\ header' = NoHeader
             /\ pstate' = "HeaderSync"
             /\ UNCHANGED <<call, ghostVars>>

(* Back to just behind the magic of the message that is no message.  The   *)
(* read of the current field is undone with the others.                    *)
GiveUp == /\ Rewind
          /\ header' = NoHeader
          /\ pstate' = "HeaderSync"
          /\ UNCHANGED <<call, ghostVars>>

RejectSize == /\ Running("Size")
              /\ CanRead(SizeLen)
              /\ ~SizeIsLegal(LenOf(Peek(SizeLen)))
              /\ size' = Peek(SizeLen)
              /\ sizeRejections' = sizeRejections + 1
              /\ GiveUp
              /\ UNCHANGED <<txid, cmd, argLen, args, crcRejections>>

ReadArgs == /\ Running("Args")
            /\ Got(argLen)
            /\ args' = Peek(argLen)
            /\ pstate' = "Checksum"
            /\ UNCHANGED <<header, txid, cmd, size, argLen, rejectVars, call,
                           ghostVars>>

(* Mutant: the transaction id is left out of the checksum. *)
MutChecksumMatches == Peek(SizeCrc) = Crc(cmd \o size \o args)

ChecksumMatches == Peek(SizeCrc) = Crc(txid \o cmd \o size \o args)

(* parseNext() returns true.  m_header keeps the magic. *)
Accept == /\ Running("Checksum")
          /\ CanRead(SizeCrc)
          /\ ChecksumMatches
          /\ tail' = tail + SizeCrc
          /\ mark' = NoMark
          /\ pstate' = "HeaderSync"
          /\ call' = "ready"
          /\ delivered' = Append(delivered,
                                 [txid |-> txid, cmd |-> cmd, args |-> args])
          /\ UNCHANGED <<data, head, header, fieldVars, rejectVars, stream>>

RejectChecksum == /\ Running("Checksum")
                  /\ CanRead(SizeCrc)
                  /\ ~ChecksumMatches
                  /\ crcRejections' = crcRejections + 1
                  /\ GiveUp
                  /\ UNCHANGED <<fieldVars, sizeRejections>>

(* The bytes the current state asks for. *)
Need == [HeaderSync |-> 1, TxId |-> SizeTxid, Cmd |-> SizeCmd, Size |-> SizeLen,
         Args |-> argLen, Checksum |-> SizeCrc][pstate]

(* Mutant: too few bytes end the switch and not the loop around it. *)
MutWaitForMore == /\ call = "parsing"
                  /\ empty \/ ~CanRead(Need)
                  /\ call' = IF empty THEN "drained" ELSE "parsing"
                  /\ UNCHANGED <<ringVars, pstate, header, fieldVars, rejectVars,
                                 ghostVars>>

(* parseNext() returns false, keeping its state for the next call. *)
WaitForMore == /\ call = "parsing"
               /\ empty \/ ~CanRead(Need)
               /\ call' = "drained"
               /\ UNCHANGED <<ringVars, pstate, header, fieldVars, rejectVars,
                              ghostVars>>

ParseStep == \/ SyncNoMatch
             \/ SyncMatch
             \/ ReadTxId
             \/ ReadCmd
             \/ ReadSize
             \/ RejectSize
             \/ ReadArgs
             \/ Accept
             \/ RejectChecksum
             \/ WaitForMore

Next == \/ \E chunk \in Piece(stream) : Feed(chunk)
        \/ Clear
        \/ ParseNext
        \/ ParseStep

Spec == Init /\ [][Next]_vars

(* parseNext() runs to its end; and after every feed() the callers call it *)
(* until it returns false (firmwaresim.cpp:34, :71-77).                    *)
FairSpec == Spec /\ WF_vars(ParseStep) /\ WF_vars(ParseNext /\ call = "ready")

-----------------------------------------------------------------------------
TypeOK == /\ RingTypeOK
          /\ pstate \in States
          /\ call \in Calls
          /\ argLen \in 0..MaxArgs
          /\ sizeRejections \in Nat
          /\ crcRejections \in Nat
          /\ header \in Seq(Byte \cup {Garbage, 0})
         /\ Len(header) = SizeMagic

(* The bookmark is held exactly while a message is being read, and what    *)
(* was read behind it is the fields before the current one.                *)
Behind == [HeaderSync |-> 0, TxId |-> 0, Cmd |-> SizeTxid,
           Size |-> SizeTxid + SizeCmd, Args |-> SizePrefix,
           Checksum |-> SizePrefix + argLen][pstate]

MarkTracksState == IF pstate = "HeaderSync" THEN mark = NoMark
                   ELSE mark # NoMark /\ tail = mark + Behind

(* parseNext() returns false only while the current field is incomplete. *)
DrainedWaits == call = "drained" => empty \/ available < Need

(* The inductive invariant of the parser. *)
ParserInv == TypeOK /\ RingBounded /\ MarkTracksState /\ DrainedWaits

(* A drained parser always has room: the bytes of an unfinished message    *)
(* never fill the buffer, so rxCallback never drops input and a job file   *)
(* never stops feeding before its end (firmwaresim.cpp:38-41, :74).        *)
NeverWedged == call = "drained" => freeSpace > 0

Stream == INSTANCE FrameStream

(* The parser implements FrameStream: which messages come out depends on   *)
(* the bytes alone, never on where feed() was cut; no message is lost      *)
(* behind a false magic, delivered twice, or out of order                  *)
(* (parser.h:50-130).                                                      *)
ImplementsFrameStream == Stream!Spec

(* When parseNext() has returned false, every message that is complete in  *)
(* the bytes fed so far has been delivered.                                *)
DrainedIsComplete == call = "drained" => delivered = Stream!FramesFrom(stream)
=============================================================================
