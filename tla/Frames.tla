------------------------------- MODULE Frames -------------------------------
(***************************************************************************)
(* The message layout of LBP (lbp/include/lbp/spec.h:17-47):               *)
(*        magic | txid | cmd | size | args | checksum                      *)
(* Field sizes, the magic and the checksum are parameters.                 *)
(***************************************************************************)
EXTENDS Integers, Sequences

CONSTANTS Magic,       \* magic_start, as a sequence of bytes
          SizeTxid,    \* size_txid
          SizeCmd,     \* size_cmd
          SizeLen,     \* size_len
          SizeCrc,     \* size_crc
          MaxArgs,     \* size_file_args: the longest argument block accepted
          LenOf(_),    \* readBE16 of the size field
          Crc(_)       \* the checksum of a byte sequence, as SizeCrc bytes

ASSUME SizesArePositive ==
    /\ SizeTxid \in Nat \ {0} /\ SizeCmd \in Nat \ {0}
    /\ SizeLen \in Nat \ {0} /\ SizeCrc \in Nat \ {0}
    /\ MaxArgs \in Nat

SizeMagic == Len(Magic)

ASSUME MagicIsSequence == SizeMagic \in Nat \ {0} /\ Magic \in Seq(Nat)

(* The code resets m_header to 0, or leaves a whole magic in it, and goes  *)
(* on shifting bytes in.  That is sound because no proper prefix of "DRGN" *)
(* is also a suffix of it, and "DRGN" starts with no zero byte.            *)
ASSUME MagicHasNoBorder ==
    /\ Magic[1] # 0
    /\ \A n \in 1..SizeMagic-1 :
          SubSeq(Magic, 1, n) # SubSeq(Magic, SizeMagic - n + 1, SizeMagic)

SizePrefix == SizeTxid + SizeCmd + SizeLen      \* the fields before the args

(* size_file_msg: the whole of the largest message. *)
MaxMsg == SizeMagic + SizePrefix + MaxArgs + SizeCrc
=============================================================================
