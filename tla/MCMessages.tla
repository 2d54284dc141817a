----------------------------- MODULE MCMessages -----------------------------
(* Messages with the sizes, the magic and the checksum of the protocol, of *)
(* up to 8 bytes of arguments.                                             *)
EXTENDS Messages

MCMagic == <<68, 82, 71, 78>>

MCChunks == {<<200, 200>>}

MCValues(type) == [u8 |-> {200}, u16 |-> {}, i16 |-> {-2}, i32 |-> {-65536}][type]
=============================================================================
