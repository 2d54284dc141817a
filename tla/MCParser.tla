------------------------------ MODULE MCParser ------------------------------
(***************************************************************************)
(* The parser on concatenations of the things a serial line can carry:     *)
(* whole messages, stray bytes, false and truncated headers, corrupted     *)
(* messages, and a message whose arguments contain a whole magic; each     *)
(* stream cut into pieces in every way.                                    *)
(***************************************************************************)
EXTENDS Parser

CONSTANTS MaxPiece,      \* the longest piece fed at once
          MaxItems       \* items in a stream

MCByte  == 0..2
MCMagic == <<1, 2>>

(* 1 is the legal maximum of two bytes; 2 is a size that is rejected, as   *)
(* large as the buffer. *)
MCLenOf(s) == CASE s[1] = 0 -> 0
                [] s[1] = 1 -> 2
                [] s[1] = 2 -> 8
                [] OTHER    -> 0

MCCrc(s) == <<(s[1] + s[2] + s[Len(s)]) % 3>>

(* A message, with a checksum that is off by bad. *)
Msg(t, c, sz, as, bad) ==
    LET body == <<t, c, sz>> \o as
    IN  MCMagic \o body \o <<(MCCrc(body)[1] + bad) % 3>>

Items == { Msg(0, 1, 0, <<>>, 0),           \* a message without arguments
           Msg(1, 0, 1, <<1, 2>>, 0),       \* one with a magic in its arguments
           Msg(1, 2, 1, <<1, 2>>, 1),       \* a corrupted one, magics inside
           <<1, 2, 0, 0, 2>>,               \* a size that is too large
           <<1, 2>>,                        \* a magic with nothing behind it
           <<1>>, <<0>> }                   \* stray bytes

Wire == LET concats[n \in 0..MaxItems] ==
                IF n = 0 THEN {<<>>} ELSE {i \o s : i \in Items, s \in concats[n - 1]}
        IN  concats[MaxItems]

MCPiece(s) ==
    LET from == Len(s)
        left == {w \in Wire : from < Len(w) /\ SubSeq(w, 1, from) = s}
    IN  UNION {{SubSeq(w, from + 1, to) :
                    to \in (from+1)..(IF from + MaxPiece <= Len(w)
                                      THEN from + MaxPiece ELSE Len(w))} : w \in left}

(* parseNext() returns: rewinding does not make it loop for ever           *)
(* (parser.h:52, :88-90, :119-121).                                        *)
ParseNextReturns == call = "parsing" ~> call # "parsing"
=============================================================================
