--------------------------- MODULE MCConnections ----------------------------
(***************************************************************************)
(* Connections for TLC: a handshake, then a move of three pieces, which    *)
(* differs from session to session.                                        *)
(***************************************************************************)
EXTENDS Connections

MCEffectless == {"handshake"}

MCRequestOf(s, n) ==
    [op |-> IF n <= 1 THEN "handshake" ELSE IF s % 2 = 0 THEN "move_rel" ELSE "dwell",
     txid |-> n, size |-> IF n <= 1 THEN 0 ELSE 2, session |-> s]
=============================================================================
