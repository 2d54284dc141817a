------------------------------ MODULE Checksum ------------------------------
(***************************************************************************)
(* The checksum of a message (lbp/src/checksum.cpp), bit by bit as the     *)
(* code computes it, and as the remainder of a division of polynomials     *)
(* over GF(2).  A word of 16 bits is the set of the bits that are 1, and a *)
(* polynomial the set of its exponents; both are added with Xor.           *)
(***************************************************************************)
EXTENDS Integers, Sequences, Loops

Xor(S, T) == (S \ T) \cup (T \ S)

BitsOf(b) == {i \in 0..7 : (b \div 2^i) % 2 = 1}

ByteOf(S) == LET v[i \in 0..8] == IF i = 0 THEN 0
                                  ELSE v[i - 1] + (IF i - 1 \in S THEN 2^(i - 1) ELSE 0)
             IN  v[8]

(* The k-th bit of the data, from 0: the low bit of a byte comes first. *)
BitAt(data, k) == (k % 8) \in BitsOf(data[(k \div 8) + 1])

-----------------------------------------------------------------------------
(* Mutant: 0x1021, the polynomial in its usual order. *)
MutPoly == {0, 5, 12}

Poly == {3, 10, 15}                    \* 0x8408

ShiftRight(crc) == {i - 1 : i \in crc \ {0}}

ShiftIn(crc, bit) == IF (0 \in crc) # bit THEN Xor(ShiftRight(crc), Poly) ELSE ShiftRight(crc)

Register == SUBSET (0..15)

crc16_begin == 0..15

(* The inner loop: a byte, its low bit first. *)
ByteIn(b) ==
    [crc \in Register |->
       AfterLoop(8, crc, [i \in 1..8 |->
                            [c \in Register |-> ShiftIn(c, i - 1 \in BitsOf(b))]])]

crc16_update(crc, data) ==
    AfterLoop(Len(data), crc, [k \in 1..Len(data) |-> ByteIn(data[k])])

(* The complement, its bytes swapped, as the two bytes in a message.       *)
crc16_end(crc) == LET c == (0..15) \ crc
                  IN  <<ByteOf(c \cap (0..7)), ByteOf({i - 8 : i \in c \cap (8..15)})>>

crc16(data) == crc16_end(crc16_update(crc16_begin, data))

-----------------------------------------------------------------------------
(* x^16 + x^12 + x^5 + 1, with x^d for its highest power.                  *)
Generator(d) == {d, d - 4, d - 11, d - 16}

Eliminate(S, d) == IF d \in S THEN Xor(S, Generator(d)) ELSE S

(* The eight powers from d down. *)
EliminateByte(d) ==
    [S \in SUBSET Int |->
       AfterLoop(8, S, [i \in 1..8 |-> [T \in SUBSET Int |-> Eliminate(T, d + 1 - i)]])]

(* The data as a polynomial, its first 16 bits inverted, times x^16, and   *)
(* what is left of it after dividing by the generator.                     *)
Remainder(data) ==
    LET n == 8 * Len(data)
        dividend == Xor({n + 15 - k : k \in {j \in 0..(n - 1) : BitAt(data, j)}},
                        n..(n + 15))
    IN  AfterLoop(Len(data), dividend,
                  [k \in 1..Len(data) |-> EliminateByte(n + 23 - 8 * k)])

(* The register holds the remainder with its highest power in bit 0.       *)
ReferenceCrc(data) == crc16_end({15 - d : d \in Remainder(data)})
=============================================================================
