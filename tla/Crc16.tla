------------------------------- MODULE Crc16 -------------------------------
(***************************************************************************)
(* The CRC16 of Communication::Client (src/src/com_client.cpp), and the    *)
(* remainder of a polynomial division that it is meant to be.              *)
(*                                                                         *)
(* A uint16_t or uint8_t is the set of its bits that are 1, bit 0 being    *)
(* the least significant: exclusive or is the symmetric difference.  A     *)
(* definition marked "Slip" is the next one with a mistake in it.          *)
(***************************************************************************)
EXTENDS Integers, Sequences, FiniteSets

CONSTANTS
  genpoly,    \* the generator polynomial, without its x^16
  Messages    \* bound: messages that are framed

Bits8 == 0 .. 7
Bits16 == 0 .. 15

(* The constructors pass no other than 0x1021 (com_client.hpp:148).         *)
ASSUME GeneratorAssumption == genpoly \subseteq Bits16
ASSUME GeneratorEnds == 0 \in genpoly
ASSUME MessagesAssumption == Messages \subseteq Seq(SUBSET Bits8)

Xor(a, b) == (a \ b) \cup (b \ a)
Shl(w, k) == {i + k : i \in w} \cap Bits16
Shr(w, k) == {i - k : i \in w} \cap Bits16

(* One entry of s_crctable: eight turns of the inner loop of mk_crctable.   *)
TableEntry(data) ==
  LET accum[i \in 0 .. 8] ==
        IF i = 0 THEN {}
        ELSE LET a == accum[i - 1]
                 d == Shl(data, 7 + i) IN
             IF 15 \in Xor(d, a) THEN Xor(Shl(a, 1), genpoly) ELSE Shl(a, 1)
  IN accum[8]

s_crctable == [data \in SUBSET Bits8 |-> TableEntry(data)]

NextAccum(acc, byte) == Xor(Shl(acc, 8), s_crctable[Xor(Shr(acc, 8), byte)])

Swapped(w) == Shr(w, 8) \cup Shl(w, 8)

Accumulated(buf) ==
  LET acc[i \in 0 .. Len(buf)] ==
        IF i = 0 THEN {} ELSE NextAccum(acc[i - 1], buf[i])
  IN acc[Len(buf)]

(* Slip: the bytes are not swapped.                                         *)
UnswappedCRC(buf) == Accumulated(buf)

CRC(buf) == Swapped(Accumulated(buf))

(* A uint16_t in memory, least significant byte first.                      *)
Stored(w) == <<w \cap Bits8, Shr(w, 8)>>

Loaded(buf) == buf[1] \cup Shl(buf[2], 8)

(* Slip: the computed CRC is kept in a uint8_t.                             *)
CheckLowByte(buffer) ==
  LET size == Len(buffer) IN
  CRC(SubSeq(buffer, 1, size - 2)) \cap Bits8 = buffer[size - 1]

(* check_CRC over the size asked for, at least 2.                           *)
check_CRC(buffer) ==
  LET size == Len(buffer) IN
  CRC(SubSeq(buffer, 1, size - 2)) = Loaded(SubSeq(buffer, size - 1, size))

(* What writeS(message, size, true) sends.                                  *)
Framed(message) == message \o Stored(CRC(message))

-----------------------------------------------------------------------------
(* The reference: a byte sequence as a polynomial over GF(2), the set of    *)
(* its exponents, and its remainder by long division.                       *)

Polynomial(buf) ==
  UNION {{8 * (Len(buf) - i) + b : b \in buf[i]} : i \in DOMAIN buf}
Remainder(p, degree) ==
  LET rem[d \in 15 .. degree] ==   \* what is left when exponents > d are gone
        IF d = degree THEN p
        ELSE LET r == rem[d + 1]
             IN IF d + 1 \in r THEN Xor(r, {d + 1} \cup {g + d - 15 : g \in genpoly}) ELSE r
  IN rem[15]
=============================================================================
