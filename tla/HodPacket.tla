----------------------------- MODULE HodPacket -----------------------------
(***************************************************************************)
(* The size sequences of the hod packet protocol: how out_packet writes    *)
(* the size of a packet (packet.cpp) and how decoder reads it back         *)
(* (decoder.hpp).  A small size is its own byte; a larger one is a marker  *)
(* byte that says how many digits follow, most significant first.          *)
(*                                                                         *)
(* The three numbers of the format are constants, so that the same         *)
(* definitions can be model checked with small ones.                       *)
(***************************************************************************)
EXTENDS Integers, Sequences

CONSTANTS
  Radix,   \* the number of bytes, 0x100
  Small,   \* sizes below this are their own byte, 0x80
  Marker   \* marker bytes are this plus the number of digits, 0xf8

ASSUME PacketAssumption ==
  /\ Radix \in Nat /\ Small \in Nat /\ Marker \in Nat
  /\ 0 < Small /\ Small <= Marker /\ Marker + 2 < Radix

Octet == 0..(Radix - 1)

\* The sizes that out_packet can send; it throws not_implemented for others.
Sendable(s) == s < Radix * Radix

\* out_packet::size_sequence for a sendable size.
SizeSequence(s) ==
  CASE s < Small             -> <<s>>
    [] Small <= s /\ s < Radix -> <<Marker + 1, s>>
    [] OTHER                 -> <<Marker + 2, s \div Radix, s % Radix>>

\* decoder::read_size: the digits a first byte announces, whether it is a
\* size sequence at all, and the size so far after one more digit.
Digits(first) == IF first > Marker THEN first - Marker ELSE 0
IsSize(first) == first < Small \/ first > Marker
AddDigit(size, digit) == size * Radix + digit

\* The size that the decoder makes of a whole size sequence.
ReadSize(bytes) ==
  CASE Digits(bytes[1]) = 0 -> bytes[1]
    [] Digits(bytes[1]) = 1 -> AddDigit(0, bytes[2])
    [] OTHER                -> AddDigit(AddDigit(0, bytes[2]), bytes[3])
=============================================================================
