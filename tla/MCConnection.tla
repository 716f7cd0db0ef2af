---------------------------- MODULE MCConnection ----------------------------
(* Streams of up to four bytes over the two bytes of a line end and the two   *)
(* that a SOCKS reply is checked for, with one that is no UTF-8; the reply is *)
(* scaled down to three bytes and size_t to 0..7.                             *)
EXTENDS Connection

MCByte == {0, 10, 13, 90, 255}
MCNotUtf8 == {255}
MCVectorSizes == {0, 1, 3}
=============================================================================
