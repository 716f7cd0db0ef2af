----------------------------- MODULE Connection -----------------------------
(***************************************************************************)
(* The reads of a network_connection (connection.cpp): a byte stream from  *)
(* the other end, the streambuf m_input_buffer that partial reads fill, and *)
(* the operators >> that empty it.  A partial read takes whatever the       *)
(* system has ready, so every read may leave bytes in m_input_buffer that   *)
(* the next one must find there.  A connection made through a SOCKS 4 proxy *)
(* first reads the proxy's reply from the same stream.                      *)
(*                                                                         *)
(* Each read may end in a time out (see TimedIo for how) or in the end of  *)
(* the stream; the application may go on reading after either.  TLS is     *)
(* abstracted: the stream is the one the ssl layer delivers.               *)
(***************************************************************************)
EXTENDS Integers, Sequences

CONSTANTS
  Byte,          \* the bytes that the other end may send
  NotUtf8,       \* those that make the line they are in no UTF-8
  CR, LF,        \* the two bytes of a line end
  ReplyNull,     \* 0x00, the first byte of a SOCKS 4 reply
  ReplyGranted,  \* 0x5a, its second byte when the proxy grants the request
  ReplyLength,   \* the bytes of a SOCKS 4 reply, 8 in the code
  Chunk,         \* the "Large read chunk size" setting
  SizeMod,       \* one more than the largest size_t
  VectorSizes,   \* sizes of the vectors the application reads into
  MaxSent        \* bound on the bytes of one stream

ASSUME ConnectionAssumption ==
  /\ {CR, LF, ReplyNull, ReplyGranted} \subseteq Byte
  /\ NotUtf8 \subseteq Byte
  /\ ReplyLength \in Nat /\ ReplyLength >= 2
  /\ Chunk \in Nat \ {0}
  /\ MaxSent \in Nat
  /\ SizeMod \in Nat /\ SizeMod > MaxSent
  /\ VectorSizes \subseteq 0..(SizeMod - 1)

VARIABLES
  sent,      \* every byte the other end has written
  open,      \* whether the other end may still write
  wire,      \* bytes written and not yet read from the socket
  buffer,    \* m_input_buffer
  consumed,  \* every byte taken out for the application or the handshake
  op,        \* the read in progress
  result     \* how the last read ended

vars == <<sent, open, wire, buffer, consumed, op, result>>

-----------------------------------------------------------------------------
Take(s, k) == SubSeq(s, 1, k)
Drop(s, k) == SubSeq(s, k + 1, Len(s))
Least(m, n) == IF m <= n THEN m ELSE n

\* The places where s holds a line end.
LineEnds(s) == {i \in 1..(Len(s) - 1) : s[i] = CR /\ s[i + 1] = LF}

\* The difference of two size_t, which wraps below zero.
Difference(m, n) == IF n <= m THEN m - n ELSE m - n + SizeMod

\* Mutant: the difference is that of two signed integers.
LoopWant_signed(n, size) == Least(n - size, Chunk)

\* The argument of transfer_at_least in the loop that fills a vector of n
\* bytes: std::min(v.size() - m_input_buffer->size(), chunk), where 0 ends the
\* loop.
LoopWant(n, size) == Least(Difference(n, size), Chunk)

NoOp == [kind |-> "none", n |-> 0, want |-> 0, from |-> 0]
NoResult == [kind |-> "none", status |-> "none", value |-> <<>>]

Kinds == {"none", "socks", "line", "vector", "all"}
Failures == {"unexpected_eof", "socket_error", "not_utf8"}
Statuses == {"none", "ok"} \cup Failures

TypeOK ==
  /\ sent \in Seq(Byte) /\ Len(sent) <= MaxSent
  /\ open \in BOOLEAN
  /\ wire \in Seq(Byte)
  /\ buffer \in Seq(Byte)
  /\ consumed \in Seq(Byte)
  /\ op \in [kind : Kinds, n : Nat, want : Nat, from : Nat]
  /\ op.from <= Len(consumed)
  /\ op.kind \notin {"vector", "socks"} => op.want = 0
  /\ result \in [kind : Kinds, status : Statuses, value : Seq(Byte)]

\* A connection that is being made through a proxy has sent its request and
\* reads the reply; any other one is ready for its application.
Init ==
  /\ sent = <<>>
  /\ open = TRUE
  /\ wire = <<>>
  /\ buffer = <<>>
  /\ consumed = <<>>
  /\ op \in {NoOp, [NoOp EXCEPT !.kind = "socks", !.want = ReplyLength]}
  /\ result = NoResult

-----------------------------------------------------------------------------
(***************************************************************************)
(* The other end.                                                          *)
(***************************************************************************)

PeerSend(b) ==
  /\ open
  /\ Len(sent) < MaxSent
  /\ sent' = Append(sent, b)
  /\ wire' = Append(wire, b)
  /\ UNCHANGED <<open, buffer, consumed, op, result>>

PeerClose ==
  /\ open
  /\ open' = FALSE
  /\ UNCHANGED <<sent, wire, buffer, consumed, op, result>>

-----------------------------------------------------------------------------
(***************************************************************************)
(* The application starts a read.                                          *)
(***************************************************************************)

\* The constructor of a connection whose proxy refused never returns.
Usable == op.kind = "none" /\ ~(result.kind = "socks" /\ result.status # "ok")

StartLine ==
  /\ Usable
  /\ op' = [NoOp EXCEPT !.kind = "line"]
  /\ result' = NoResult
  /\ UNCHANGED <<sent, open, wire, buffer, consumed>>

StartVector(n) ==
  /\ Usable
  /\ op' = [NoOp EXCEPT !.kind = "vector", !.n = n, !.want = LoopWant(n, Len(buffer))]
  /\ result' = NoResult
  /\ UNCHANGED <<sent, open, wire, buffer, consumed>>

\* Mutant: the bytes left in m_input_buffer by earlier reads are forgotten.
StartAll_forgetBuffer ==
  /\ Usable
  /\ op' = [NoOp EXCEPT !.kind = "all", !.from = Len(consumed)]
  /\ result' = NoResult
  /\ buffer' = <<>>
  /\ UNCHANGED <<sent, open, wire, consumed>>

\* Read everything: what m_input_buffer holds is moved out before the socket
\* is read, straight into the application's own streambuf.
StartAll ==
  /\ Usable
  /\ op' = [NoOp EXCEPT !.kind = "all", !.from = Len(consumed)]
  /\ result' = NoResult
  /\ consumed' = consumed \o buffer
  /\ buffer' = <<>>
  /\ UNCHANGED <<sent, open, wire>>

-----------------------------------------------------------------------------
(***************************************************************************)
(* Partial reads, and the ways a read is cut short.                        *)
(***************************************************************************)

\* The read in progress is waiting for the socket.
Waiting ==
  CASE op.kind = "line" -> LineEnds(buffer) = {}
    [] op.kind \in {"vector", "socks"} -> op.want > 0
    [] op.kind = "all" -> TRUE
    [] OTHER -> FALSE

\* Mutant: the vector is filled with one transfer_at_least instead of a loop.
WantAfter_noLoop(k) == IF k < op.want THEN op.want - k ELSE 0

\* What transfer_at_least still asks for after k more bytes; once it has got
\* enough the loop around it goes round again.
WantAfter(k) ==
  CASE k < op.want -> op.want - k
    [] k >= op.want /\ op.kind = "vector" -> LoopWant(op.n, Len(buffer) + k)
    [] OTHER -> 0

Receive(k) ==
  /\ Waiting
  /\ wire' = Drop(wire, k)
  /\ IF op.kind = "all"
       THEN /\ consumed' = consumed \o Take(wire, k)
            /\ UNCHANGED <<buffer, op>>
       ELSE /\ buffer' = buffer \o Take(wire, k)
            /\ op' = [op EXCEPT !.want = WantAfter(k)]
            /\ UNCHANGED consumed
  /\ UNCHANGED <<sent, open, result>>

Ends(status, value) ==
  /\ op' = NoOp
  /\ result' = [kind |-> op.kind, status |-> status, value |-> value]

\* handle_error() throws; reading everything ignores the error and returns
\* what there is.
CutShort(status) ==
  /\ Waiting
  /\ IF op.kind = "all"
       THEN Ends("ok", Drop(consumed, op.from))
       ELSE Ends(status, <<>>)
  /\ UNCHANGED <<sent, open, wire, buffer, consumed>>

Eof     == wire = <<>> /\ ~open /\ CutShort("unexpected_eof")
TimeOut == CutShort("socket_error")

-----------------------------------------------------------------------------
(***************************************************************************)
(* A read that has what it asked for.                                      *)
(***************************************************************************)

Consume(k) ==
  /\ consumed' = consumed \o Take(buffer, k)
  /\ buffer' = Drop(buffer, k)
  /\ UNCHANGED <<sent, open, wire>>

Utf8(line) == \A i \in 1..Len(line) : line[i] \notin NotUtf8

\* The bytes up to the first line end at i are the line, and the two bytes
\* of the line end are discarded.  They have left the buffer when the overload
\* for a utf8_string refuses the line; the one for a std::string takes any.
FinishLine(i) ==
  /\ op.kind = "line"
  /\ \A j \in LineEnds(buffer) : i <= j
  /\ \/ Ends("ok", Take(buffer, i - 1))
     \/ ~Utf8(Take(buffer, i - 1)) /\ Ends("not_utf8", <<>>)
  /\ Consume(i + 1)

FinishVector ==
  /\ op.kind = "vector"
  /\ op.want = 0
  /\ Ends("ok", Take(buffer, op.n))
  /\ Consume(op.n)

\* The proxy's reply: two bytes are looked at and the others discarded.
FinishSocks ==
  /\ op.kind = "socks"
  /\ op.want = 0
  /\ Ends(IF buffer[1] = ReplyNull /\ buffer[2] = ReplyGranted
            THEN "ok" ELSE "socket_error", <<>>)
  /\ Consume(ReplyLength)

-----------------------------------------------------------------------------
Peer == (\E b \in Byte : PeerSend(b)) \/ PeerClose

Application ==
  \/ StartLine
  \/ \E n \in VectorSizes : StartVector(n)
  \/ StartAll

Reading ==
  \/ \E k \in 1..Len(wire) : Receive(k)
  \/ Eof
  \/ TimeOut
  \/ \E i \in LineEnds(buffer) : FinishLine(i)
  \/ FinishVector
  \/ FinishSocks

Next == Peer \/ Application \/ Reading

Spec == Init /\ [][Next]_vars

-----------------------------------------------------------------------------
(***************************************************************************)
(* Properties.                                                             *)
(***************************************************************************)

\* Nothing is lost, duplicated or reordered, whatever the mix of reads, their
\* over-reads and their failures: what was taken out, what m_input_buffer
\* holds and what is still in the socket are together what was sent.
NothingLost == consumed \o buffer \o wire = sent

\* A read that takes a number of bytes out of the buffer finds them there: the
\* loops around the partial reads never end short of what was asked for.
FinishedReadHasItsBytes ==
  op.want = 0 =>
    /\ op.kind = "vector" => Len(buffer) >= op.n
    /\ op.kind = "socks" => Len(buffer) >= ReplyLength

\* An application that goes on after a read has failed finds the stream where it
\* can: a time out and the end of the stream take nothing, and a line that was
\* refused for not being UTF-8 is taken with its end, so that the next read starts
\* at the next line.
FailureTakesALineAtMost ==
  [][result' # result /\ result'.status \in Failures /\ result'.kind # "socks" =>
       \/ result'.status # "not_utf8" /\ UNCHANGED <<buffer, consumed>>
       \/ \E k \in 1..Len(buffer) :
            /\ consumed' = consumed \o Take(buffer, k) /\ buffer' = Drop(buffer, k)
            /\ LineEnds(Take(buffer, k)) = {k - 1}
            /\ ~Utf8(Take(buffer, k - 2))]_vars

\* The stream that the application reads implements the abstract one.
Stream == INSTANCE FifoStream WITH Item <- Byte, received <- consumed
ImplementsFifoStream == Stream!Spec

\* The header's "read into the vector": when the bytes that a vector needs have
\* all arrived in m_input_buffer the read does not end in an exception.
BufferedVectorIsRead ==
  [][op.kind = "vector" /\ Len(buffer) >= op.n
       => result'.status \notin Failures]_vars
=============================================================================
