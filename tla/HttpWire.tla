------------------------------ MODULE HttpWire ------------------------------
(***************************************************************************)
(* The network_connections between HTTP user agents and the HTTP server,   *)
(* in units of what the two parsers tell apart: a request line, a status   *)
(* line, the header block, a chunk size line, the line end after a chunk,  *)
(* and bytes of a body.  Module Connection has the reads themselves; here  *)
(* they matter for what one read leaves in the input buffer for the next.  *)
(***************************************************************************)
EXTENDS Integers, Sequences

CONSTANT Conns   \* the connections that clients make to the server

VARIABLES
  wire,   \* wire[e][c]: what is on its way to end e of connection c
  buf,    \* buf[e][c]: the m_input_buffer of that end
  isOpen, \* isOpen[e][c]: end e has not been destroyed
  lost    \* connections the network broke, or the agent gave up

wireVars == <<wire, buf, isOpen, lost>>

Ends == {"server", "client"}
Other(e) == CHOOSE f \in Ends : f # e

Parts ==
  {"request", "badRequest", "notUtf8",                \* first line of a request
   "status",                                          \* first line of a response
   "length", "chunked", "close",                      \* headers, by the framing
   "badHeaders", "hugeLength",                        \*   they give the body
   "size", "crlf", "byte"}                            \* bodies
Item(part, n) == [part |-> part, n |-> n]
Items == [part : Parts, n : Nat]

WireTypeOK ==
  /\ wire \in [Ends -> [Conns -> Seq(Items)]]
  /\ buf \in [Ends -> [Conns -> Seq(Items)]]
  /\ isOpen \in [Ends -> [Conns -> BOOLEAN]]
  /\ lost \subseteq Conns

WireInit ==
  /\ wire = [e \in Ends |-> [c \in Conns |-> <<>>]]
  /\ buf = [e \in Ends |-> [c \in Conns |-> <<>>]]
  /\ isOpen = [e \in Ends |-> [c \in Conns |-> TRUE]]
  /\ lost = {}

\* operator<<: what is written reaches the other end if that is still there
\* and the network works; the write may succeed all the same if not.  A write
\* is synchronous, has no time out, and waits while the sockets between the two
\* ends are full: there is no bound here on what they hold, and no promise that
\* a write goes on while the other end does not read (fairness, in Http).
Put(e, c, items) ==
  wire' = IF isOpen[Other(e)][c] /\ c \notin lost
            THEN [wire EXCEPT ![Other(e)][c] = @ \o items]
            ELSE wire

CanFailToWrite(e, c) == ~isOpen[Other(e)][c] \/ c \in lost

\* A read waits for the socket: any part of what is there arrives, however
\* little the read asked for.
Receive(e, c) ==
  /\ \E k \in 1..Len(wire[e][c]) :
       /\ buf' = [buf EXCEPT ![e][c] = @ \o SubSeq(wire[e][c], 1, k)]
       /\ wire' = [wire EXCEPT ![e][c] = SubSeq(@, k + 1, Len(@))]
  /\ UNCHANGED <<isOpen, lost>>

\* A read of a line is over when the buffer holds one.
HasLine(e, c) == buf[e][c] # <<>>
Line(e, c) == Head(buf[e][c])
TakeLine(e, c) ==
  /\ buf' = [buf EXCEPT ![e][c] = Tail(@)]
  /\ UNCHANGED <<wire, isOpen, lost>>

\* A read of n bytes is over only when the buffer holds n of them and no more:
\* with more the loop asks for size_t's difference.
HasBytes(e, c, n) == Len(buf[e][c]) = n
TakeBytes(e, c) ==
  /\ buf' = [buf EXCEPT ![e][c] = <<>>]
  /\ UNCHANGED <<wire, isOpen, lost>>

AtEof(e, c) ==
  wire[e][c] = <<>> /\ (~isOpen[Other(e)][c] \/ c \in lost)

\* The network breaks: what is on its way may be lost from some point on.  The
\* server's host also resets a connection closed with unread input.
Break(c) ==
  /\ c \notin lost
  /\ lost' = lost \cup {c}
  /\ \E i \in 0..Len(wire["server"][c]), j \in 0..Len(wire["client"][c]) :
       wire' = [wire EXCEPT !["server"][c] = SubSeq(@, 1, i),
                            !["client"][c] = SubSeq(@, 1, j)]
  /\ UNCHANGED <<buf, isOpen>>
=============================================================================
