--------------------------- MODULE HodConnection ---------------------------
(***************************************************************************)
(* Two ends of a hod connection over TCP (tcp.hpp, connection.hpp): each    *)
(* runs an outbound coroutine that writes packets and an inbound one, the   *)
(* receive_loop, that reads and dispatches them, on a shared io_context.   *)
(* The network delivers any part of a write.  It may break, and an end may  *)
(* hear of that late or never: nothing here has a time out.                *)
(*                                                                         *)
(* The application is external: it announces its highest version in        *)
(* established(), as the first packet, and then sends packets at whatever   *)
(* version has been negotiated; a handler it gave to the protocol may      *)
(* throw.  The reads of one packet go into a buffer of the packet's own    *)
(* decoder, so a read is one step that waits for all its bytes.             *)
(***************************************************************************)
EXTENDS HodPacket

CONSTANTS
  Peers,       \* the two ends
  MaxVersion,  \* the highest version of each end's protocol table
  Announce,    \* the control byte of the version announcement
  Data,        \* the control byte of all other packets
  Bodies,      \* what the application sends as packet bodies
  MaxPackets   \* bound on the packets each end sends

ASSUME HodAssumption ==
  /\ \E a, b \in Peers : a # b /\ Peers = {a, b}
  /\ MaxVersion \in [Peers -> Octet]
  /\ {Announce, Data} \subseteq Octet /\ Announce # Data
  /\ Bodies \subseteq Seq(Octet)
  /\ MaxPackets \in [Peers -> Nat]

VARIABLES
  version,     \* peer_version of each end
  isOpen,      \* cnx.socket.is_open() of each end
  link,        \* whether the network between them works
  deaf,        \* the ends that a broken network has not reported itself to
  out,         \* what the async_write in progress has still to write
  wire,        \* bytes on their way to an end
  rx,          \* where an end's receive_loop is in the packet it reads
  sent,        \* every packet an end has started to write
  dispatched   \* every packet an end has dispatched, with the version used

vars == <<version, isOpen, link, deaf, out, wire, rx, sent, dispatched>>

Other(p) == CHOOSE q \in Peers : q # p
Lower(v, w) == IF v <= w THEN v ELSE w

\* A packet, and the version at which its sender made it.
Packet == [control : Octet, body : Seq(Octet), made : Octet]

\* out_packet::operator(): the size sequence, the control byte, the body.
Frame(packet) == SizeSequence(Len(packet.body)) \o <<packet.control>> \o packet.body

Stages == {"size", "digits", "control", "body"}
NextPacket == [at |-> "size", digits |-> 0, size |-> 0, control |-> 0]

TypeOK ==
  /\ version \in [Peers -> Octet]
  /\ isOpen \in [Peers -> BOOLEAN]
  /\ link \in BOOLEAN
  /\ deaf \subseteq Peers
  /\ out \in [Peers -> Seq(Octet)]
  /\ wire \in [Peers -> Seq(Octet)]
  /\ rx \in [Peers -> [at : Stages, digits : Octet, size : Nat, control : Octet]]
  /\ sent \in [Peers -> Seq(Packet)]
  /\ dispatched \in [Peers -> Seq([packet : Packet, at : Octet])]

Init ==
  /\ version = [p \in Peers |-> 0]
  /\ isOpen = [p \in Peers |-> TRUE]
  /\ link = TRUE
  /\ deaf = {}
  /\ out = [p \in Peers |-> <<>>]
  /\ wire = [p \in Peers |-> <<>>]
  /\ rx = [p \in Peers |-> NextPacket]
  /\ sent = [p \in Peers |-> <<>>]
  /\ dispatched = [p \in Peers |-> <<>>]

-----------------------------------------------------------------------------
(***************************************************************************)
(* The outbound coroutine.                                                 *)
(***************************************************************************)

\* The application's packets: first the announcement, then data.
Offered(p) ==
  IF sent[p] = <<>>
    THEN {[control |-> Announce, body |-> <<MaxVersion[p]>>, made |-> 0]}
    ELSE {[control |-> Data, body |-> body, made |-> version[p]] : body \in Bodies}

\* Mutant: a second packet may be started while the first is being written.
Send_whileWriting(p, packet) ==
  /\ isOpen[p]
  /\ Sendable(Len(packet.body))
  /\ Len(sent[p]) < MaxPackets[p]
  /\ out' = [out EXCEPT ![p] = Frame(packet)]
  /\ sent' = [sent EXCEPT ![p] = Append(@, packet)]
  /\ UNCHANGED <<version, isOpen, link, deaf, wire, rx, dispatched>>

\* The coroutine hands a packet to async_write and yields; it is back for the
\* next one only when the write has ended: that there is one such coroutine is
\* the application's part.  For a larger packet size_sequence throws before a byte
\* is written, and the connection stays as it is.
Send(p, packet) ==
  /\ isOpen[p]
  /\ out[p] = <<>>
  /\ Sendable(Len(packet.body))
  /\ Len(sent[p]) < MaxPackets[p]
  /\ out' = [out EXCEPT ![p] = Frame(packet)]
  /\ sent' = [sent EXCEPT ![p] = Append(@, packet)]
  /\ UNCHANGED <<version, isOpen, link, deaf, wire, rx, dispatched>>

\* Part of what is being written goes out.
WriteSome(p, k) ==
  /\ isOpen[p] /\ isOpen[Other(p)] /\ link
  /\ wire' = [wire EXCEPT ![Other(p)] = @ \o SubSeq(out[p], 1, k)]
  /\ out' = [out EXCEPT ![p] = SubSeq(@, k + 1, Len(@))]
  /\ UNCHANGED <<version, isOpen, link, deaf, rx, sent, dispatched>>

\* The socket takes what will never arrive: the other end, or the way there, is
\* gone and the socket does not know yet.  The parts are not told apart.
WriteLost(p) ==
  /\ isOpen[p] /\ out[p] # <<>>
  /\ ~(link /\ isOpen[Other(p)])
  /\ out' = [out EXCEPT ![p] = <<>>]
  /\ UNCHANGED <<version, isOpen, link, deaf, wire, rx, sent, dispatched>>

\* The end has been told that the other end, or the way there, is gone.
Told(p) == ~(link /\ isOpen[Other(p)]) /\ p \notin deaf

\* Closing the socket also ends the end's own write.
Close(p) ==
  /\ isOpen' = [isOpen EXCEPT ![p] = FALSE]
  /\ out' = [out EXCEPT ![p] = <<>>]

\* The write fails: close the socket and throw out of the coroutine.
WriteFails(p) ==
  /\ isOpen[p] /\ out[p] # <<>>
  /\ Told(p)
  /\ Close(p)
  /\ UNCHANGED <<version, link, deaf, wire, rx, sent, dispatched>>

-----------------------------------------------------------------------------
(***************************************************************************)
(* The inbound coroutine: one turn of receive_loop is one packet.          *)
(***************************************************************************)

\* The end is at a stage of the packet and n bytes for it have arrived.
Reads(p, stage, n) ==
  /\ isOpen[p]
  /\ rx[p].at = stage
  /\ Len(wire[p]) >= n
  /\ wire' = [wire EXCEPT ![p] = SubSeq(@, n + 1, Len(@))]

\* The first byte of a size sequence, which may be all of it.
ReadSizeByte(p) ==
  /\ Reads(p, "size", 1)
  /\ LET first == wire[p][1] IN
       IF IsSize(first)
         THEN /\ rx' = [rx EXCEPT ![p] = [NextPacket EXCEPT
                          !.at = IF Digits(first) = 0 THEN "control" ELSE "digits",
                          !.digits = Digits(first),
                          !.size = IF Digits(first) = 0 THEN first ELSE 0]]
              /\ UNCHANGED <<isOpen, out>>
         ELSE /\ Close(p)
              /\ UNCHANGED rx
  /\ UNCHANGED <<version, link, deaf, sent, dispatched>>

\* Mutant: one digit more than announced is read.
ReadDigit_oneMore(p) ==
  /\ Reads(p, "digits", 1)
  /\ rx' = [rx EXCEPT ![p].size = AddDigit(@, wire[p][1]),
                      ![p].digits = @ - 1,
                      ![p].at = IF rx[p].digits = 0 THEN "control" ELSE "digits"]
  /\ UNCHANGED <<version, isOpen, link, deaf, out, sent, dispatched>>

\* Mutant: the digits are put together least significant first.
ReadDigit_littleEndian(p) ==
  /\ Reads(p, "digits", 1)
  /\ rx' = [rx EXCEPT ![p].size = @ + (IF rx[p].digits = 1 /\ @ # 0 THEN Radix ELSE 1) * wire[p][1],
                      ![p].digits = @ - 1,
                      ![p].at = IF rx[p].digits = 1 THEN "control" ELSE "digits"]
  /\ UNCHANGED <<version, isOpen, link, deaf, out, sent, dispatched>>

\* One more digit of the size.
ReadDigit(p) ==
  /\ Reads(p, "digits", 1)
  /\ rx' = [rx EXCEPT ![p].size = AddDigit(@, wire[p][1]),
                      ![p].digits = @ - 1,
                      ![p].at = IF rx[p].digits = 1 THEN "control" ELSE "digits"]
  /\ UNCHANGED <<version, isOpen, link, deaf, out, sent, dispatched>>

ReadControl(p) ==
  /\ Reads(p, "control", 1)
  /\ rx' = [rx EXCEPT ![p].control = wire[p][1], ![p].at = "body"]
  /\ UNCHANGED <<version, isOpen, link, deaf, out, sent, dispatched>>

\* Mutant: what the peer announces is not taken into account.
Negotiate_own(p, announced) == MaxVersion[p]

\* connection_base::version(proto, peer).
Negotiate(p, announced) == Lower(MaxVersion[p], announced)

\* The body has arrived and the packet is dispatched.  The handler may throw,
\* which closes the socket; the announcement's handler sets the version.
Dispatch(p) ==
  /\ Reads(p, "body", rx[p].size)
  /\ LET body == SubSeq(wire[p], 1, rx[p].size)
         nth == Len(dispatched[p]) + 1
         made == IF nth <= Len(sent[Other(p)]) THEN sent[Other(p)][nth].made ELSE 0
         packet == [control |-> rx[p].control, body |-> body, made |-> made]
     IN /\ dispatched' = [dispatched EXCEPT
                            ![p] = Append(@, [packet |-> packet, at |-> version[p]])]
        /\ \/ /\ version' = IF rx[p].control = Announce /\ body # <<>>
                              THEN [version EXCEPT ![p] = Negotiate(p, body[1])]
                              ELSE version
              /\ UNCHANGED <<isOpen, out>>
           \/ /\ Close(p)
              /\ UNCHANGED version
  /\ rx' = [rx EXCEPT ![p] = NextPacket]
  /\ UNCHANGED <<link, deaf, sent>>

\* The bytes the current stage waits for.
Wanted(p) == IF rx[p].at = "body" THEN rx[p].size ELSE 1

\* Mutant: the loop ends and leaves the socket open.
ReadFails_leavesOpen(p) ==
  /\ isOpen[p]
  /\ Len(wire[p]) < Wanted(p)
  /\ Told(p)
  /\ out' = [out EXCEPT ![p] = <<>>]
  /\ UNCHANGED <<version, isOpen, link, deaf, wire, rx, sent, dispatched>>

\* The stream is known to end short of what the stage needs: the exception closes
\* the socket and the loop ends.  The read has no time out, so that an end that is
\* not told waits.
ReadFails(p) ==
  /\ isOpen[p]
  /\ Len(wire[p]) < Wanted(p)
  /\ Told(p)
  /\ Close(p)
  /\ UNCHANGED <<version, link, deaf, wire, rx, sent, dispatched>>

-----------------------------------------------------------------------------
\* The network breaks, and the end of what was in flight may be lost.  An end need
\* not hear of it.
Break ==
  /\ link
  /\ link' = FALSE
  /\ deaf' \in SUBSET Peers
  /\ \E keep \in {Len(wire[p]) : p \in Peers} \cup {0, 1} :
       wire' = [p \in Peers |-> SubSeq(wire[p], 1, Lower(keep, Len(wire[p])))]
  /\ UNCHANGED <<version, isOpen, out, rx, sent, dispatched>>

\* An end hears of it after all: a reset, or TCP gives up on what was written.
Report(p) ==
  /\ p \in deaf
  /\ deaf' = deaf \ {p}
  /\ UNCHANGED <<version, isOpen, link, out, wire, rx, sent, dispatched>>

Outbound(p) ==
  \/ \E k \in 1..Len(out[p]) : WriteSome(p, k)
  \/ WriteLost(p)
  \/ WriteFails(p)

Inbound(p) ==
  \/ ReadSizeByte(p)
  \/ ReadDigit(p)
  \/ ReadControl(p)
  \/ Dispatch(p)
  \/ ReadFails(p)

Next ==
  \/ \E p \in Peers : \E packet \in Offered(p) : Send(p, packet)
  \/ \E p \in Peers : Outbound(p) \/ Inbound(p)
  \/ Break
  \/ \E p \in Peers : Report(p)

\* The io_context runs both coroutines of an end, and a working network
\* delivers, the news of a close included.  No end has to send, the network need
\* not break, and if it does it need not report that to either end.
Fairness == \A p \in Peers : WF_vars(Outbound(p)) /\ WF_vars(Inbound(p))

Spec == Init /\ [][Next]_vars /\ Fairness

-----------------------------------------------------------------------------
(***************************************************************************)
(* Properties.                                                             *)
(***************************************************************************)

\* The packets of an end, as its handlers saw them.
Handled(p) == [i \in DOMAIN dispatched[p] |-> dispatched[p][i].packet]

\* Whatever the parts in which the bytes arrive, the packets dispatched at one
\* end are a prefix of those sent by the other: none is lost before the
\* connection ends, none is dispatched in part, merged, split or out of order.
PacketsIntact == \A p \in Peers :
  /\ Len(Handled(p)) <= Len(sent[Other(p)])
  /\ Handled(p) = SubSeq(sent[Other(p)], 1, Len(Handled(p)))

\* A packet made at a negotiated version finds its handler: the other end
\* dispatches it at that version or a later one, because it has negotiated by
\* then.  An earlier version's table may not bind the packet's control byte.
HandlerKnowsPacket == \A p \in Peers : \A i \in DOMAIN dispatched[p] :
  dispatched[p][i].packet.made <= dispatched[p][i].at

\* When one end closes, the other end's receive loop ends too, unless the network
\* breaks and never reports that: receive_loop has no time out of its own.
ClosePropagates == \A p \in Peers :
  ~isOpen[p] ~> (~isOpen[Other(p)] \/ [](Other(p) \in deaf))

\* As long as the connection lasts, everything sent is dispatched.
DeliversWhileOpen ==
  []<>(\A p \in Peers : isOpen[p] /\ isOpen[Other(p)] /\ link =>
         Len(dispatched[p]) = Len(sent[Other(p)]))
=============================================================================
