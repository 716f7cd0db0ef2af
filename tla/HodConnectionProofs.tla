------------------------ MODULE HodConnectionProofs ------------------------
(***************************************************************************)
(* Proofs about hod connections, for packets of any size and any number,   *)
(* any protocol versions and any parts in which the network delivers.  The *)
(* argument: what an end has still to read is, byte for byte, the rest of  *)
(* the packet it is in, from its stage on, followed by the frames of the   *)
(* packets after it (Flow), and the bytes in flight are a prefix of that.  *)
(* An end has negotiated as soon as it has dispatched the announcement,    *)
(* which is the other end's first packet (Versions).                       *)
(***************************************************************************)
EXTENDS HodConnection, SequenceTheorems, TLAPS

-----------------------------------------------------------------------------
(***************************************************************************)
(* Size sequences (HodPacket).                                             *)
(***************************************************************************)

\* Division with remainder: the two digits of a size make it up again.
LEMMA TwoDigits ==
  ASSUME NEW s \in Nat, s < Radix * Radix
  PROVE  /\ s \div Radix \in Octet
         /\ s % Radix \in Octet
         /\ (s \div Radix) * Radix + (s % Radix) = s
<1>1. Radix \in Nat /\ Radix > 0
  BY PacketAssumption
<1>2. s \div Radix \in Int /\ s % Radix \in 0..(Radix - 1)
  BY <1>1
<1>3. s = Radix * (s \div Radix) + (s % Radix)
  BY <1>1
<1>4. s \div Radix >= 0
  BY <1>1
<1>5. s \div Radix < Radix
  BY <1>1, <1>2, <1>3
<1>6. QED
  BY <1>1, <1>2, <1>3, <1>4, <1>5 DEF Octet

\* Every size that a packet can be sent with is written as bytes that the
\* decoder recognises as a size, of the length that the first byte announces,
\* and that it reads back as the same size.
THEOREM SizeRoundTrip ==
  \A s \in Nat : Sendable(s) =>
    /\ SizeSequence(s) \in Seq(Octet)
    /\ IsSize(SizeSequence(s)[1])
    /\ Len(SizeSequence(s)) = 1 + Digits(SizeSequence(s)[1])
    /\ ReadSize(SizeSequence(s)) = s
<1> SUFFICES ASSUME NEW s \in Nat, s < Radix * Radix
             PROVE  /\ SizeSequence(s) \in Seq(Octet)
                    /\ IsSize(SizeSequence(s)[1])
                    /\ Len(SizeSequence(s)) = 1 + Digits(SizeSequence(s)[1])
                    /\ ReadSize(SizeSequence(s)) = s
  BY DEF Sendable
<1>1. CASE s < Small
  <2>1. SizeSequence(s) = <<s>>
    BY <1>1, PacketAssumption DEF SizeSequence
  <2>2. Digits(s) = 0 /\ s \in Octet
    BY <1>1, PacketAssumption DEF Digits, Octet
  <2>3. QED
    BY <1>1, <2>1, <2>2 DEF IsSize, ReadSize
<1>2. CASE Small <= s /\ s < Radix
  <2>1. SizeSequence(s) = <<Marker + 1, s>>
    BY <1>2, PacketAssumption DEF SizeSequence
  <2>2. Digits(Marker + 1) = 1
    BY PacketAssumption DEF Digits
  <2>3. QED
    BY <1>2, <2>1, <2>2, PacketAssumption DEF IsSize, ReadSize, AddDigit, Octet
<1>3. CASE s >= Radix
  <2>1. SizeSequence(s) = <<Marker + 2, s \div Radix, s % Radix>>
    BY <1>3, PacketAssumption DEF SizeSequence
  <2>2. Digits(Marker + 2) = 2
    BY PacketAssumption DEF Digits
  <2>3. SizeSequence(s) \in Seq(Octet)
    BY <2>1, TwoDigits, PacketAssumption DEF Octet
  <2>4. ReadSize(SizeSequence(s)) = (0 * Radix + (s \div Radix)) * Radix + (s % Radix)
    BY <2>1, <2>2 DEF ReadSize, AddDigit
  <2>5. 0 * Radix + (s \div Radix) = s \div Radix
    BY TwoDigits, PacketAssumption DEF Octet
  <2>6. ReadSize(SizeSequence(s)) = s
    BY <2>4, <2>5, TwoDigits
  <2>7. IsSize(Marker + 2)
    BY PacketAssumption DEF IsSize
  <2>8. QED
    BY <2>1, <2>2, <2>3, <2>6, <2>7
<1>4. QED
  BY <1>1, <1>2, <1>3, PacketAssumption

-----------------------------------------------------------------------------
(***************************************************************************)
(* The stream.                                                             *)
(***************************************************************************)

\* What the ends send: packets whose size can be written.
Outgoing == {packet \in Packet : Sendable(Len(packet.body))}

\* rest[i] is the stream after the first i of the packets.
IsRest(rest, packets) ==
  /\ rest \in [0..Len(packets) -> Seq(Octet)]
  /\ rest[Len(packets)] = <<>>
  /\ \A i \in 0..(Len(packets) - 1) : rest[i] = Frame(packets[i + 1]) \o rest[i + 1]

\* The stream left to an end that has one digit of a size, or two, still to read.
OneDigitLeft(size, packet, after, left) ==
  \E d \in Octet :
    /\ AddDigit(size, d) = Len(packet.body)
    /\ left = <<d>> \o (<<packet.control>> \o (packet.body \o after))
TwoDigitsLeft(size, packet, after, left) ==
  \E d, e \in Octet :
    /\ AddDigit(AddDigit(size, d), e) = Len(packet.body)
    /\ left = <<d>> \o (<<e>> \o (<<packet.control>> \o (packet.body \o after)))

\* The stream left to an end that is inside a packet, where after follows it.
Within(r, packet, after, left) ==
  \/ /\ r.at = "digits" /\ r.digits = 2
     /\ TwoDigitsLeft(r.size, packet, after, left)
  \/ /\ r.at = "digits" /\ r.digits = 1
     /\ OneDigitLeft(r.size, packet, after, left)
  \/ /\ r.at = "control" /\ r.size = Len(packet.body)
     /\ left = <<packet.control>> \o (packet.body \o after)
  \/ /\ r.at = "body" /\ r.size = Len(packet.body) /\ r.control = packet.control
     /\ left = packet.body \o after

\* The stream left to an end that has dispatched n of the packets and reads at r.
Flow(packets, n, r, left) ==
  /\ n <= Len(packets)
  /\ \E rest : /\ IsRest(rest, packets)
               /\ \/ r.at = "size" /\ left = rest[n]
                  \/ n < Len(packets) /\ Within(r, packets[n + 1], rest[n + 1], left)

-----------------------------------------------------------------------------
\* The two ends are each other's other end.
LEMMA OtherEnd ==
  ASSUME NEW p \in Peers
  PROVE  /\ Other(p) \in Peers /\ Other(p) # p
         /\ \A q \in Peers : q # p => q = Other(p)
         /\ Other(Other(p)) = p
<1>1. \A r \in Peers : Other(r) \in Peers /\ Other(r) # r
  BY HodAssumption DEF Other
<1>2. \A r, s \in Peers : s # r => s = Other(r)
  BY <1>1, HodAssumption
<1>3. QED
  BY <1>1, <1>2

\* Concatenation keeps bytes bytes, and is associative.
LEMMA Concat ==
  \A s, t \in Seq(Octet) : s \o t \in Seq(Octet) /\ Len(s \o t) = Len(s) + Len(t)
BY ConcatProperties

LEMMA Associative ==
  \A s, t, u \in Seq(Octet) : (s \o t) \o u = s \o (t \o u)
BY ConcatAssociative

\* Two ways to write one sequence whose first parts are of one length.
LEMMA SameSplit ==
  ASSUME NEW a \in Seq(Octet), NEW b \in Seq(Octet), NEW x \in Seq(Octet),
         NEW y \in Seq(Octet), Len(a) = Len(b), a \o x = b \o y
  PROVE  a = b /\ x = y
<1>1. a = b
  <2>1. \A i \in 1..Len(a) : (a \o x)[i] = a[i] /\ (b \o y)[i] = b[i]
    BY ConcatProperties, LenProperties
  <2>2. QED
    BY <2>1, SeqEqual
<1>2. QED
  BY <1>1, ConcatSimplifications

\* An end that reads the first n bytes in flight has the rest still before it.
LEMMA Taken ==
  ASSUME NEW w \in Seq(Octet), NEW x \in Seq(Octet), NEW n \in 0..Len(w)
  PROVE  /\ SubSeq(w, 1, n) \in Seq(Octet) /\ Len(SubSeq(w, 1, n)) = n
         /\ SubSeq(w, n + 1, Len(w)) \in Seq(Octet)
         /\ SubSeq(w, 1, n) \o SubSeq(w, n + 1, Len(w)) = w
         /\ w \o x = SubSeq(w, 1, n) \o (SubSeq(w, n + 1, Len(w)) \o x)
<1>1. Len(w) \in Nat /\ n \in Nat /\ \A i \in 1..Len(w) : w[i] \in Octet
  BY LenProperties, ElementOfSeq
<1>2. SubSeq(w, 1, n) \in Seq(Octet) /\ Len(SubSeq(w, 1, n)) = n
  <2>1. \A i \in 1..n : w[i] \in Octet
    BY <1>1
  <2>2. QED
    BY <1>1, <2>1, SubSeqProperties
<1>3. SubSeq(w, n + 1, Len(w)) \in Seq(Octet)
  <2>1. \A i \in (n + 1)..Len(w) : w[i] \in Octet
    BY <1>1
  <2>2. QED
    BY <1>1, <2>1, SubSeqProperties
<1>4. SubSeq(w, 1, n) \o SubSeq(w, n + 1, Len(w)) = w
  <2>1. 1 \in 1..(Len(w) + 1) /\ n \in (1 - 1)..Len(w) /\ Len(w) \in n..Len(w)
    BY <1>1
  <2>2. SubSeq(w, 1, n) \o SubSeq(w, n + 1, Len(w)) = SubSeq(w, 1, Len(w))
    BY <2>1, ConcatAdjacentSubSeq, Zenon
  <2>3. QED
    BY <2>2, SubSeqFull
<1>5. QED
  <2> DEFINE a == SubSeq(w, 1, n)
             b == SubSeq(w, n + 1, Len(w))
  <2>1. a \in Seq(Octet) /\ b \in Seq(Octet) /\ a \o b = w
    BY <1>2, <1>3, <1>4
  <2> HIDE DEF a, b
  <2>2. (a \o b) \o x = a \o (b \o x)
    BY <2>1, Associative, ZenonT(60)
  <2>3. w \o x = a \o (b \o x)
    BY <2>1, <2>2
  <2>4. QED
    BY <1>2, <1>3, <1>4, <2>3 DEF a, b

\* The same for one byte.
LEMMA FirstTaken ==
  ASSUME NEW w \in Seq(Octet), NEW x \in Seq(Octet), Len(w) >= 1
  PROVE  /\ w[1] \in Octet
         /\ SubSeq(w, 2, Len(w)) \in Seq(Octet)
         /\ w \o x = <<w[1]>> \o (SubSeq(w, 2, Len(w)) \o x)
<1>1. 1 \in 0..Len(w) /\ w[1] \in Octet
  BY LenProperties, ElementOfSeq
<1>2. SubSeq(w, 1, 1) = <<w[1]>>
  <2>1. SubSeq(w, 1, 1) = <<w[1]>> \o SubSeq(w, 2, 1)
    <3>1. 1 \in 1..Len(w) /\ 1 \in 1..Len(w) /\ 1 + 1 = 2
      BY <1>1, LenProperties
    <3>2. SubSeq(w, 1, 1) = <<w[1]>> \o SubSeq(w, 1 + 1, 1)
      BY <3>1, SubSeqRecursiveFirst, Zenon
    <3>3. QED
      BY <3>1, <3>2
  <2>2. SubSeq(w, 2, 1) = <<>>
    BY SubSeqEmpty
  <2>3. <<w[1]>> \in Seq(Octet) /\ <<w[1]>> \o <<>> = <<w[1]>>
    BY <1>1
  <2>4. QED
    BY <2>1, <2>2, <2>3
<1>3. /\ SubSeq(w, 1 + 1, Len(w)) \in Seq(Octet)
      /\ w \o x = SubSeq(w, 1, 1) \o (SubSeq(w, 1 + 1, Len(w)) \o x)
  BY <1>1, Taken, Zenon
<1>4. 1 + 1 = 2
  OBVIOUS
<1>5. QED
  BY <1>1, <1>2, <1>3, <1>4

LEMMA SameFirst ==
  \A b, c \in Octet : \A x, y \in Seq(Octet) :
    <<b>> \o x = <<c>> \o y => b = c /\ x = y
<1> SUFFICES ASSUME NEW b \in Octet, NEW c \in Octet, NEW x \in Seq(Octet),
                    NEW y \in Seq(Octet), <<b>> \o x = <<c>> \o y
             PROVE  b = c /\ x = y
  OBVIOUS
<1>1. <<b>> \in Seq(Octet) /\ <<c>> \in Seq(Octet) /\ Len(<<b>>) = Len(<<c>>)
  OBVIOUS
<1>2. <<b>> = <<c>> /\ x = y
  BY <1>1, SameSplit, Zenon
<1>3. QED
  BY <1>2

-----------------------------------------------------------------------------
\* A frame is the bytes of its size, the control byte and the body.
LEMMA FrameParts ==
  ASSUME NEW packet \in Outgoing
  PROVE  /\ packet.control \in Octet /\ packet.body \in Seq(Octet)
         /\ Len(packet.body) \in Nat
         /\ SizeSequence(Len(packet.body)) \in Seq(Octet)
         /\ <<packet.control>> \in Seq(Octet)
         /\ Frame(packet) \in Seq(Octet)
         /\ Frame(packet)
              = SizeSequence(Len(packet.body)) \o (<<packet.control>> \o packet.body)
<1>1. /\ packet.control \in Octet /\ packet.body \in Seq(Octet)
      /\ Sendable(Len(packet.body)) /\ Len(packet.body) \in Nat
  BY LenProperties DEF Outgoing, Packet
<1>2. SizeSequence(Len(packet.body)) \in Seq(Octet) /\ <<packet.control>> \in Seq(Octet)
  BY <1>1, SizeRoundTrip
<1>3. (SizeSequence(Len(packet.body)) \o <<packet.control>>) \o packet.body
        = SizeSequence(Len(packet.body)) \o (<<packet.control>> \o packet.body)
  BY <1>1, <1>2, Associative, ZenonT(60)
<1>4. SizeSequence(Len(packet.body)) \o <<packet.control>> \in Seq(Octet)
  BY <1>1, <1>2, Concat, ZenonT(60)
<1>5. (SizeSequence(Len(packet.body)) \o <<packet.control>>) \o packet.body \in Seq(Octet)
  BY <1>1, <1>4, Concat, ZenonT(60)
<1>6. QED
  BY <1>1, <1>2, <1>3, <1>5 DEF Frame

\* How the size of a packet is written: the three forms of a size sequence.
LEMMA SizeForms ==
  ASSUME NEW s \in Nat, Sendable(s)
  PROVE  \/ /\ SizeSequence(s) = <<s>> /\ s \in Octet
            /\ IsSize(s) /\ Digits(s) = 0
         \/ \E d \in Octet :
              /\ SizeSequence(s) = <<Marker + 1>> \o <<d>>
              /\ AddDigit(0, d) = s
         \/ \E d, e \in Octet :
              /\ SizeSequence(s) = <<Marker + 2>> \o (<<d>> \o <<e>>)
              /\ AddDigit(AddDigit(0, d), e) = s
<1>1. CASE s < Small
  BY <1>1, PacketAssumption DEF SizeSequence, Digits, IsSize, Octet
<1>2. CASE Small <= s /\ s < Radix
  <2>1. SizeSequence(s) = <<Marker + 1>> \o <<s>>
    <3>1. <<Marker + 1, s>> = <<Marker + 1>> \o <<s>>
      OBVIOUS
    <3>2. QED
      BY <1>2, <3>1, PacketAssumption DEF SizeSequence
  <2>2. s \in Octet /\ AddDigit(0, s) = s
    BY <1>2, PacketAssumption DEF AddDigit, Octet
  <2>3. QED
    BY <2>1, <2>2
<1>3. CASE s >= Radix
  <2>1. /\ s \div Radix \in Octet /\ s % Radix \in Octet
        /\ (s \div Radix) * Radix + (s % Radix) = s
    BY TwoDigits DEF Sendable
  <2>2. SizeSequence(s) = <<Marker + 2>> \o (<<s \div Radix>> \o <<s % Radix>>)
    <3>1. SizeSequence(s) = <<Marker + 2, s \div Radix, s % Radix>>
      BY <1>3, PacketAssumption DEF SizeSequence
    <3>2. \A d, e \in Octet : <<Marker + 2, d, e>> = <<Marker + 2>> \o (<<d>> \o <<e>>)
      <4> SUFFICES ASSUME NEW d \in Octet, NEW e \in Octet
                   PROVE  <<Marker + 2, d, e>> = <<Marker + 2>> \o (<<d>> \o <<e>>)
        OBVIOUS
      <4>1. Marker + 2 \in Nat /\ d \in Nat /\ e \in Nat
        BY PacketAssumption DEF Octet
      <4>2. <<d>> \o <<e>> = <<d, e>>
        <5>1. /\ <<d>> \in Seq(Nat) /\ Len(<<d>>) = 1
              /\ <<e>> \in Seq(Nat) /\ Len(<<e>>) = 1
          BY <4>1
        <5>2. <<d>> \o <<e>> \in Seq(Nat) /\ Len(<<d>> \o <<e>>) = 2
          BY <5>1, ConcatProperties
        <5>3. <<d, e>> \in Seq(Nat) /\ Len(<<d, e>>) = 2
          BY <4>1
        <5>4. \A i \in 1..2 : (<<d>> \o <<e>>)[i] = <<d, e>>[i]
          BY <4>1, <5>1
        <5>5. QED
          BY <5>2, <5>3, <5>4, SeqEqual
      <4> DEFINE t == <<d, e>>
      <4>3. t \in Seq(Nat) /\ Len(t) = 2 /\ t[1] = d /\ t[2] = e
        BY <4>1
      <4>4. Len(<<Marker + 2>>) = 1 /\ <<Marker + 2>> \in Seq(Nat)
        BY <4>1
      <4>5. <<Marker + 2>> \o t = <<Marker + 2, d, e>>
        <5>1. \A i \in 1..3 : (<<Marker + 2>> \o t)[i] = <<Marker + 2, d, e>>[i]
          BY <4>1, <4>3
        <5>2. <<Marker + 2>> \o t \in Seq(Nat) /\ Len(<<Marker + 2>> \o t) = 3
          BY <4>3, <4>4, ConcatProperties
        <5>3. <<Marker + 2, d, e>> \in Seq(Nat) /\ Len(<<Marker + 2, d, e>>) = 3
          BY <4>1
        <5>4. QED
          BY <5>1, <5>2, <5>3, SeqEqual
      <4>6. QED
        BY <4>2, <4>5
    <3>3. QED
      BY <2>1, <3>1, <3>2
  <2>3. AddDigit(AddDigit(0, s \div Radix), s % Radix) = s
    <3>1. 0 * Radix + (s \div Radix) = s \div Radix
      BY <2>1, PacketAssumption DEF Octet
    <3>2. QED
      BY <2>1, <3>1 DEF AddDigit
  <2>4. QED
    BY <2>1, <2>2, <2>3
<1>4. s < Small \/ (Small <= s /\ s < Radix) \/ s >= Radix
  BY PacketAssumption
<1>5. QED
  BY <1>1, <1>2, <1>3, <1>4, Zenon

\* The markers are bytes and announce one and two digits.
LEMMA Markers ==
  /\ Marker + 1 \in Octet /\ IsSize(Marker + 1) /\ Digits(Marker + 1) = 1
  /\ Marker + 2 \in Octet /\ IsSize(Marker + 2) /\ Digits(Marker + 2) = 2
BY PacketAssumption DEF Octet, IsSize, Digits

\* The stream before a packet starts with the packet's frame.
LEMMA RestProperties ==
  ASSUME NEW packets \in Seq(Outgoing), NEW rest, IsRest(rest, packets),
         NEW n \in Nat, n < Len(packets)
  PROVE  /\ packets[n + 1] \in Outgoing
         /\ rest[n] \in Seq(Octet) /\ rest[n + 1] \in Seq(Octet)
         /\ rest[n] = Frame(packets[n + 1]) \o rest[n + 1]
<1>1. /\ Len(packets) \in Nat /\ n \in 0..(Len(packets) - 1)
      /\ n \in 0..Len(packets) /\ n + 1 \in 0..Len(packets) /\ n + 1 \in 1..Len(packets)
  BY LenProperties
<1>2. QED
  BY <1>1, ElementOfSeq DEF IsRest

\* What follows a packet may grow, and so does what is left of the stream.
LEMMA WithinGrows ==
  ASSUME NEW r, NEW packet \in Outgoing, NEW after \in Seq(Octet), NEW left,
         NEW more \in Seq(Octet), Within(r, packet, after, left)
  PROVE  Within(r, packet, after \o more, left \o more)
<1> DEFINE c == <<packet.control>>
           body == packet.body
<1>1. c \in Seq(Octet) /\ body \in Seq(Octet)
  BY FrameParts
<1>2. \A d \in Octet : <<d>> \in Seq(Octet)
  OBVIOUS
<1> HIDE DEF c, body
<1>3. (body \o after) \o more = body \o (after \o more) /\ body \o after \in Seq(Octet)
  <2>1. (body \o after) \o more = body \o (after \o more)
    BY <1>1, Associative, ZenonT(60)
  <2>2. body \o after \in Seq(Octet)
    BY <1>1, Concat, ZenonT(60)
  <2>3. QED
    BY <2>1, <2>2
<1>4. (c \o (body \o after)) \o more = c \o (body \o (after \o more))
  <2>1. \A t \in Seq(Octet) : (c \o t) \o more = c \o (t \o more)
    BY <1>1, Associative, ZenonT(60)
  <2>2. QED
    BY <1>3, <2>1
<1>5. c \o (body \o after) \in Seq(Octet)
  BY <1>1, <1>3, Concat, ZenonT(60)
<1>6. \A d \in Octet : /\ (<<d>> \o (c \o (body \o after))) \o more
                             = <<d>> \o (c \o (body \o (after \o more)))
                       /\ <<d>> \o (c \o (body \o after)) \in Seq(Octet)
  <2> SUFFICES ASSUME NEW d \in Octet
               PROVE  /\ (<<d>> \o (c \o (body \o after))) \o more
                           = <<d>> \o (c \o (body \o (after \o more)))
                      /\ <<d>> \o (c \o (body \o after)) \in Seq(Octet)
    OBVIOUS
  <2>1. \A t \in Seq(Octet) : (<<d>> \o t) \o more = <<d>> \o (t \o more)
    BY <1>2, Associative, ZenonT(60)
  <2>2. \A t \in Seq(Octet) : <<d>> \o t \in Seq(Octet)
    BY <1>2, Concat, ZenonT(60)
  <2>3. QED
    BY <1>4, <1>5, <2>1, <2>2, Zenon
<1>7. \A d, e \in Octet : (<<d>> \o (<<e>> \o (c \o (body \o after)))) \o more
                            = <<d>> \o (<<e>> \o (c \o (body \o (after \o more))))
  <2> SUFFICES ASSUME NEW d \in Octet, NEW e \in Octet
               PROVE  (<<d>> \o (<<e>> \o (c \o (body \o after)))) \o more
                        = <<d>> \o (<<e>> \o (c \o (body \o (after \o more))))
    OBVIOUS
  <2>1. \A t \in Seq(Octet) : (<<d>> \o t) \o more = <<d>> \o (t \o more)
    BY <1>2, Associative, ZenonT(60)
  <2>2. QED
    BY <1>6, <2>1, Zenon
<1>8. OneDigitLeft(r.size, packet, after, left)
        => OneDigitLeft(r.size, packet, after \o more, left \o more)
  BY <1>6 DEF OneDigitLeft, c, body
<1>9. TwoDigitsLeft(r.size, packet, after, left)
        => TwoDigitsLeft(r.size, packet, after \o more, left \o more)
  BY <1>7 DEF TwoDigitsLeft, c, body
<1>10. QED
  BY <1>3, <1>4, <1>8, <1>9 DEF Within, c, body

\* A packet more in the stream leaves what comes before it as it was.
LEMMA FlowGrows ==
  ASSUME NEW packets \in Seq(Outgoing), NEW packet \in Outgoing, NEW n \in Nat,
         NEW r, NEW left, Flow(packets, n, r, left)
  PROVE  Flow(Append(packets, packet), n, r, left \o Frame(packet))
<1> DEFINE more == Frame(packet)
           longer == Append(packets, packet)
           k == Len(packets)
<1>1. PICK rest : /\ IsRest(rest, packets)
                  /\ \/ r.at = "size" /\ left = rest[n]
                     \/ n < k /\ Within(r, packets[n + 1], rest[n + 1], left)
  BY DEF Flow
<1>2. more \in Seq(Octet) /\ k \in Nat /\ n <= k
  BY FrameParts, LenProperties DEF Flow
<1>3. /\ Len(longer) = k + 1 /\ longer[k + 1] = packet
      /\ \A i \in 1..k : longer[i] = packets[i] /\ packets[i] \in Outgoing
  BY AppendProperties, ElementOfSeq
<1> HIDE DEF more, longer, k
<1> DEFINE new == [i \in 0..(k + 1) |-> IF i = k + 1 THEN <<>> ELSE rest[i] \o more]
<1>4. /\ \A i \in 0..k : rest[i] \in Seq(Octet)
      /\ rest[k] = <<>>
      /\ \A i \in 0..(k - 1) : rest[i] = Frame(packets[i + 1]) \o rest[i + 1]
  BY <1>1 DEF IsRest, k
<1>5. /\ \A i \in 0..k : new[i] = rest[i] \o more
      /\ new[k + 1] = <<>>
  BY <1>2
<1>6. IsRest(new, longer)
  <2>1. new \in [0..(k + 1) -> Seq(Octet)]
    <3>1. \A i \in 0..k : rest[i] \o more \in Seq(Octet)
      BY <1>2, <1>4, Concat, ZenonT(60)
    <3>2. \A i \in 0..(k + 1) : i = k + 1 \/ i \in 0..k
      BY <1>2
    <3>3. QED
      BY <3>1, <3>2, EmptySeq
  <2>2. ASSUME NEW i \in 0..k
        PROVE  new[i] = Frame(longer[i + 1]) \o new[i + 1]
    <3>1. CASE i = k
      <4>1. new[i] = <<>> \o more /\ new[i + 1] = <<>>
        BY <3>1, <1>2, <1>4, <1>5, SMTT(60)
      <4>2. <<>> \o more = more /\ more \o <<>> = more
        BY <1>2, ConcatEmptySeq
      <4>3. Frame(longer[i + 1]) = more
        BY <3>1, <1>3 DEF more
      <4>4. QED
        BY <4>1, <4>2, <4>3
    <3>2. CASE i # k
      <4>1. /\ i \in 0..(k - 1) /\ i + 1 \in 0..k /\ i + 1 \in 1..k /\ i \in 0..k
        BY <3>2, <1>2
      <4>2. /\ longer[i + 1] = packets[i + 1] /\ Frame(packets[i + 1]) \in Seq(Octet)
        BY <4>1, <1>3, FrameParts
      <4>3. /\ new[i] = rest[i] \o more /\ new[i + 1] = rest[i + 1] \o more
            /\ rest[i] = Frame(packets[i + 1]) \o rest[i + 1]
            /\ rest[i + 1] \in Seq(Octet)
        BY <4>1, <1>4, <1>5
      <4> HIDE DEF new
      <4>4. (Frame(packets[i + 1]) \o rest[i + 1]) \o more
              = Frame(packets[i + 1]) \o (rest[i + 1] \o more)
        BY <4>2, <4>3, <1>2, Associative, ZenonT(60)
      <4>5. QED
        BY <4>2, <4>3, <4>4
    <3>3. QED
      BY <3>1, <3>2
  <2>3. (k + 1) - 1 = k
    BY <1>2
  <2>4. QED
    BY <2>1, <2>2, <2>3, <1>3, <1>5 DEF IsRest
<1> HIDE DEF new
<1>7. CASE r.at = "size" /\ left = rest[n]
  <2>1. n \in 0..k /\ n <= k + 1
    BY <1>2
  <2>2. left \o more = new[n]
    BY <1>7, <2>1, <1>5
  <2>3. QED
    BY <1>3, <1>6, <1>7, <2>1, <2>2 DEF Flow, more, longer
<1>8. CASE n < k /\ Within(r, packets[n + 1], rest[n + 1], left)
  <2>1. n + 1 \in 1..k /\ n + 1 \in 0..k /\ n < k + 1 /\ n <= k + 1
    BY <1>2, <1>8
  <2>2. packets[n + 1] \in Outgoing /\ rest[n + 1] \in Seq(Octet)
    BY <2>1, <1>3, <1>4
  <2>3. Within(r, packets[n + 1], rest[n + 1] \o more, left \o more)
    BY <2>2, <1>2, <1>8, WithinGrows
  <2>4. Within(r, longer[n + 1], new[n + 1], left \o more)
    BY <2>1, <2>3, <1>3, <1>5
  <2>5. QED
    BY <1>3, <1>6, <2>1, <2>4 DEF Flow, more, longer
<1>9. QED
  BY <1>1, <1>7, <1>8

\* The first byte that an end reads of a packet is one that the decoder takes
\* for a size, and puts the end where it has that many digits to read.
LEMMA FlowSizeByte ==
  ASSUME NEW packets \in Seq(Outgoing), NEW n \in Nat, NEW b \in Octet,
         NEW x \in Seq(Octet), NEW r, r.at = "size", Flow(packets, n, r, <<b>> \o x),
         NEW s, s.at = (IF Digits(b) = 0 THEN "control" ELSE "digits"),
         s.digits = Digits(b), s.size = (IF Digits(b) = 0 THEN b ELSE 0)
  PROVE  IsSize(b) /\ Digits(b) \in {0, 1, 2} /\ Flow(packets, n, s, x)
<1>1. PICK rest : IsRest(rest, packets) /\ <<b>> \o x = rest[n] /\ n <= Len(packets)
  BY DEF Flow, Within
<1>2. n < Len(packets)
  <2>1. CASE n = Len(packets)
    <3>1. <<b>> \o x = <<>>
      BY <1>1, <2>1 DEF IsRest
    <3>2. <<b>> \in Seq(Octet) /\ Len(<<b>>) = 1
      OBVIOUS
    <3>3. Len(<<b>> \o x) = 1 + Len(x) /\ Len(x) \in Nat
      BY <3>2, Concat, LenProperties
    <3>4. QED
      BY <3>1, <3>3, EmptySeq
  <2>2. QED
    BY <1>1, <2>1, LenProperties
<1> DEFINE packet == packets[n + 1]
           after == rest[n + 1]
           tail == <<packet.control>> \o (packet.body \o after)
           size == SizeSequence(Len(packet.body))
<1>3. packet \in Outgoing /\ after \in Seq(Octet) /\ rest[n] = Frame(packet) \o after
  BY <1>1, <1>2, RestProperties
<1>4. /\ size \in Seq(Octet) /\ tail \in Seq(Octet) /\ Frame(packet) \o after = size \o tail
      /\ Sendable(Len(packet.body)) /\ Len(packet.body) \in Nat
  <2> DEFINE c == <<packet.control>>
             body == packet.body
  <2>1. /\ c \in Seq(Octet) /\ body \in Seq(Octet) /\ size \in Seq(Octet)
        /\ Frame(packet) = size \o (c \o body)
        /\ Sendable(Len(body)) /\ Len(body) \in Nat
    BY <1>3, FrameParts DEF Outgoing
  <2>2. after \in Seq(Octet)
    BY <1>3
  <2> HIDE DEF c, size, packet, after
  <2>3. (c \o body) \o after = c \o (body \o after)
    BY <2>1, <2>2, Associative, ZenonT(60)
  <2>4. c \o body \in Seq(Octet) /\ body \o after \in Seq(Octet)
    BY <2>1, <2>2, Concat
  <2>5. c \o (body \o after) \in Seq(Octet)
    BY <2>1, <2>4, Concat, ZenonT(60)
  <2>6. (size \o (c \o body)) \o after = size \o ((c \o body) \o after)
    BY <2>1, <2>2, <2>4, Associative, ZenonT(60)
  <2>7. QED
    BY <2>1, <2>3, <2>5, <2>6 DEF c
<1>5. <<b>> \o x = size \o tail
  BY <1>1, <1>3, <1>4
<1>6. Within(s, packet, after, x) => Flow(packets, n, s, x)
  BY <1>1, <1>2 DEF Flow
<1> DEFINE m == Len(packet.body)
<1>7. CASE size = <<m>> /\ m \in Octet /\ IsSize(m) /\ Digits(m) = 0
  <2>1. b = m /\ x = tail
    <3>1. <<b>> \o x = <<m>> \o tail /\ tail \in Seq(Octet) /\ m \in Octet
      BY <1>4, <1>5, <1>7
    <3> HIDE DEF tail, m
    <3>2. QED
      BY <3>1, SameFirst, ZenonT(60)
  <2>2. Within(s, packet, after, x)
    BY <1>7, <2>1 DEF Within
  <2>3. QED
    BY <1>3, <1>6, <1>7, <2>1, <2>2
<1>8. CASE \E d \in Octet : size = <<Marker + 1>> \o <<d>> /\ AddDigit(0, d) = m
  <2>1. PICK d \in Octet : size = <<Marker + 1>> \o <<d>> /\ AddDigit(0, d) = m
    BY <1>8
  <2>2. (<<Marker + 1>> \o <<d>>) \o tail = <<Marker + 1>> \o (<<d>> \o tail)
    <3>1. <<Marker + 1>> \in Seq(Octet) /\ <<d>> \in Seq(Octet)
      BY Markers
    <3> HIDE DEF tail
    <3>2. QED
      BY <1>4, <3>1, Associative, ZenonT(60)
  <2>3. <<d>> \o tail \in Seq(Octet)
    <3>1. <<d>> \in Seq(Octet)
      OBVIOUS
    <3> HIDE DEF tail
    <3>2. QED
      BY <1>4, <3>1, Concat, ZenonT(60)
  <2>4. b = Marker + 1 /\ x = <<d>> \o tail
    <3> DEFINE marker == Marker + 1
               y == <<d>> \o tail
    <3>1. <<b>> \o x = <<marker>> \o y /\ marker \in Octet /\ y \in Seq(Octet)
      BY <1>5, <2>1, <2>2, <2>3, Markers
    <3> HIDE DEF marker, y
    <3>2. b = marker /\ x = y
      BY <3>1, SameFirst, ZenonT(60)
    <3>3. QED
      BY <3>2 DEF marker, y
  <2>5. s.at = "digits" /\ s.digits = 1 /\ s.size = 0 /\ IsSize(b) /\ Digits(b) = 1
    BY <2>4, Markers
  <2>6. Within(s, packet, after, x)
    BY <2>1, <2>4, <2>5 DEF Within, OneDigitLeft, TwoDigitsLeft
  <2>7. QED
    BY <1>3, <1>6, <2>5, <2>6
<1>9. CASE \E d, e \in Octet : /\ size = <<Marker + 2>> \o (<<d>> \o <<e>>)
                               /\ AddDigit(AddDigit(0, d), e) = m
  <2>1. PICK d \in Octet, e \in Octet : /\ size = <<Marker + 2>> \o (<<d>> \o <<e>>)
                                        /\ AddDigit(AddDigit(0, d), e) = m
    BY <1>9
  <2>2. size \o tail = <<Marker + 2>> \o (<<d>> \o (<<e>> \o tail))
    <3>1. <<Marker + 2>> \in Seq(Octet) /\ <<d>> \in Seq(Octet) /\ <<e>> \in Seq(Octet)
      BY Markers
    <3>2. tail \in Seq(Octet)
      BY <1>4
    <3> HIDE DEF tail, size
    <3>3. <<d>> \o <<e>> \in Seq(Octet)
      BY <3>1, Concat, ZenonT(60)
    <3>4. (<<d>> \o <<e>>) \o tail = <<d>> \o (<<e>> \o tail)
      BY <3>1, <3>2, Associative, ZenonT(60)
    <3>5. (<<Marker + 2>> \o (<<d>> \o <<e>>)) \o tail
            = <<Marker + 2>> \o ((<<d>> \o <<e>>) \o tail)
      <4> DEFINE first == <<Marker + 2>>
                 digits == <<d>> \o <<e>>
      <4>1. first \in Seq(Octet) /\ digits \in Seq(Octet)
        BY <3>1, <3>3
      <4> HIDE DEF first, digits
      <4>2. (first \o digits) \o tail = first \o (digits \o tail)
        BY <4>1, <3>2, Associative, ZenonT(60)
      <4>3. QED
        BY <4>2 DEF first, digits
    <3>6. QED
      BY <2>1, <3>4, <3>5
  <2>3. <<d>> \o (<<e>> \o tail) \in Seq(Octet)
    <3>1. <<d>> \in Seq(Octet) /\ <<e>> \in Seq(Octet)
      OBVIOUS
    <3>2. tail \in Seq(Octet)
      BY <1>4
    <3> HIDE DEF tail
    <3>3. <<e>> \o tail \in Seq(Octet)
      BY <3>1, <3>2, Concat, ZenonT(60)
    <3>4. QED
      BY <3>1, <3>3, Concat, ZenonT(60)
  <2>4. b = Marker + 2 /\ x = <<d>> \o (<<e>> \o tail)
    <3> DEFINE marker == Marker + 2
               y == <<d>> \o (<<e>> \o tail)
    <3>1. <<b>> \o x = <<marker>> \o y /\ marker \in Octet /\ y \in Seq(Octet)
      BY <1>5, <2>1, <2>2, <2>3, Markers
    <3> HIDE DEF marker, y
    <3>2. b = marker /\ x = y
      BY <3>1, SameFirst, ZenonT(60)
    <3>3. QED
      BY <3>2 DEF marker, y
  <2>5. s.at = "digits" /\ s.digits = 2 /\ s.size = 0 /\ IsSize(b) /\ Digits(b) = 2
    BY <2>4, Markers
  <2>6. Within(s, packet, after, x)
    BY <2>1, <2>4, <2>5 DEF Within, OneDigitLeft, TwoDigitsLeft
  <2>7. QED
    BY <1>3, <1>6, <2>5, <2>6
<1>10. QED
  BY <1>4, <1>7, <1>8, <1>9, SizeForms

\* What is left inside a packet: the tails of the stream that Within names.
LEMMA WithinTails ==
  ASSUME NEW packet \in Outgoing, NEW after \in Seq(Octet)
  PROVE  /\ packet.control \in Octet /\ packet.body \in Seq(Octet)
         /\ packet.body \o after \in Seq(Octet)
         /\ <<packet.control>> \o (packet.body \o after) \in Seq(Octet)
         /\ \A e \in Octet :
              <<e>> \o (<<packet.control>> \o (packet.body \o after)) \in Seq(Octet)
<1> DEFINE c == <<packet.control>>
           body == packet.body
<1>1. packet.control \in Octet /\ c \in Seq(Octet) /\ body \in Seq(Octet)
  BY FrameParts
<1>2. \A e \in Octet : <<e>> \in Seq(Octet)
  OBVIOUS
<1> HIDE DEF c, body
<1>3. body \o after \in Seq(Octet)
  BY <1>1, Concat, ZenonT(60)
<1>4. c \o (body \o after) \in Seq(Octet)
  BY <1>1, <1>3, Concat, ZenonT(60)
<1>5. \A e \in Octet : <<e>> \o (c \o (body \o after)) \in Seq(Octet)
  BY <1>2, <1>4, Concat, ZenonT(60)
<1>6. QED
  BY <1>1, <1>3, <1>4, <1>5 DEF c, body

\* A digit takes the end one digit on in the size, to the control byte after
\* the last one.
LEMMA FlowDigit ==
  ASSUME NEW packets \in Seq(Outgoing), NEW n \in Nat, NEW b \in Octet,
         NEW x \in Seq(Octet), NEW r, r.at = "digits", Flow(packets, n, r, <<b>> \o x),
         NEW s, s.at = (IF r.digits = 1 THEN "control" ELSE "digits"),
         s.digits = r.digits - 1, s.size = AddDigit(r.size, b)
  PROVE  r.digits \in {1, 2} /\ Flow(packets, n, s, x)
<1>1. PICK rest : /\ IsRest(rest, packets) /\ n < Len(packets) /\ n <= Len(packets)
                  /\ Within(r, packets[n + 1], rest[n + 1], <<b>> \o x)
  BY DEF Flow
<1> DEFINE packet == packets[n + 1]
           after == rest[n + 1]
           tail == <<packet.control>> \o (packet.body \o after)
<1>2. packet \in Outgoing /\ after \in Seq(Octet)
  BY <1>1, RestProperties
<1>3. tail \in Seq(Octet) /\ \A e \in Octet : <<e>> \o tail \in Seq(Octet)
  BY <1>2, WithinTails
<1>4. CASE r.digits = 1
  <2>1. PICK d \in Octet : AddDigit(r.size, d) = Len(packet.body) /\ <<b>> \o x = <<d>> \o tail
    <3>1. OneDigitLeft(r.size, packet, after, <<b>> \o x)
      BY <1>1, <1>4 DEF Within
    <3>2. QED
      BY <3>1 DEF OneDigitLeft
  <2>2. b = d /\ x = tail
    <3>1. <<b>> \o x = <<d>> \o tail /\ tail \in Seq(Octet)
      BY <1>3, <2>1
    <3> HIDE DEF tail
    <3>2. \A y \in Seq(Octet) : <<b>> \o x = <<d>> \o y => b = d /\ x = y
      BY SameFirst, ZenonT(90)
    <3>3. QED
      BY <3>1, <3>2, ZenonT(90)
  <2>3. Within(s, packet, after, x)
    BY <1>4, <2>1, <2>2 DEF Within
  <2>4. QED
    BY <1>1, <1>4, <2>3 DEF Flow
<1>5. CASE r.digits = 2
  <2>1. PICK d \in Octet, e \in Octet :
          /\ AddDigit(AddDigit(r.size, d), e) = Len(packet.body)
          /\ <<b>> \o x = <<d>> \o (<<e>> \o tail)
    <3>1. TwoDigitsLeft(r.size, packet, after, <<b>> \o x)
      BY <1>1, <1>5 DEF Within
    <3>2. QED
      BY <3>1 DEF TwoDigitsLeft
  <2>2. b = d /\ x = <<e>> \o tail
    <3> DEFINE y == <<e>> \o tail
    <3>1. /\ <<b>> \o x = <<d>> \o y /\ y \in Seq(Octet)
          /\ b \in Octet /\ d \in Octet /\ x \in Seq(Octet)
      BY <1>3, <2>1
    <3>2. \A z \in Seq(Octet) : <<b>> \o x = <<d>> \o z => b = d /\ x = z
      BY SameFirst, ZenonT(60)
    <3> HIDE DEF y
    <3>3. b = d /\ x = y
      BY <3>1, <3>2, Zenon
    <3>4. QED
      BY <3>3 DEF y
  <2>3. Within(s, packet, after, x)
    <3>1. s.at = "digits" /\ s.digits = 1
      BY <1>5
    <3>2. AddDigit(s.size, e) = Len(packet.body) /\ x = <<e>> \o tail
      BY <2>1, <2>2
    <3>3. QED
      BY <3>1, <3>2 DEF Within, OneDigitLeft
  <2>4. QED
    BY <1>1, <1>5, <2>3 DEF Flow
<1>6. QED
  BY <1>1, <1>4, <1>5 DEF Within

\* The control byte that an end reads is the packet's.
LEMMA FlowControl ==
  ASSUME NEW packets \in Seq(Outgoing), NEW n \in Nat, NEW b \in Octet,
         NEW x \in Seq(Octet), NEW r, r.at = "control", Flow(packets, n, r, <<b>> \o x),
         NEW s, s.at = "body", s.size = r.size, s.control = b
  PROVE  Flow(packets, n, s, x)
<1>1. PICK rest : /\ IsRest(rest, packets) /\ n < Len(packets) /\ n <= Len(packets)
                  /\ Within(r, packets[n + 1], rest[n + 1], <<b>> \o x)
  BY DEF Flow
<1> DEFINE packet == packets[n + 1]
           after == rest[n + 1]
           tail == packet.body \o after
<1>2. packet \in Outgoing /\ after \in Seq(Octet)
  BY <1>1, RestProperties
<1>3. packet.control \in Octet /\ tail \in Seq(Octet)
  BY <1>2, WithinTails
<1>4. r.size = Len(packet.body) /\ <<b>> \o x = <<packet.control>> \o tail
  BY <1>1 DEF Within
<1>5. b = packet.control /\ x = tail
  <2> DEFINE c == packet.control
  <2>1. c \in Octet /\ <<b>> \o x = <<c>> \o tail
    BY <1>3, <1>4
  <2> HIDE DEF c, tail
  <2>2. b = c /\ x = tail
    BY <1>3, <2>1, SameFirst, ZenonT(90)
  <2>3. QED
    BY <2>2 DEF c
<1>6. Within(s, packet, after, x)
  BY <1>4, <1>5 DEF Within
<1>7. QED
  BY <1>1, <1>6 DEF Flow

\* An end that has read a body has read the whole packet, and is before the
\* next one.
LEMMA FlowBody ==
  ASSUME NEW packets \in Seq(Outgoing), NEW n \in Nat, NEW body \in Seq(Octet),
         NEW x \in Seq(Octet), NEW r, r.at = "body", r.size = Len(body),
         Flow(packets, n, r, body \o x), NEW s, s.at = "size"
  PROVE  /\ n < Len(packets)
         /\ body = packets[n + 1].body /\ r.control = packets[n + 1].control
         /\ Flow(packets, n + 1, s, x)
<1>1. PICK rest : /\ IsRest(rest, packets) /\ n < Len(packets)
                  /\ Within(r, packets[n + 1], rest[n + 1], body \o x)
  BY DEF Flow
<1>2. packets[n + 1] \in Outgoing /\ rest[n + 1] \in Seq(Octet)
  BY <1>1, RestProperties
<1>3. /\ Len(body) = Len(packets[n + 1].body) /\ r.control = packets[n + 1].control
      /\ body \o x = packets[n + 1].body \o rest[n + 1]
  BY <1>1 DEF Within
<1>4. body = packets[n + 1].body /\ x = rest[n + 1]
  <2> DEFINE a == packets[n + 1].body
             y == rest[n + 1]
  <2>1. a \in Seq(Octet) /\ y \in Seq(Octet) /\ Len(body) = Len(a) /\ body \o x = a \o y
    BY <1>2, <1>3, FrameParts
  <2> HIDE DEF a, y
  <2>2. body = a /\ x = y
    BY <2>1, SameSplit, Zenon
  <2>3. QED
    BY <2>2 DEF a, y
<1>5. n + 1 <= Len(packets)
  BY <1>1, LenProperties
<1>6. QED
  BY <1>1, <1>3, <1>4, <1>5 DEF Flow

-----------------------------------------------------------------------------
\* The inductive invariant.  The other end's packets reach an end as the stream
\* that Flow describes; what is lost of it is still to be written as long as
\* the connection lasts.
Incoming(p) ==
  \E lost \in Seq(Octet) :
    /\ Flow(sent[Other(p)], Len(dispatched[p]), rx[p], wire[p] \o lost)
    /\ link /\ isOpen[p] /\ isOpen[Other(p)] => lost = out[Other(p)]

InOrder(p) ==
  \A i \in 1..Len(dispatched[p]) : dispatched[p][i].packet = sent[Other(p)][i]

\* The version that the two ends agree on, and an end's announcement.
Agreed(p) == Lower(MaxVersion[p], MaxVersion[Other(p)])
Announcement(p) == [control |-> Announce, body |-> <<MaxVersion[p]>>, made |-> 0]

\* An end makes packets at the version 0 or the agreed one, which it knows once
\* it has dispatched the other end's announcement.
Versions(p) ==
  /\ version[p] \in {0, Agreed(p)}
  /\ sent[p] # <<>> => sent[p][1] = Announcement(p)
  /\ \A i \in 1..Len(sent[p]) :
       /\ sent[p][i].made \in {0, Agreed(p)}
       /\ i > 1 => sent[p][i].control = Data
  /\ isOpen[p] /\ dispatched[p] # <<>> => version[p] = Agreed(p)

IInv ==
  /\ TypeOK
  /\ sent \in [Peers -> Seq(Outgoing)]
  /\ \A p \in Peers : Incoming(p) /\ InOrder(p) /\ Versions(p)
  /\ HandlerKnowsPacket

\* The ends agree on one version, which is a byte.
LEMMA AgreedProperties ==
  ASSUME NEW p \in Peers
  PROVE  /\ Agreed(p) \in Octet /\ Agreed(p) \in Nat
         /\ Agreed(Other(p)) = Agreed(p)
         /\ MaxVersion[p] \in Octet
         /\ 0 \in Octet /\ Announce \in Octet /\ Data \in Octet /\ Octet \subseteq Nat
<1>1. /\ Other(p) \in Peers /\ Other(Other(p)) = p
  BY OtherEnd
<1>2. MaxVersion[p] \in Octet /\ MaxVersion[Other(p)] \in Octet
  BY <1>1, HodAssumption
<1>3. 0 \in Octet /\ Octet \subseteq Nat
  BY PacketAssumption DEF Octet
<1>4. MaxVersion[p] \in Nat /\ MaxVersion[Other(p)] \in Nat
  BY <1>2, <1>3
<1>5. QED
  BY <1>1, <1>2, <1>3, <1>4, HodAssumption DEF Agreed, Lower

\* Nothing has been sent at first.
LEMMA InitIInv == Init => IInv
<1> SUFFICES ASSUME Init PROVE IInv
  OBVIOUS
<1>o. 0 \in Octet /\ \A p \in Peers : Other(p) \in Peers
  BY OtherEnd, PacketAssumption DEF Octet
<1>1. TypeOK
  <2>1. NextPacket \in [at : Stages, digits : Octet, size : Nat, control : Octet]
    BY <1>o DEF NextPacket, Stages
  <2>2. QED
    BY <1>o, <2>1, EmptySeq DEF Init, TypeOK
<1>2. sent \in [Peers -> Seq(Outgoing)]
  BY EmptySeq DEF Init
<1>3. ASSUME NEW p \in Peers PROVE Incoming(p) /\ InOrder(p) /\ Versions(p)
  <2>1. /\ sent[Other(p)] = <<>> /\ dispatched[p] = <<>> /\ wire[p] = <<>>
        /\ rx[p].at = "size" /\ out[Other(p)] = <<>>
    BY <1>o DEF Init, NextPacket
  <2>2. Len(<<>>) = 0 /\ <<>> \in Seq(Octet) /\ <<>> \o <<>> = <<>>
    BY EmptySeq, ConcatEmptySeq
  <2>3. Flow(<<>>, 0, rx[p], <<>>)
    <3> DEFINE rest == [i \in 0..0 |-> <<>>]
    <3>1. IsRest(rest, <<>>) /\ rest[0] = <<>>
      BY <2>2 DEF IsRest
    <3> HIDE DEF rest
    <3>2. QED
      BY <2>1, <2>2, <3>1 DEF Flow
  <2>4. Incoming(p)
    BY <2>1, <2>2, <2>3 DEF Incoming
  <2>5. InOrder(p)
    BY <2>1, <2>2 DEF InOrder
  <2>6. Versions(p)
    BY <2>1, <2>2 DEF Init, Versions
  <2>7. QED
    BY <2>4, <2>5, <2>6
<1>4. HandlerKnowsPacket
  BY EmptySeq DEF Init, HandlerKnowsPacket
<1>5. QED
  BY <1>1, <1>2, <1>3, <1>4 DEF IInv

\* What a step leaves alone of an end's stream, packets and versions.  Closing
\* the end that writes the stream does not touch it either.
LEMMA IncomingKept ==
  ASSUME NEW p \in Peers, Incoming(p),
         sent'[Other(p)] = sent[Other(p)], dispatched'[p] = dispatched[p],
         rx'[p] = rx[p], wire'[p] = wire[p],
         link' /\ isOpen'[p] /\ isOpen'[Other(p)] =>
           link /\ isOpen[p] /\ isOpen[Other(p)] /\ out'[Other(p)] = out[Other(p)]
  PROVE  Incoming(p)'
<1>1. PICK lost \in Seq(Octet) :
        /\ Flow(sent[Other(p)], Len(dispatched[p]), rx[p], wire[p] \o lost)
        /\ link /\ isOpen[p] /\ isOpen[Other(p)] => lost = out[Other(p)]
  BY DEF Incoming
<1>2. Flow(sent'[Other(p)], Len(dispatched'[p]), rx'[p], wire'[p] \o lost)
  BY <1>1
<1>3. QED
  BY <1>1, <1>2 DEF Incoming

LEMMA VersionsKept ==
  ASSUME NEW p \in Peers, Versions(p),
         version'[p] = version[p], sent'[p] = sent[p], dispatched'[p] = dispatched[p],
         isOpen'[p] => isOpen[p]
  PROVE  Versions(p)'
BY DEF Versions, Agreed, Announcement

LEMMA InOrderKept ==
  ASSUME NEW p \in Peers, InOrder(p),
         dispatched'[p] = dispatched[p], sent'[Other(p)] = sent[Other(p)]
  PROVE  InOrder(p)'
BY DEF InOrder

\* What the application offers can be sent, and is made at its end's version.
LEMMA OfferedProperties ==
  ASSUME IInv, NEW p \in Peers, NEW packet \in Offered(p), Sendable(Len(packet.body))
  PROVE  /\ packet \in Packet /\ packet \in Outgoing
         /\ packet.made \in {0, Agreed(p)}
         /\ sent[p] = <<>> => packet = Announcement(p)
         /\ sent[p] # <<>> => packet.control = Data
<1>1. version[p] \in Octet /\ version[p] \in {0, Agreed(p)}
  BY DEF IInv, TypeOK, Versions
<1>2. <<MaxVersion[p]>> \in Seq(Octet) /\ Bodies \subseteq Seq(Octet)
  BY AgreedProperties, HodAssumption
<1>3. CASE sent[p] = <<>>
  <2>1. packet = Announcement(p)
    BY <1>3 DEF Offered, Announcement
  <2>2. packet \in Packet /\ packet.made = 0
    BY <2>1, <1>2, AgreedProperties DEF Announcement, Packet
  <2>3. QED
    BY <1>3, <2>1, <2>2 DEF Outgoing
<1>4. CASE sent[p] # <<>>
  <2>1. PICK body \in Bodies : packet = [control |-> Data, body |-> body, made |-> version[p]]
    BY <1>4 DEF Offered
  <2>2. packet \in Packet
    BY <2>1, <1>1, <1>2, AgreedProperties DEF Packet
  <2>3. QED
    BY <1>1, <1>4, <2>1, <2>2 DEF Outgoing
<1>5. QED
  BY <1>3, <1>4

\* A packet sent is added to the other end's stream.
LEMMA SendStep ==
  ASSUME IInv, NEW p \in Peers, NEW packet \in Offered(p), Send(p, packet)
  PROVE  IInv'
<1>1. /\ packet \in Packet /\ packet \in Outgoing /\ packet.made \in {0, Agreed(p)}
      /\ sent[p] = <<>> => packet = Announcement(p)
      /\ sent[p] # <<>> => packet.control = Data
  BY OfferedProperties DEF Send
<1>2. /\ isOpen[p] /\ out[p] = <<>>
      /\ out' = [out EXCEPT ![p] = Frame(packet)]
      /\ sent' = [sent EXCEPT ![p] = Append(sent[p], packet)]
      /\ UNCHANGED <<version, isOpen, link, deaf, wire, rx, dispatched>>
  BY DEF Send
<1>3. /\ sent \in [Peers -> Seq(Outgoing)] /\ sent \in [Peers -> Seq(Packet)]
      /\ out \in [Peers -> Seq(Octet)] /\ wire \in [Peers -> Seq(Octet)]
      /\ dispatched \in [Peers -> Seq([packet : Packet, at : Octet])]
  BY DEF IInv, TypeOK
<1>4. /\ Frame(packet) \in Seq(Octet)
      /\ Append(sent[p], packet) \in Seq(Packet) /\ Append(sent[p], packet) \in Seq(Outgoing)
      /\ Append(sent[p], packet) # <<>> /\ Len(sent[p]) \in Nat
      /\ Len(Append(sent[p], packet)) = Len(sent[p]) + 1
      /\ \A i \in 1..Len(sent[p]) : Append(sent[p], packet)[i] = sent[p][i]
      /\ Append(sent[p], packet)[Len(sent[p]) + 1] = packet
  <2>1. sent[p] \in Seq(Packet) /\ sent[p] \in Seq(Outgoing)
    BY <1>3
  <2>2. Append(sent[p], packet) \in Seq(Packet)
    BY <1>1, <2>1, AppendProperties
  <2>3. Frame(packet) \in Seq(Octet)
    BY <1>1, FrameParts
  <2>4. /\ Append(sent[p], packet) \in Seq(Outgoing)
        /\ Append(sent[p], packet) # <<>>
        /\ Len(Append(sent[p], packet)) = Len(sent[p]) + 1
        /\ \A i \in 1..Len(sent[p]) : Append(sent[p], packet)[i] = sent[p][i]
        /\ Append(sent[p], packet)[Len(sent[p]) + 1] = packet
    BY <1>1, <2>1, AppendProperties
  <2>5. Len(sent[p]) \in Nat
    BY <2>1, LenProperties
  <2>6. QED
    BY <2>2, <2>3, <2>4, <2>5
<1>5. TypeOK' /\ sent' \in [Peers -> Seq(Outgoing)]
  BY <1>2, <1>3, <1>4 DEF IInv, TypeOK
<1>6. ASSUME NEW q \in Peers PROVE Incoming(q)'
  <2>1. Incoming(q)
    BY DEF IInv
  <2>2. CASE Other(q) = p
    <3>1. PICK lost \in Seq(Octet) :
            /\ Flow(sent[p], Len(dispatched[q]), rx[q], wire[q] \o lost)
            /\ link /\ isOpen[q] /\ isOpen[p] => lost = out[p]
      BY <2>1, <2>2 DEF Incoming
    <3>2. Len(dispatched[q]) \in Nat /\ sent[p] \in Seq(Outgoing) /\ wire[q] \in Seq(Octet)
      BY <1>3, LenProperties
    <3>3. Flow(Append(sent[p], packet), Len(dispatched[q]), rx[q],
               (wire[q] \o lost) \o Frame(packet))
      BY <1>1, <3>1, <3>2, FlowGrows
    <3>4. (wire[q] \o lost) \o Frame(packet) = wire[q] \o (lost \o Frame(packet))
      BY <1>4, <3>2, Associative, ZenonT(60)
    <3>5. lost \o Frame(packet) \in Seq(Octet)
      BY <1>4, Concat, ZenonT(60)
    <3>6. Flow(sent'[p], Len(dispatched'[q]), rx'[q], wire'[q] \o (lost \o Frame(packet)))
      BY <1>2, <1>3, <3>3, <3>4
    <3>7. link' /\ isOpen'[q] /\ isOpen'[p] => lost \o Frame(packet) = out'[p]
      <4>1. <<>> \o Frame(packet) = Frame(packet)
        BY <1>4, ConcatEmptySeq
      <4>2. QED
        BY <1>2, <1>3, <3>1, <4>1
    <3>8. QED
      BY <2>2, <3>5, <3>6, <3>7 DEF Incoming
  <2>3. CASE Other(q) # p
    BY <1>2, <1>3, <2>1, <2>3, OtherEnd, IncomingKept
  <2>4. QED
    BY <2>2, <2>3
<1>7. ASSUME NEW q \in Peers PROVE InOrder(q)'
  <2>2. Len(dispatched[q]) <= Len(sent[Other(q)])
    BY DEF IInv, Incoming, Flow
  <2>3. \A i \in 1..Len(dispatched[q]) : sent'[Other(q)][i] = sent[Other(q)][i]
    <3>1. Len(dispatched[q]) \in Nat /\ Other(q) \in Peers
      BY <1>3, LenProperties, OtherEnd
    <3>2. QED
      BY <1>2, <1>3, <1>4, <2>2, <3>1, SMTT(40)
  <2>4. QED
    BY <1>2, <2>3 DEF IInv, InOrder
<1>8. ASSUME NEW q \in Peers PROVE Versions(q)'
  <2>1. CASE q = p
    <3>1. sent'[q] = Append(sent[p], packet)
      BY <1>2, <1>3, <2>1
    <3>2. Versions(p)
      BY DEF IInv
    <3>3. sent'[q][1] = Announcement(q)
      <4>1. CASE sent[p] = <<>>
        BY <1>1, <1>4, <2>1, <3>1, <4>1
      <4>2. CASE sent[p] # <<>>
        <5>1. 1 \in 1..Len(sent[p])
          BY <1>3, <4>2, EmptySeq
        <5>2. QED
          BY <1>4, <2>1, <3>1, <3>2, <4>2, <5>1 DEF Versions
      <4>3. QED
        BY <4>1, <4>2
    <3>4. ASSUME NEW i \in 1..Len(sent'[q])
          PROVE  /\ sent'[q][i].made \in {0, Agreed(q)}
                 /\ i > 1 => sent'[q][i].control = Data
      <4>1. CASE i \in 1..Len(sent[p])
        BY <1>4, <2>1, <3>1, <3>2, <4>1 DEF Versions
      <4>2. CASE i = Len(sent[p]) + 1
        <5>1. i > 1 => sent[p] # <<>>
          BY <1>4, <4>2, EmptySeq
        <5>2. QED
          BY <1>1, <1>4, <2>1, <3>1, <4>2, <5>1
      <4>3. QED
        BY <1>4, <3>1, <4>1, <4>2
    <3>5. QED
      BY <1>2, <2>1, <3>2, <3>3, <3>4 DEF Versions, Agreed, Announcement
  <2>2. CASE q # p
    BY <1>2, <1>3, <2>2, VersionsKept DEF IInv
  <2>3. QED
    BY <2>1, <2>2
<1>9. HandlerKnowsPacket'
  BY <1>2 DEF IInv, HandlerKnowsPacket
<1>10. QED
  BY <1>5, <1>6, <1>7, <1>8, <1>9 DEF IInv

\* A step that neither sends nor dispatches keeps the order and the versions.
LEMMA QuietStep ==
  ASSUME IInv, UNCHANGED <<version, sent, dispatched>>,
         \A p \in Peers : isOpen'[p] => isOpen[p]
  PROVE  /\ sent' \in [Peers -> Seq(Outgoing)]
         /\ \A p \in Peers : InOrder(p)' /\ Versions(p)'
         /\ HandlerKnowsPacket'
<1>1. ASSUME NEW p \in Peers PROVE InOrder(p)' /\ Versions(p)'
  BY InOrderKept, VersionsKept DEF IInv
<1>2. QED
  BY <1>1 DEF IInv, HandlerKnowsPacket

\* What goes out of an end is on its way to the other one.
LEMMA WriteSomeStep ==
  ASSUME IInv, NEW p \in Peers, NEW k \in 1..Len(out[p]), WriteSome(p, k)
  PROVE  IInv'
<1> DEFINE o == Other(p)
           moved == SubSeq(out[p], 1, k)
           kept == SubSeq(out[p], k + 1, Len(out[p]))
<1>1. /\ isOpen[p] /\ isOpen[o] /\ link
      /\ wire' = [wire EXCEPT ![o] = wire[o] \o moved]
      /\ out' = [out EXCEPT ![p] = kept]
      /\ UNCHANGED <<version, isOpen, link, deaf, rx, sent, dispatched>>
  BY DEF WriteSome
<1>2. /\ out \in [Peers -> Seq(Octet)] /\ wire \in [Peers -> Seq(Octet)]
      /\ o \in Peers /\ Other(o) = p /\ o # p
  BY OtherEnd DEF IInv, TypeOK
<1>3. k \in 0..Len(out[p])
  BY <1>2, LenProperties
<1>4. moved \in Seq(Octet) /\ kept \in Seq(Octet) /\ moved \o kept = out[p]
  BY <1>2, <1>3, Taken
<1> HIDE DEF moved, kept, o
<1>5. wire[o] \o moved \in Seq(Octet) /\ wire[o] \in Seq(Octet)
  BY <1>2, <1>4, Concat
<1>6. TypeOK'
  BY <1>1, <1>2, <1>4, <1>5 DEF IInv, TypeOK
<1>7. ASSUME NEW q \in Peers PROVE Incoming(q)'
  <2>1. CASE q = o
    <3>1. Flow(sent[p], Len(dispatched[o]), rx[o], wire[o] \o out[p])
      BY <1>1, <1>2, <2>1 DEF IInv, Incoming
    <3>2. (wire[o] \o moved) \o kept = wire[o] \o (moved \o kept)
      BY <1>4, <1>5, Associative, ZenonT(60)
    <3>3. wire'[o] \o kept = wire[o] \o out[p]
      BY <1>1, <1>2, <1>4, <3>2
    <3>4. Flow(sent'[p], Len(dispatched'[o]), rx'[o], wire'[o] \o kept)
      BY <1>1, <3>1, <3>3
    <3>5. out'[p] = kept
      BY <1>1, <1>2
    <3>6. QED
      BY <1>2, <1>4, <2>1, <3>4, <3>5 DEF Incoming
  <2>2. CASE q # o
    <3>1. q = p /\ Other(q) = o
      BY <2>2, <1>2, OtherEnd DEF o
    <3>2. wire'[q] = wire[q] /\ out'[o] = out[o]
      BY <3>1, <1>1, <1>2
    <3>3. QED
      BY <1>1, <3>1, <3>2, IncomingKept DEF IInv
  <2>3. QED
    BY <2>1, <2>2
<1>8. QED
  BY <1>1, <1>6, <1>7, QuietStep DEF IInv

\* An end that only closes leaves what it sent before to the other one.
LEMMA CloseStep ==
  ASSUME IInv, NEW p \in Peers, Close(p),
         UNCHANGED <<version, link, deaf, wire, rx, sent, dispatched>>
  PROVE  IInv'
<1>1. /\ isOpen' = [isOpen EXCEPT ![p] = FALSE] /\ out' = [out EXCEPT ![p] = <<>>]
      /\ isOpen \in [Peers -> BOOLEAN] /\ out \in [Peers -> Seq(Octet)]
  BY DEF Close, IInv, TypeOK
<1>2. TypeOK'
  BY <1>1, EmptySeq DEF IInv, TypeOK
<1>3. ASSUME NEW q \in Peers PROVE Incoming(q)'
  BY <1>1, OtherEnd, IncomingKept DEF IInv
<1>4. \A q \in Peers : isOpen'[q] => isOpen[q]
  BY <1>1
<1>5. QED
  BY <1>2, <1>3, <1>4, QuietStep DEF IInv

\* What the socket takes for nothing was lost before it took it.
LEMMA WriteLostStep ==
  ASSUME IInv, NEW p \in Peers, WriteLost(p)
  PROVE  IInv'
<1>1. /\ ~(link /\ isOpen[Other(p)]) /\ out' = [out EXCEPT ![p] = <<>>]
      /\ UNCHANGED <<version, isOpen, link, deaf, wire, rx, sent, dispatched>>
      /\ out \in [Peers -> Seq(Octet)]
  BY DEF WriteLost, IInv, TypeOK
<1>2. TypeOK'
  BY <1>1, EmptySeq DEF IInv, TypeOK
<1>3. ASSUME NEW q \in Peers PROVE Incoming(q)'
  <2>1. CASE q = p
    <3>1. Other(q) \in Peers /\ Other(q) # p
      BY <2>1, OtherEnd
    <3>2. QED
      BY <1>1, <3>1, IncomingKept DEF IInv
  <2>2. CASE q # p
    <3>1. PICK lost \in Seq(Octet) :
            Flow(sent[Other(q)], Len(dispatched[q]), rx[q], wire[q] \o lost)
      BY DEF IInv, Incoming
    <3>2. Flow(sent'[Other(q)], Len(dispatched'[q]), rx'[q], wire'[q] \o lost)
      BY <1>1, <3>1
    <3>3. Other(q) = p /\ q = Other(p)
      BY <2>2, OtherEnd
    <3>4. ~(link' /\ isOpen'[q])
      BY <1>1, <3>3
    <3>5. QED
      BY <3>2, <3>4 DEF Incoming
  <2>3. QED
    BY <2>1, <2>2
<1>4. QED
  BY <1>1, <1>2, <1>3, QuietStep DEF IInv

\* The news of a broken network changes nothing of the stream.
LEMMA ReportStep ==
  ASSUME IInv, NEW p \in Peers, Report(p)
  PROVE  IInv'
<1>1. /\ deaf' \subseteq Peers
      /\ UNCHANGED <<version, isOpen, link, out, wire, rx, sent, dispatched>>
  BY DEF Report, IInv, TypeOK
<1>2. TypeOK'
  BY <1>1 DEF IInv, TypeOK
<1>3. ASSUME NEW q \in Peers PROVE Incoming(q)'
  BY <1>1, IncomingKept DEF IInv
<1>4. QED
  BY <1>1, <1>2, <1>3, QuietStep DEF IInv

\* The network loses the end of what is in flight, and then carries nothing.
LEMMA BreakStep ==
  ASSUME IInv, Break
  PROVE  IInv'
<1>1. PICK keep \in {Len(wire[p]) : p \in Peers} \cup {0, 1} :
        wire' = [p \in Peers |-> SubSeq(wire[p], 1, Lower(keep, Len(wire[p])))]
  BY DEF Break
<1>2. /\ wire \in [Peers -> Seq(Octet)] /\ link' = FALSE /\ deaf' \subseteq Peers
      /\ UNCHANGED <<version, isOpen, out, rx, sent, dispatched>>
  BY DEF IInv, TypeOK, Break
<1>3. keep \in Nat
  BY <1>1, <1>2, LenProperties
<1>4. ASSUME NEW p \in Peers
      PROVE  /\ wire'[p] \in Seq(Octet)
             /\ \E cut \in Seq(Octet) : wire[p] = wire'[p] \o cut
  <2> DEFINE n == Lower(keep, Len(wire[p]))
  <2>1. n \in 0..Len(wire[p]) /\ wire[p] \in Seq(Octet)
    BY <1>2, <1>3, LenProperties DEF Lower
  <2>2. wire'[p] = SubSeq(wire[p], 1, n)
    BY <1>1
  <2> HIDE DEF n
  <2>3. /\ SubSeq(wire[p], 1, n) \in Seq(Octet)
        /\ SubSeq(wire[p], n + 1, Len(wire[p])) \in Seq(Octet)
        /\ SubSeq(wire[p], 1, n) \o SubSeq(wire[p], n + 1, Len(wire[p])) = wire[p]
    BY <2>1, EmptySeq, Taken
  <2>4. QED
    BY <2>2, <2>3
<1>5. TypeOK'
  <2>1. wire' \in [Peers -> Seq(Octet)]
    BY <1>1, <1>4
  <2>2. QED
    BY <1>2, <2>1 DEF IInv, TypeOK
<1>6. ASSUME NEW p \in Peers PROVE Incoming(p)'
  <2>1. PICK lost \in Seq(Octet) :
          Flow(sent[Other(p)], Len(dispatched[p]), rx[p], wire[p] \o lost)
    BY DEF IInv, Incoming
  <2>2. PICK cut \in Seq(Octet) : wire[p] = wire'[p] \o cut
    BY <1>4
  <2>3. (wire'[p] \o cut) \o lost = wire'[p] \o (cut \o lost)
    BY <1>4, Associative, ZenonT(60)
  <2>4. cut \o lost \in Seq(Octet)
    BY Concat, ZenonT(60)
  <2>5. Flow(sent'[Other(p)], Len(dispatched'[p]), rx'[p], wire'[p] \o (cut \o lost))
    BY <1>2, <2>1, <2>2, <2>3
  <2>6. QED
    BY <1>2, <2>4, <2>5 DEF Incoming
<1>7. QED
  BY <1>2, <1>5, <1>6, QuietStep DEF IInv

-----------------------------------------------------------------------------
\* An end that reads a byte takes it from the stream before it.
LEMMA ReadsByte ==
  ASSUME IInv, NEW p \in Peers, NEW stage, Reads(p, stage, 1)
  PROVE  /\ isOpen[p] /\ rx[p].at = stage
         /\ wire' = [wire EXCEPT ![p] = SubSeq(wire[p], 2, Len(wire[p]))]
         /\ wire[p][1] \in Octet /\ wire' \in [Peers -> Seq(Octet)]
         /\ \E lost \in Seq(Octet) :
              /\ Flow(sent[Other(p)], Len(dispatched[p]), rx[p],
                      <<wire[p][1]>> \o (wire'[p] \o lost))
              /\ wire'[p] \o lost \in Seq(Octet)
              /\ link /\ isOpen[p] /\ isOpen[Other(p)] => lost = out[Other(p)]
<1>1. wire \in [Peers -> Seq(Octet)] /\ wire[p] \in Seq(Octet) /\ Len(wire[p]) >= 1
  BY DEF IInv, TypeOK, Reads
<1>2. wire' = [wire EXCEPT ![p] = SubSeq(wire[p], 2, Len(wire[p]))]
  <2>1. 1 + 1 = 2
    OBVIOUS
  <2>2. QED
    BY <2>1 DEF Reads
<1>3. wire[p][1] \in Octet /\ SubSeq(wire[p], 2, Len(wire[p])) \in Seq(Octet)
  BY <1>1, EmptySeq, FirstTaken
<1>4. wire' \in [Peers -> Seq(Octet)] /\ wire'[p] = SubSeq(wire[p], 2, Len(wire[p]))
  BY <1>1, <1>2, <1>3
<1>5. PICK lost \in Seq(Octet) :
        /\ Flow(sent[Other(p)], Len(dispatched[p]), rx[p], wire[p] \o lost)
        /\ link /\ isOpen[p] /\ isOpen[Other(p)] => lost = out[Other(p)]
  BY DEF IInv, Incoming
<1>6. wire[p] \o lost = <<wire[p][1]>> \o (wire'[p] \o lost)
  <2>1. wire[p] \o lost = <<wire[p][1]>> \o (SubSeq(wire[p], 2, Len(wire[p])) \o lost)
    BY <1>1, FirstTaken
  <2>2. QED
    BY <1>4, <2>1
<1>7. wire'[p] \o lost \in Seq(Octet)
  BY <1>4, Concat
<1>8. QED
  BY <1>2, <1>3, <1>4, <1>5, <1>6, <1>7 DEF Reads

\* What the other end sends is a sequence of packets.
LEMMA FlowTypes ==
  ASSUME IInv, NEW p \in Peers
  PROVE  sent[Other(p)] \in Seq(Outgoing) /\ Len(dispatched[p]) \in Nat
<1>1. /\ sent \in [Peers -> Seq(Outgoing)] /\ Other(p) \in Peers
      /\ dispatched \in [Peers -> Seq([packet : Packet, at : Octet])]
  BY OtherEnd DEF IInv, TypeOK
<1>2. QED
  BY <1>1, LenProperties

\* The reader of another stream is not affected by what an end reads.
LEMMA OtherIncoming ==
  ASSUME IInv, NEW p \in Peers, NEW q \in Peers, q # p,
         UNCHANGED <<link, deaf, sent>>, dispatched'[q] = dispatched[q],
         rx'[q] = rx[q], wire'[q] = wire[q],
         isOpen'[q] => isOpen[q], isOpen'[p] => isOpen[p] /\ out'[p] = out[p]
  PROVE  Incoming(q)'
<1>1. Other(q) = p
  BY OtherEnd
<1>2. QED
  BY <1>1, IncomingKept DEF IInv

\* A byte that takes an end on inside a packet, with the socket left open.
LEMMA ByteStep ==
  ASSUME IInv, NEW p \in Peers, NEW stage, Reads(p, stage, 1),
         rx' \in [Peers -> [at : Stages, digits : Octet, size : Nat, control : Octet]],
         \A q \in Peers : q # p => rx'[q] = rx[q],
         UNCHANGED <<version, isOpen, link, deaf, out, sent, dispatched>>,
         \A x \in Seq(Octet) :
           Flow(sent[Other(p)], Len(dispatched[p]), rx[p], <<wire[p][1]>> \o x)
             => Flow(sent[Other(p)], Len(dispatched[p]), rx'[p], x)
  PROVE  IInv'
<1>1. /\ wire' = [wire EXCEPT ![p] = SubSeq(wire[p], 2, Len(wire[p]))]
      /\ wire' \in [Peers -> Seq(Octet)]
  BY ReadsByte
<1>2. TypeOK'
  BY <1>1 DEF IInv, TypeOK
<1>3. Incoming(p)'
  <2>1. PICK lost \in Seq(Octet) :
          /\ Flow(sent[Other(p)], Len(dispatched[p]), rx[p],
                  <<wire[p][1]>> \o (wire'[p] \o lost))
          /\ wire'[p] \o lost \in Seq(Octet)
          /\ link /\ isOpen[p] /\ isOpen[Other(p)] => lost = out[Other(p)]
    BY ReadsByte
  <2>2. Flow(sent[Other(p)], Len(dispatched[p]), rx'[p], wire'[p] \o lost)
    BY <2>1
  <2>3. QED
    BY <2>1, <2>2 DEF Incoming
<1>4. ASSUME NEW q \in Peers, q # p PROVE Incoming(q)'
  <2>1. wire'[q] = wire[q] /\ rx'[q] = rx[q]
    BY <1>1, <1>4 DEF IInv, TypeOK
  <2>2. QED
    BY <1>4, <2>1, OtherIncoming
<1>5. \A q \in Peers : Incoming(q)'
  BY <1>3, <1>4
<1>6. QED
  BY <1>2, <1>5, QuietStep DEF IInv

\* The first byte of a packet is always the start of a size: the branch that
\* gives up the connection is never taken.
LEMMA ReadSizeByteStep ==
  ASSUME IInv, NEW p \in Peers, ReadSizeByte(p)
  PROVE  IInv' /\ IsSize(wire[p][1])
<1> DEFINE b == wire[p][1]
           at == IF Digits(b) = 0 THEN "control" ELSE "digits"
           size == IF Digits(b) = 0 THEN b ELSE 0
<1>1. Reads(p, "size", 1) /\ rx[p].at = "size" /\ b \in Octet
  BY ReadsByte DEF ReadSizeByte
<1>2. sent[Other(p)] \in Seq(Outgoing) /\ Len(dispatched[p]) \in Nat
  BY FlowTypes
<1>3. \A x \in Seq(Octet) : \A s :
        Flow(sent[Other(p)], Len(dispatched[p]), rx[p], <<b>> \o x)
          /\ s.at = at /\ s.digits = Digits(b) /\ s.size = size
          => /\ IsSize(b) /\ Digits(b) \in {0, 1, 2}
             /\ Flow(sent[Other(p)], Len(dispatched[p]), s, x)
  BY <1>1, <1>2, FlowSizeByte
<1>4. IsSize(b) /\ Digits(b) \in {0, 1, 2}
  <2>1. \E s : s.at = at /\ s.digits = Digits(b) /\ s.size = size
    <3>1. /\ [at |-> at, digits |-> Digits(b), size |-> size].at = at
          /\ [at |-> at, digits |-> Digits(b), size |-> size].digits = Digits(b)
          /\ [at |-> at, digits |-> Digits(b), size |-> size].size = size
      OBVIOUS
    <3> HIDE DEF at, size
    <3>2. QED
      BY <3>1
  <2>2. QED
    BY <1>1, <1>3, <2>1, ReadsByte, ZenonT(180)
<1>t. rx \in [Peers -> [at : Stages, digits : Octet, size : Nat, control : Octet]]
  BY DEF IInv, TypeOK
<1>5. /\ rx' = [rx EXCEPT ![p] = [NextPacket EXCEPT !.at = at, !.digits = Digits(b),
                                                   !.size = size]]
      /\ UNCHANGED <<version, isOpen, link, deaf, out, sent, dispatched>>
  BY <1>4 DEF ReadSizeByte
<1>6. {0, 1, 2} \subseteq Octet /\ b \in Nat
  BY <1>1, PacketAssumption DEF Octet
<1>7. at \in Stages /\ Digits(b) \in Octet /\ size \in Nat
  BY <1>4, <1>6 DEF Stages
<1> HIDE DEF at, size
<1>8. /\ rx' \in [Peers -> [at : Stages, digits : Octet, size : Nat, control : Octet]]
      /\ rx'[p].at = at /\ rx'[p].digits = Digits(b) /\ rx'[p].size = size
      /\ \A q \in Peers : q # p => rx'[q] = rx[q]
  BY <1>t, <1>5, <1>6, <1>7 DEF NextPacket
<1>9. IInv'
  BY <1>1, <1>3, <1>5, <1>8, ByteStep
<1>10. QED
  BY <1>4, <1>9

\* A digit of the size.
LEMMA ReadDigitStep ==
  ASSUME IInv, NEW p \in Peers, ReadDigit(p)
  PROVE  IInv'
<1> DEFINE b == wire[p][1]
           at == IF rx[p].digits = 1 THEN "control" ELSE "digits"
<1>1. Reads(p, "digits", 1) /\ rx[p].at = "digits" /\ b \in Octet
  BY ReadsByte DEF ReadDigit
<1>2. sent[Other(p)] \in Seq(Outgoing) /\ Len(dispatched[p]) \in Nat
  BY FlowTypes
<1>3. \A x \in Seq(Octet) :
        Flow(sent[Other(p)], Len(dispatched[p]), rx[p], <<b>> \o x)
          => rx[p].digits \in {1, 2}
  BY <1>1, <1>2 DEF Flow, Within
<1>4. rx[p].digits \in {1, 2}
  BY <1>1, <1>3, ReadsByte
<1>t. rx \in [Peers -> [at : Stages, digits : Octet, size : Nat, control : Octet]]
  BY DEF IInv, TypeOK
<1>5. /\ rx' = [rx EXCEPT ![p].size = AddDigit(rx[p].size, b),
                          ![p].digits = rx[p].digits - 1, ![p].at = at]
      /\ UNCHANGED <<version, isOpen, link, deaf, out, sent, dispatched>>
  BY <1>t DEF ReadDigit
<1>6. at \in Stages /\ rx[p].digits - 1 \in Octet /\ AddDigit(rx[p].size, b) \in Nat
  <2>1. {0, 1} \subseteq Octet /\ b \in Nat /\ Radix \in Nat
    BY <1>1, PacketAssumption DEF Octet
  <2>2. rx[p].size \in Nat
    BY <1>t
  <2>3. AddDigit(rx[p].size, b) \in Nat
    BY <2>1, <2>2 DEF AddDigit
  <2>4. QED
    BY <1>4, <2>1, <2>3 DEF Stages
<1>7. /\ rx' \in [Peers -> [at : Stages, digits : Octet, size : Nat, control : Octet]]
      /\ rx'[p].at = at /\ rx'[p].digits = rx[p].digits - 1
      /\ rx'[p].size = AddDigit(rx[p].size, b)
      /\ \A q \in Peers : q # p => rx'[q] = rx[q]
  <2> HIDE DEF at
  <2>1. QED
    BY <1>t, <1>5, <1>6
<1>8. \A x \in Seq(Octet) :
        Flow(sent[Other(p)], Len(dispatched[p]), rx[p], <<b>> \o x)
          => Flow(sent[Other(p)], Len(dispatched[p]), rx'[p], x)
  BY <1>1, <1>2, <1>7, FlowDigit
<1>9. QED
  BY <1>1, <1>5, <1>7, <1>8, ByteStep

\* The control byte.
LEMMA ReadControlStep ==
  ASSUME IInv, NEW p \in Peers, ReadControl(p)
  PROVE  IInv'
<1> DEFINE b == wire[p][1]
<1>1. Reads(p, "control", 1) /\ rx[p].at = "control" /\ b \in Octet
  BY ReadsByte DEF ReadControl
<1>2. sent[Other(p)] \in Seq(Outgoing) /\ Len(dispatched[p]) \in Nat
  BY FlowTypes
<1>3. rx \in [Peers -> [at : Stages, digits : Octet, size : Nat, control : Octet]]
  BY DEF IInv, TypeOK
<1>4. /\ rx' = [rx EXCEPT ![p].control = b, ![p].at = "body"]
      /\ UNCHANGED <<version, isOpen, link, deaf, out, sent, dispatched>>
  BY DEF ReadControl
<1>5. /\ rx' \in [Peers -> [at : Stages, digits : Octet, size : Nat, control : Octet]]
      /\ rx'[p].at = "body" /\ rx'[p].size = rx[p].size /\ rx'[p].control = b
      /\ \A q \in Peers : q # p => rx'[q] = rx[q]
  BY <1>1, <1>3, <1>4 DEF Stages
<1>6. \A x \in Seq(Octet) :
        Flow(sent[Other(p)], Len(dispatched[p]), rx[p], <<b>> \o x)
          => Flow(sent[Other(p)], Len(dispatched[p]), rx'[p], x)
  BY <1>1, <1>2, <1>5, FlowControl
<1>7. QED
  BY <1>1, <1>4, <1>5, <1>6, ByteStep

\* The packet that an end dispatches is the next one that the other end sent.
LEMMA DispatchedPacket ==
  ASSUME IInv, NEW p \in Peers, Dispatch(p)
  PROVE  LET n == Len(dispatched[p])
             packet == sent[Other(p)][n + 1]
         IN /\ n \in Nat /\ n < Len(sent[Other(p)])
            /\ packet \in Packet
            /\ rx[p].control = packet.control
            /\ SubSeq(wire[p], 1, rx[p].size) = packet.body
            /\ dispatched' = [dispatched EXCEPT
                  ![p] = Append(dispatched[p], [packet |-> packet, at |-> version[p]])]
            /\ Incoming(p)'
            /\ wire' \in [Peers -> Seq(Octet)]
            /\ \A q \in Peers : q # p => wire'[q] = wire[q]
<1> DEFINE n == Len(dispatched[p])
           size == rx[p].size
           body == SubSeq(wire[p], 1, size)
           kept == SubSeq(wire[p], size + 1, Len(wire[p]))
           packet == sent[Other(p)][n + 1]
<1>t. /\ wire \in [Peers -> Seq(Octet)] /\ wire[p] \in Seq(Octet)
      /\ rx \in [Peers -> [at : Stages, digits : Octet, size : Nat, control : Octet]]
      /\ isOpen \in [Peers -> BOOLEAN] /\ out \in [Peers -> Seq(Octet)]
      /\ dispatched \in [Peers -> Seq([packet : Packet, at : Octet])]
  BY DEF IInv, TypeOK
<1>s. sent[Other(p)] \in Seq(Outgoing) /\ n \in Nat /\ Len(sent[Other(p)]) \in Nat
  BY FlowTypes, LenProperties
<1>1. /\ isOpen[p] /\ rx[p].at = "body" /\ size \in 0..Len(wire[p])
      /\ wire' = [wire EXCEPT ![p] = kept]
  BY <1>t, LenProperties DEF Dispatch, Reads
<1>2. /\ body \in Seq(Octet) /\ Len(body) = size /\ kept \in Seq(Octet)
      /\ \A x \in Seq(Octet) : wire[p] \o x = body \o (kept \o x)
  BY <1>t, <1>1, Taken, ZenonT(60)
<1>3. PICK lost \in Seq(Octet) :
        /\ Flow(sent[Other(p)], n, rx[p], wire[p] \o lost)
        /\ link /\ isOpen[p] /\ isOpen[Other(p)] => lost = out[Other(p)]
  BY DEF IInv, Incoming
<1>4. kept \o lost \in Seq(Octet)
  BY <1>2, Concat
<1>5. Flow(sent[Other(p)], n, rx[p], body \o (kept \o lost))
  BY <1>2, <1>3
<1>6. NextPacket.at = "size"
  BY DEF NextPacket
<1>7. /\ n < Len(sent[Other(p)])
      /\ body = packet.body /\ rx[p].control = packet.control
      /\ Flow(sent[Other(p)], n + 1, NextPacket, kept \o lost)
  <2> HIDE DEF body, kept, n
  <2>1. QED
    BY <1>s, <1>1, <1>2, <1>4, <1>5, <1>6, FlowBody
<1>8. packet \in Packet
  BY <1>s, <1>7, ElementOfSeq DEF Outgoing
<1>9. dispatched' = [dispatched EXCEPT
                       ![p] = Append(dispatched[p], [packet |-> packet, at |-> version[p]])]
  <2>1. [control |-> rx[p].control, body |-> body, made |-> packet.made] = packet
    <3>1. packet = [control |-> packet.control, body |-> packet.body, made |-> packet.made]
      BY <1>8 DEF Packet
    <3>2. QED
      BY <1>7, <3>1
  <2>2. n + 1 <= Len(sent[Other(p)])
    BY <1>s, <1>7
  <2>3. dispatched' = [dispatched EXCEPT
          ![p] = Append(dispatched[p],
                   [packet |-> [control |-> rx[p].control, body |-> body,
                                made |-> packet.made],
                    at |-> version[p]])]
    BY <2>2 DEF Dispatch
  <2>4. QED
    BY <2>1, <2>3
<1>10. wire' \in [Peers -> Seq(Octet)] /\ \A q \in Peers : q # p => wire'[q] = wire[q]
  BY <1>t, <1>1, <1>2
<1>11. Incoming(p)'
  <2>1. wire'[p] = kept
    BY <1>t, <1>1
  <2>2. Len(dispatched'[p]) = n + 1
    <3>1. dispatched'[p] = Append(dispatched[p], [packet |-> packet, at |-> version[p]])
      BY <1>t, <1>9
    <3>2. version[p] \in Octet
      BY DEF IInv, TypeOK
    <3>3. [packet |-> packet, at |-> version[p]] \in [packet : Packet, at : Octet]
      BY <1>8, <3>2
    <3> HIDE DEF packet
    <3>4. dispatched[p] \in Seq([packet : Packet, at : Octet])
      BY <1>t
    <3>5. QED
      BY <3>1, <3>3, <3>4, AppendProperties
  <2>3. rx'[p] = NextPacket /\ link' = link /\ sent' = sent
    BY <1>t DEF Dispatch
  <2>4. link' /\ isOpen'[p] /\ isOpen'[Other(p)] => lost = out'[Other(p)]
    <3>1. Other(p) \in Peers /\ Other(p) # p
      BY OtherEnd
    <3>2. \/ UNCHANGED <<isOpen, out>>
          \/ /\ isOpen' = [isOpen EXCEPT ![p] = FALSE]
             /\ out' = [out EXCEPT ![p] = <<>>]
      BY DEF Dispatch, Close
    <3>3. QED
      BY <1>3, <1>t, <2>3, <3>1, <3>2
  <2>5. Flow(sent'[Other(p)], Len(dispatched'[p]), rx'[p], wire'[p] \o lost)
    BY <1>7, <2>1, <2>2, <2>3
  <2>6. QED
    BY <2>4, <2>5 DEF Incoming
<1>12. QED
  BY <1>s, <1>7, <1>8, <1>9, <1>10, <1>11

\* The announcement sets the agreed version, and nothing else changes it; a
\* packet made at that version comes after the announcement.
LEMMA DispatchStep ==
  ASSUME IInv, NEW p \in Peers, Dispatch(p)
  PROVE  IInv'
<1> DEFINE o == Other(p)
           n == Len(dispatched[p])
           packet == sent[o][n + 1]
           entry == [packet |-> packet, at |-> version[p]]
           Entries == [packet : Packet, at : Octet]
<1>1. /\ n \in Nat /\ n < Len(sent[o]) /\ packet \in Packet
      /\ rx[p].control = packet.control /\ SubSeq(wire[p], 1, rx[p].size) = packet.body
      /\ dispatched' = [dispatched EXCEPT ![p] = Append(dispatched[p], entry)]
      /\ Incoming(p)' /\ wire' \in [Peers -> Seq(Octet)]
      /\ \A q \in Peers : q # p => wire'[q] = wire[q]
  BY DispatchedPacket
<1>t. /\ rx \in [Peers -> [at : Stages, digits : Octet, size : Nat, control : Octet]]
      /\ isOpen \in [Peers -> BOOLEAN] /\ out \in [Peers -> Seq(Octet)]
      /\ dispatched \in [Peers -> Seq(Entries)] /\ dispatched[p] \in Seq(Entries)
      /\ version \in [Peers -> Octet] /\ sent \in [Peers -> Seq(Outgoing)]
  BY DEF IInv, TypeOK
<1>o. /\ o \in Peers /\ o # p /\ Other(o) = p /\ \A q \in Peers : q # p => q = o
      /\ Agreed(o) = Agreed(p) /\ Agreed(p) \in Octet /\ Agreed(p) \in Nat
  BY OtherEnd, AgreedProperties
<1>2. /\ entry \in Entries
      /\ Append(dispatched[p], entry) \in Seq(Entries)
      /\ Append(dispatched[p], entry) # <<>>
      /\ Len(Append(dispatched[p], entry)) = n + 1
      /\ \A i \in 1..n : Append(dispatched[p], entry)[i] = dispatched[p][i]
      /\ Append(dispatched[p], entry)[n + 1] = entry
  <2>1. entry \in Entries /\ dispatched[p] \in Seq(Entries)
    BY <1>1, <1>t
  <2> HIDE DEF entry, Entries
  <2>2. /\ Append(dispatched[p], entry) \in Seq(Entries)
        /\ Append(dispatched[p], entry) # <<>>
        /\ Len(Append(dispatched[p], entry)) = Len(dispatched[p]) + 1
        /\ \A i \in 1..Len(dispatched[p]) : Append(dispatched[p], entry)[i] = dispatched[p][i]
        /\ Append(dispatched[p], entry)[Len(dispatched[p]) + 1] = entry
    BY <2>1, AppendProperties, ZenonT(60)
  <2>3. QED
    BY <2>1, <2>2
<1>3. dispatched'[p] = Append(dispatched[p], entry)
      /\ \A q \in Peers : q # p => dispatched'[q] = dispatched[q]
  BY <1>1, <1>t
<1>4. /\ rx' = [rx EXCEPT ![p] = NextPacket] /\ UNCHANGED <<link, deaf, sent>>
      /\ isOpen[p]
  BY DEF Dispatch, Reads
<1>5. \/ /\ version' = IF packet.control = Announce /\ packet.body # <<>>
                         THEN [version EXCEPT ![p] = Lower(MaxVersion[p], packet.body[1])]
                         ELSE version
         /\ UNCHANGED <<isOpen, out>>
      \/ /\ isOpen' = [isOpen EXCEPT ![p] = FALSE]
         /\ out' = [out EXCEPT ![p] = <<>>]
         /\ UNCHANGED version
  <2> HIDE DEF packet
  <2>1. QED
    BY <1>1 DEF Dispatch, Close, Negotiate
<1>6. /\ Versions(p) /\ Versions(o)
      /\ sent[o] # <<>> /\ sent[o][1] = Announcement(o)
      /\ packet.made \in {0, Agreed(p)}
      /\ n > 0 => packet.control = Data
      /\ n > 0 => version[p] = Agreed(p)
  <2>1. sent[o] \in Seq(Outgoing) /\ Len(sent[o]) \in Nat /\ n + 1 \in 1..Len(sent[o])
    BY <1>1, <1>o, <1>t, LenProperties
  <2>2. sent[o] # <<>>
    BY <2>1, EmptySeq
  <2>3. Versions(p) /\ Versions(o)
    BY <1>o DEF IInv
  <2>4. n > 0 => dispatched[p] # <<>>
    BY EmptySeq
  <2> HIDE DEF n
  <2>5. QED
    BY <1>1, <1>4, <1>o, <2>1, <2>2, <2>3, <2>4 DEF Versions
<1>7. \/ /\ version' = [version EXCEPT ![p] = Agreed(p)]
         /\ UNCHANGED <<isOpen, out>>
      \/ /\ isOpen' = [isOpen EXCEPT ![p] = FALSE]
         /\ out' = [out EXCEPT ![p] = <<>>]
         /\ UNCHANGED version
  <2>1. CASE n = 0
    <3>1. packet = Announcement(o)
      BY <1>6, <2>1
    <3>2. packet.control = Announce /\ packet.body # <<>> /\ packet.body[1] = MaxVersion[o]
      BY <3>1 DEF Announcement
    <3> HIDE DEF packet
    <3>3. QED
      BY <1>5, <3>2 DEF Agreed
  <2>2. CASE n > 0
    <3>1. packet.control # Announce
      BY <1>6, <2>2, HodAssumption
    <3>2. version = [version EXCEPT ![p] = Agreed(p)]
      BY <1>6, <1>t, <2>2
    <3> HIDE DEF packet
    <3>3. QED
      BY <1>5, <3>1, <3>2
  <2>3. QED
    BY <1>1, <2>1, <2>2
<1>8. TypeOK'
  <2>1. /\ version' \in [Peers -> Octet] /\ isOpen' \in [Peers -> BOOLEAN]
        /\ out' \in [Peers -> Seq(Octet)]
    <3>1. <<>> \in Seq(Octet)
      BY EmptySeq
    <3>2. /\ [version EXCEPT ![p] = Agreed(p)] \in [Peers -> Octet]
          /\ [isOpen EXCEPT ![p] = FALSE] \in [Peers -> BOOLEAN]
          /\ [out EXCEPT ![p] = <<>>] \in [Peers -> Seq(Octet)]
      BY <1>o, <1>t, <3>1
    <3>3. QED
      BY <1>7, <1>t, <3>2, Zenon
  <2>2. dispatched' \in [Peers -> Seq(Entries)]
    <3> HIDE DEF Entries, entry
    <3>1. QED
      BY <1>1, <1>2, <1>t
  <2>3. rx' \in [Peers -> [at : Stages, digits : Octet, size : Nat, control : Octet]]
    <3>1. NextPacket \in [at : Stages, digits : Octet, size : Nat, control : Octet]
      BY PacketAssumption DEF NextPacket, Stages, Octet
    <3>2. QED
      BY <1>4, <1>t, <3>1
  <2>4. QED
    BY <1>1, <1>4, <2>1, <2>2, <2>3 DEF IInv, TypeOK
<1>9. ASSUME NEW q \in Peers PROVE Incoming(q)'
  <2>1. CASE q = p
    BY <1>1, <2>1
  <2>2. CASE q # p
    <3>1. rx'[q] = rx[q] /\ wire'[q] = wire[q] /\ dispatched'[q] = dispatched[q]
      BY <1>1, <1>3, <1>4, <1>t, <2>2
    <3>2. isOpen'[p] => isOpen[p] /\ out'[p] = out[p]
      BY <1>7, <1>t
    <3>3. isOpen'[q] => isOpen[q]
      BY <1>7, <1>t
    <3>4. QED
      BY <1>4, <2>2, <3>1, <3>2, <3>3, OtherIncoming
  <2>3. QED
    BY <2>1, <2>2
<1>10. ASSUME NEW q \in Peers PROVE InOrder(q)'
  <2>1. CASE q = p
    <3>1. ASSUME NEW i \in 1..(n + 1)
          PROVE  Append(dispatched[p], entry)[i].packet = sent[o][i]
      <4>1. CASE i = n + 1
        BY <1>2, <4>1
      <4>2. CASE i \in 1..n
        BY <1>2, <4>2 DEF IInv, InOrder
      <4>3. QED
        BY <1>1, <4>1, <4>2
    <3>2. QED
      BY <1>2, <1>3, <1>4, <2>1, <3>1 DEF InOrder
  <2>2. CASE q # p
    BY <1>3, <1>4, <2>2, InOrderKept DEF IInv
  <2>3. QED
    BY <2>1, <2>2
<1>11. ASSUME NEW q \in Peers PROVE Versions(q)'
  <2>1. CASE q = p
    <3>1. version'[p] \in {0, Agreed(p)} /\ (isOpen'[p] => version'[p] = Agreed(p))
      BY <1>6, <1>7, <1>t DEF Versions
    <3>2. QED
      BY <1>4, <1>6, <2>1, <3>1 DEF Versions, Agreed, Announcement
  <2>2. CASE q # p
    <3>1. version'[q] = version[q] /\ isOpen'[q] = isOpen[q]
      BY <1>7, <1>t, <2>2
    <3>2. QED
      BY <1>3, <1>4, <2>2, <3>1, VersionsKept DEF IInv
  <2>3. QED
    BY <2>1, <2>2
<1>12. HandlerKnowsPacket'
  <2>1. packet.made <= version[p]
    <3>1. CASE n = 0
      <4>1. packet.made = 0 /\ version[p] \in {0, Agreed(p)}
        BY <1>6, <3>1 DEF Announcement, Versions
      <4>2. QED
        BY <1>o, <4>1
    <3>2. CASE n > 0
      BY <1>6, <1>o, <3>2
    <3>3. QED
      BY <1>1, <3>1, <3>2
  <2>2. \A q \in Peers : DOMAIN dispatched[q] = 1..Len(dispatched[q])
    BY <1>t, LenProperties
  <2>3. DOMAIN Append(dispatched[p], entry) = 1..(n + 1)
    <3> HIDE DEF entry, Entries
    <3>1. QED
      BY <1>2, LenProperties
  <2>4. ASSUME NEW i \in 1..(n + 1)
        PROVE  Append(dispatched[p], entry)[i].packet.made <= Append(dispatched[p], entry)[i].at
    <3>1. CASE i = n + 1
      BY <1>2, <2>1, <3>1
    <3>2. CASE i \in 1..n
      BY <1>2, <2>2, <3>2 DEF IInv, HandlerKnowsPacket
    <3>3. QED
      BY <1>1, <3>1, <3>2
  <2>5. ASSUME NEW q \in Peers, NEW i \in DOMAIN dispatched'[q]
        PROVE  dispatched'[q][i].packet.made <= dispatched'[q][i].at
    <3>1. CASE q = p
      BY <1>3, <2>3, <2>4, <3>1
    <3>2. CASE q # p
      BY <1>3, <3>2 DEF IInv, HandlerKnowsPacket
    <3>3. QED
      BY <3>1, <3>2
  <2>6. QED
    BY <2>5 DEF HandlerKnowsPacket
<1>13. sent' \in [Peers -> Seq(Outgoing)]
  BY <1>4, <1>t
<1>14. QED
  BY <1>8, <1>9, <1>10, <1>11, <1>12, <1>13 DEF IInv

-----------------------------------------------------------------------------
\* Every step keeps the stream between the ends in one piece.
LEMMA StepIInv == IInv /\ [Next]_vars => IInv'
<1> SUFFICES ASSUME IInv, [Next]_vars PROVE IInv'
  OBVIOUS
<1>1. ASSUME NEW p \in Peers, NEW packet \in Offered(p), Send(p, packet) PROVE IInv'
  BY <1>1, SendStep
<1>2. ASSUME NEW p \in Peers, Outbound(p) PROVE IInv'
  <2>1. ASSUME WriteFails(p) PROVE IInv'
    BY <2>1, CloseStep DEF WriteFails
  <2>2. QED
    BY <1>2, <2>1, WriteSomeStep, WriteLostStep DEF Outbound
<1>3. ASSUME NEW p \in Peers, Inbound(p) PROVE IInv'
  <2>1. ASSUME ReadFails(p) PROVE IInv'
    BY <2>1, CloseStep DEF ReadFails
  <2>2. QED
    BY <1>3, <2>1, ReadSizeByteStep, ReadDigitStep, ReadControlStep, DispatchStep DEF Inbound
<1>4. CASE UNCHANGED vars
  <2>1. TypeOK'
    BY <1>4 DEF vars, IInv, TypeOK
  <2>2. \A p \in Peers : Incoming(p)'
    BY <1>4, IncomingKept DEF vars, IInv
  <2>3. QED
    BY <1>4, <2>1, <2>2, QuietStep DEF vars, IInv
<1>5. QED
  BY <1>1, <1>2, <1>3, <1>4, BreakStep, ReportStep DEF Next

\* The types of the connection's state.
THEOREM TypeCorrect == Spec => []TypeOK
<1>1. IInv => TypeOK
  BY DEF IInv
<1>2. QED
  BY <1>1, InitIInv, StepIInv, PTL DEF Spec

\* The packets dispatched at an end are a prefix of those that the other end
\* sent, for any packets, any parts in which they arrive and any failure.
THEOREM PacketsArriveIntact == Spec => []PacketsIntact
<1>1. IInv => PacketsIntact
  <2> SUFFICES ASSUME IInv, NEW p \in Peers
               PROVE  /\ Len(Handled(p)) <= Len(sent[Other(p)])
                      /\ Handled(p) = SubSeq(sent[Other(p)], 1, Len(Handled(p)))
    BY DEF PacketsIntact
  <2> DEFINE n == Len(dispatched[p])
             packets == sent[Other(p)]
  <2>1. packets \in Seq(Outgoing) /\ n \in Nat /\ Len(packets) \in Nat
    BY FlowTypes, LenProperties
  <2>2. n <= Len(packets) /\ \A i \in 1..n : dispatched[p][i].packet = packets[i]
    BY DEF IInv, Incoming, Flow, InOrder
  <2>3. \A i \in 1..n : packets[i] \in Outgoing
    BY <2>1, <2>2, ElementOfSeq
  <2>4. Handled(p) = [i \in 1..n |-> packets[i]]
    <3>1. DOMAIN dispatched[p] = 1..n
      BY LenProperties DEF IInv, TypeOK
    <3>2. QED
      BY <2>2, <3>1 DEF Handled
  <2> HIDE DEF n, packets
  <2>5. Handled(p) \in Seq(Outgoing) /\ Len(Handled(p)) = n
    BY <2>1, <2>3, <2>4
  <2>6. /\ SubSeq(packets, 1, n) \in Seq(Outgoing) /\ Len(SubSeq(packets, 1, n)) = n
        /\ \A i \in 1..n : SubSeq(packets, 1, n)[i] = packets[i]
    BY <2>1, <2>3, SubSeqProperties
  <2>7. Handled(p) = SubSeq(packets, 1, n)
    BY <2>4, <2>5, <2>6, SeqEqual
  <2>8. QED
    BY <2>2, <2>5, <2>7 DEF packets
<1>2. QED
  BY <1>1, InitIInv, StepIInv, PTL DEF Spec

\* No packet made at a negotiated version is dispatched before its receiver has
\* negotiated, for any versions of the two ends.
THEOREM HandlersKnowPackets == Spec => []HandlerKnowsPacket
<1>1. IInv => HandlerKnowsPacket
  BY DEF IInv
<1>2. QED
  BY <1>1, InitIInv, StepIInv, PTL DEF Spec

\* The decoder is never given a first byte that is not a size: the connection
\* is not given up for it.
THEOREM SizesRecognised ==
  Spec => [][\A p \in Peers : ReadSizeByte(p) => IsSize(wire[p][1])]_vars
<1>1. IInv /\ [Next]_vars => [\A p \in Peers : ReadSizeByte(p) => IsSize(wire[p][1])]_vars
  BY ReadSizeByteStep
<1>2. QED
  BY <1>1, InitIInv, StepIInv, PTL DEF Spec
=============================================================================
