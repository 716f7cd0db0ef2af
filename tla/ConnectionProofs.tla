-------------------------- MODULE ConnectionProofs --------------------------
(***************************************************************************)
(* Proofs about the reads of a connection, for streams of any length, any  *)
(* vector sizes and any chunk size.  The argument: m_input_buffer is only  *)
(* ever cut at a place inside it (Loops), so what is taken and what stays  *)
(* are adjacent pieces of the stream (NothingLost).  Then, about the       *)
(* operations under a timer that the reads are made with (TimedIo).        *)
(***************************************************************************)
EXTENDS Connection, TimedIo, SequenceTheorems, TLAPS

\* What the loops know while they run: how much the handshake has still to
\* read, that a vector's loop ends only with the bytes asked for, and that
\* reading everything goes past an empty buffer.
Loops ==
  /\ op.kind = "socks" => op.want + Len(buffer) >= ReplyLength
  /\ op.kind = "vector" => op.n \in VectorSizes /\ (op.want = 0 => Len(buffer) >= op.n)
  /\ op.kind = "all" => buffer = <<>>

IInv == TypeOK /\ NothingLost /\ Loops

\* Cutting a sequence gives two sequences that together are the whole.
LEMMA Cut ==
  ASSUME NEW s \in Seq(Byte), NEW k \in 0..Len(s)
  PROVE  /\ Take(s, k) \in Seq(Byte)
         /\ Len(Take(s, k)) = k
         /\ Drop(s, k) \in Seq(Byte)
         /\ Len(Drop(s, k)) = Len(s) - k
         /\ Take(s, k) \o Drop(s, k) = s
<1>1. Len(s) \in Nat
  OBVIOUS
<1>2. /\ SubSeq(s, 1, k) \in Seq(Byte)
      /\ Len(SubSeq(s, 1, k)) = k
  <2>1. \A i \in 1..k : s[i] \in Byte
    BY <1>1
  <2>2. QED
    BY <2>1, <1>1, SubSeqProperties
<1>3. /\ SubSeq(s, k + 1, Len(s)) \in Seq(Byte)
      /\ Len(SubSeq(s, k + 1, Len(s))) = Len(s) - k
  <2>1. \A i \in (k + 1)..Len(s) : s[i] \in Byte
    BY <1>1
  <2>2. QED
    BY <2>1, <1>1, SubSeqProperties
<1>4. SubSeq(s, 1, k) \o SubSeq(s, k + 1, Len(s)) = SubSeq(s, 1, Len(s))
  <2>1. 1 \in 1..(Len(s) + 1) /\ k \in (1 - 1)..Len(s) /\ Len(s) \in k..Len(s)
    BY <1>1
  <2>2. QED
    BY <2>1, ConcatAdjacentSubSeq, Zenon
<1>5. SubSeq(s, 1, Len(s)) = s
  BY SubSeqFull
<1>6. QED
  BY <1>2, <1>3, <1>4, <1>5 DEF Take, Drop

\* The length of a concatenation.
LEMMA Concat ==
  \A s, t \in Seq(Byte) : s \o t \in Seq(Byte) /\ Len(s \o t) = Len(s) + Len(t)
BY ConcatProperties

\* Concatenation of byte sequences is associative.
LEMMA Associative ==
  \A s, t, u \in Seq(Byte) : (s \o t) \o u = s \o (t \o u)
BY ConcatAssociative

\* Bytes that move from the front of the second of three sequences to the end
\* of the first one leave their concatenation as it was.
LEMMA MoveLeft ==
  \A a, b, c \in Seq(Byte) : \A k \in 0..Len(b) :
    ((a \o Take(b, k)) \o Drop(b, k)) \o c = (a \o b) \o c
<1> SUFFICES ASSUME NEW a \in Seq(Byte), NEW b \in Seq(Byte), NEW c \in Seq(Byte),
                    NEW k \in 0..Len(b)
             PROVE  ((a \o Take(b, k)) \o Drop(b, k)) \o c = (a \o b) \o c
  OBVIOUS
<1>1. /\ Take(b, k) \in Seq(Byte)
      /\ Drop(b, k) \in Seq(Byte)
      /\ Take(b, k) \o Drop(b, k) = b
  BY Cut
<1>2. (a \o Take(b, k)) \o Drop(b, k) = a \o (Take(b, k) \o Drop(b, k))
  BY <1>1, Associative, ZenonT(60)
<1>3. QED
  BY <1>1, <1>2

\* The same for the third and the second of the sequences.
LEMMA MoveFromWire ==
  \A a, b, c \in Seq(Byte) : \A k \in 0..Len(c) :
    (a \o (b \o Take(c, k))) \o Drop(c, k) = (a \o b) \o c
<1> SUFFICES ASSUME NEW a \in Seq(Byte), NEW b \in Seq(Byte), NEW c \in Seq(Byte),
                    NEW k \in 0..Len(c)
             PROVE  (a \o (b \o Take(c, k))) \o Drop(c, k) = (a \o b) \o c
  OBVIOUS
<1>1. /\ Take(c, k) \in Seq(Byte)
      /\ Drop(c, k) \in Seq(Byte)
      /\ Take(c, k) \o Drop(c, k) = c
  BY Cut
<1>2. /\ a \o b \in Seq(Byte)
      /\ b \o Take(c, k) \in Seq(Byte)
  BY <1>1, ConcatProperties
<1>3. a \o (b \o Take(c, k)) = (a \o b) \o Take(c, k)
  BY <1>1, Associative, ZenonT(60)
<1>4. ((a \o b) \o Take(c, k)) \o Drop(c, k) = (a \o b) \o (Take(c, k) \o Drop(c, k))
  <2>1. \A s \in Seq(Byte) :
          (s \o Take(c, k)) \o Drop(c, k) = s \o (Take(c, k) \o Drop(c, k))
    BY <1>1, Associative, ZenonT(60)
  <2>2. QED
    BY <1>2, <2>1, Zenon
<1>5. QED
  BY <1>1, <1>3, <1>4

\* The part of the stream that has been taken is a prefix of it.
LEMMA Prefix ==
  ASSUME NEW a \in Seq(Byte), NEW b \in Seq(Byte), NEW c \in Seq(Byte)
  PROVE  /\ Len(a) <= Len(a \o b \o c)
         /\ a = SubSeq(a \o b \o c, 1, Len(a))
<1> DEFINE t == b \o c
<1>1. t \in Seq(Byte) /\ a \o b \o c = a \o t
  BY ConcatAssociative, ConcatProperties
<1>2. Len(a) \in Nat /\ Len(t) \in Nat /\ Len(a \o t) = Len(a) + Len(t)
  BY <1>1, ConcatProperties, LenProperties
<1>3. CASE Len(a) = 0
  BY <1>1, <1>2, <1>3, SubSeqEmpty, EmptySeq
<1>4. CASE Len(a) > 0
  <2>1. SubSeq(a \o t, 1, Len(a)) = SubSeq(a, 1, Len(a))
    BY <1>1, <1>2, <1>4, SubSeqOfConcat1
  <2>2. QED
    BY <2>1, <1>1, <1>2, SubSeqFull
<1>5. QED
  BY <1>2, <1>3, <1>4

-----------------------------------------------------------------------------
\* Nothing has been sent at first, and the handshake wants the whole reply.
LEMMA InitIInv == Init => IInv
<1> SUFFICES ASSUME Init PROVE IInv
  OBVIOUS
<1>1. TypeOK
  <2>1. /\ op \in [kind : Kinds, n : Nat, want : Nat, from : Nat]
        /\ op.from = 0
        /\ op.kind \notin {"vector", "socks"} => op.want = 0
    <3>1. \/ op = [kind |-> "none", n |-> 0, want |-> 0, from |-> 0]
          \/ op = [kind |-> "socks", n |-> 0, want |-> ReplyLength, from |-> 0]
      BY DEF Init, NoOp
    <3>2. QED
      BY <3>1, ConnectionAssumption DEF Kinds
  <2>2. result \in [kind : Kinds, status : Statuses, value : Seq(Byte)]
    BY EmptySeq DEF Init, NoResult, Kinds, Statuses
  <2>3. QED
    BY <2>1, <2>2, EmptySeq, ConnectionAssumption DEF Init, TypeOK
<1>2. NothingLost
  BY ConcatEmptySeq, EmptySeq DEF Init, NothingLost
<1>3. Loops
  <2>1. \/ op = [kind |-> "none", n |-> 0, want |-> 0, from |-> 0]
        \/ op = [kind |-> "socks", n |-> 0, want |-> ReplyLength, from |-> 0]
    BY DEF Init, NoOp
  <2>2. Len(buffer) = 0
    BY EmptySeq DEF Init
  <2>3. QED
    BY <2>1, <2>2, ConnectionAssumption DEF Loops
<1>4. QED
  BY <1>1, <1>2, <1>3 DEF IInv

\* What is in the buffer is at most what was sent, which a size_t can hold.
LEMMA BufferBound ==
  ASSUME IInv
  PROVE  Len(buffer) \in 0..(SizeMod - 1)
<1>1. /\ consumed \in Seq(Byte) /\ buffer \in Seq(Byte) /\ wire \in Seq(Byte)
      /\ Len(sent) <= MaxSent /\ (consumed \o buffer) \o wire = sent
  BY DEF IInv, TypeOK, NothingLost
<1>2. /\ consumed \o buffer \in Seq(Byte)
      /\ Len(consumed \o buffer) = Len(consumed) + Len(buffer)
  BY <1>1, ConcatProperties
<1>3. Len(sent) = Len(consumed \o buffer) + Len(wire)
  BY <1>1, <1>2, ConcatProperties
<1>4. Len(consumed) \in Nat /\ Len(buffer) \in Nat /\ Len(wire) \in Nat
  BY <1>1, LenProperties
<1>5. QED
  BY <1>1, <1>2, <1>3, <1>4, ConnectionAssumption

\* The loop's next amount is a natural number, and when it is 0 the buffer
\* holds exactly what was asked for.
LEMMA LoopWantProperties ==
  ASSUME NEW n \in 0..(SizeMod - 1), NEW size \in 0..(SizeMod - 1)
  PROVE  /\ LoopWant(n, size) \in Nat
         /\ LoopWant(n, size) = 0 => size = n
BY ConnectionAssumption DEF LoopWant, Least, Difference

-----------------------------------------------------------------------------
\* Every step keeps the stream in one piece.
LEMMA StepIInv == IInv /\ [Next]_vars => IInv'
<1> SUFFICES ASSUME IInv, [Next]_vars PROVE IInv'
  OBVIOUS
<1> USE DEF IInv
<1>t. /\ sent \in Seq(Byte) /\ wire \in Seq(Byte)
      /\ buffer \in Seq(Byte) /\ consumed \in Seq(Byte)
      /\ Len(buffer) \in Nat /\ Len(wire) \in Nat /\ Len(consumed) \in Nat
      /\ op \in [kind : Kinds, n : Nat, want : Nat, from : Nat]
      /\ op.from <= Len(consumed)
      /\ op.kind \notin {"vector", "socks"} => op.want = 0
      /\ result \in [kind : Kinds, status : Statuses, value : Seq(Byte)]
  BY LenProperties DEF TypeOK
<1>r. NoResult \in [kind : Kinds, status : Statuses, value : Seq(Byte)]
  BY EmptySeq DEF NoResult, Kinds, Statuses
<1>1. ASSUME NEW b \in Byte, PeerSend(b) PROVE IInv'
  <2>1. /\ Append(sent, b) \in Seq(Byte) /\ Len(Append(sent, b)) = Len(sent) + 1
        /\ Append(wire, b) \in Seq(Byte)
    BY <1>t, AppendProperties
  <2>2. TypeOK'
    BY <1>1, <1>t, <2>1, ConnectionAssumption, LenProperties DEF PeerSend, TypeOK
  <2>3. NothingLost'
    <3>1. consumed \o buffer \in Seq(Byte) /\ <<b>> \in Seq(Byte)
      BY <1>t, ConcatProperties
    <3>2. Append(wire, b) = wire \o <<b>> /\ Append(sent, b) = sent \o <<b>>
      BY <1>t, AppendIsConcat
    <3>3. (consumed \o buffer) \o (wire \o <<b>>) = ((consumed \o buffer) \o wire) \o <<b>>
      <4> DEFINE s == consumed \o buffer
                 u == <<b>>
      <4>1. s \in Seq(Byte) /\ u \in Seq(Byte) /\ wire \in Seq(Byte)
        BY <1>t, <3>1
      <4> HIDE DEF s, u
      <4>2. (s \o wire) \o u = s \o (wire \o u)
        BY <4>1, Associative, ZenonT(60)
      <4>3. QED
        BY <4>2 DEF s, u
    <3>4. QED
      BY <1>1, <3>2, <3>3 DEF PeerSend, NothingLost
  <2>4. Loops'
    BY <1>1 DEF PeerSend, Loops
  <2>5. QED
    BY <2>2, <2>3, <2>4
<1>2. CASE PeerClose
  BY <1>2 DEF PeerClose, TypeOK, NothingLost, Loops
<1>3. CASE StartLine
  <2>1. /\ UNCHANGED <<sent, open, wire, buffer, consumed>> /\ result' = NoResult
        /\ op' = [kind |-> "line", n |-> 0, want |-> 0, from |-> 0]
    BY <1>3 DEF StartLine, NoOp
  <2>2. op' \in [kind : Kinds, n : Nat, want : Nat, from : Nat]
    BY <2>1 DEF Kinds
  <2>3. TypeOK'
    BY <1>t, <1>r, <2>1, <2>2 DEF TypeOK
  <2>4. NothingLost' /\ Loops'
    BY <2>1 DEF NothingLost, Loops
  <2>5. QED
    BY <2>3, <2>4
<1>4. ASSUME NEW n \in VectorSizes, StartVector(n) PROVE IInv'
  <2>1. n \in 0..(SizeMod - 1)
    BY ConnectionAssumption
  <2>2. /\ LoopWant(n, Len(buffer)) \in Nat
        /\ LoopWant(n, Len(buffer)) = 0 => Len(buffer) = n
    BY <2>1, BufferBound, LoopWantProperties
  <2>3. op' = [kind |-> "vector", n |-> n, want |-> LoopWant(n, Len(buffer)), from |-> 0]
    BY <1>4 DEF StartVector, NoOp
  <2>4. TypeOK'
    <3>1. /\ op' \in [kind : Kinds, n : Nat, want : Nat, from : Nat]
          /\ op'.from = 0 /\ op'.kind = "vector"
      BY <2>1, <2>2, <2>3, ConnectionAssumption DEF Kinds
    <3>2. UNCHANGED <<sent, open, wire, buffer, consumed>> /\ result' = NoResult
      BY <1>4 DEF StartVector
    <3>3. QED
      BY <1>t, <1>r, <3>1, <3>2 DEF TypeOK
  <2>5. NothingLost' /\ Loops'
    BY <1>4, <2>1, <2>2, <2>3 DEF StartVector, NothingLost, Loops
  <2>6. QED
    BY <2>4, <2>5
<1>5. CASE StartAll
  <2>1. /\ consumed \o buffer \in Seq(Byte)
        /\ Len(consumed \o buffer) = Len(consumed) + Len(buffer)
        /\ <<>> \in Seq(Byte)
    BY <1>t, ConcatProperties, EmptySeq
  <2>2. op' = [kind |-> "all", n |-> 0, want |-> 0, from |-> Len(consumed)]
    BY <1>5 DEF StartAll, NoOp
  <2>3. TypeOK'
    <3>1. /\ op' \in [kind : Kinds, n : Nat, want : Nat, from : Nat]
          /\ op'.from = Len(consumed) /\ op'.want = 0
      BY <1>t, <2>2 DEF Kinds
    <3>2. /\ UNCHANGED <<sent, open, wire>> /\ result' = NoResult
          /\ consumed' = consumed \o buffer /\ buffer' = <<>>
      BY <1>5 DEF StartAll
    <3>3. QED
      BY <1>t, <1>r, <2>1, <3>1, <3>2 DEF TypeOK
  <2>4. NothingLost'
    BY <1>5, <2>1, ConcatEmptySeq DEF StartAll, NothingLost
  <2>5. Loops'
    BY <1>5, <2>2 DEF StartAll, Loops
  <2>6. QED
    BY <2>3, <2>4, <2>5
<1>6. ASSUME NEW k \in 1..Len(wire), Receive(k) PROVE IInv'
  <2>1. /\ k \in 0..Len(wire) /\ k \in Nat
    BY <1>t
  <2>2. /\ Take(wire, k) \in Seq(Byte) /\ Len(Take(wire, k)) = k
        /\ Drop(wire, k) \in Seq(Byte)
        /\ Take(wire, k) \o Drop(wire, k) = wire
    BY <1>t, <2>1, Cut
  <2>3. CASE op.kind = "all"
    <3>1. /\ consumed \o Take(wire, k) \in Seq(Byte)
          /\ Len(consumed \o Take(wire, k)) = Len(consumed) + k
      <4>1. consumed \in Seq(Byte) /\ Take(wire, k) \in Seq(Byte)
        BY <1>t, <2>2
      <4>2. /\ consumed \o Take(wire, k) \in Seq(Byte)
            /\ Len(consumed \o Take(wire, k)) = Len(consumed) + Len(Take(wire, k))
        BY <4>1, Concat
      <4>3. QED
        BY <2>2, <4>2
    <3>2. TypeOK' /\ Loops'
      <4>1. /\ UNCHANGED <<sent, open, result, buffer, op>>
            /\ wire' = Drop(wire, k) /\ consumed' = consumed \o Take(wire, k)
        BY <1>6, <2>3 DEF Receive
      <4>2. op.from <= Len(consumed')
        BY <1>t, <2>1, <3>1, <4>1
      <4>3. TypeOK'
        BY <1>t, <2>2, <3>1, <4>1, <4>2 DEF TypeOK
      <4>4. QED
        BY <4>1, <4>3 DEF Loops
    <3>3. NothingLost'
      <4>1. (consumed \o Take(wire, k)) \o Drop(wire, k)
              = consumed \o (Take(wire, k) \o Drop(wire, k))
        BY <1>t, <2>2, Associative, ZenonT(60)
      <4>2. /\ buffer = <<>>
            /\ consumed \o buffer = consumed
            /\ (consumed \o Take(wire, k)) \o buffer = consumed \o Take(wire, k)
        BY <1>t, <2>3, <3>1, ConcatEmptySeq DEF Loops
      <4>3. QED
        BY <1>6, <2>2, <2>3, <4>1, <4>2 DEF Receive, NothingLost
    <3>4. QED
      BY <3>2, <3>3
  <2>4. CASE op.kind # "all"
    <3>1. /\ buffer \o Take(wire, k) \in Seq(Byte)
          /\ Len(buffer \o Take(wire, k)) = Len(buffer) + k
      BY <1>t, <2>2, Concat
    <3>2. NothingLost'
      <4>1. (consumed \o (buffer \o Take(wire, k))) \o Drop(wire, k)
              = (consumed \o buffer) \o wire
        <5>1. /\ consumed \in Seq(Byte) /\ buffer \in Seq(Byte) /\ wire \in Seq(Byte)
              /\ k \in 0..Len(wire)
          BY <1>t, <2>1
        <5>2. \A c \in Seq(Byte) : \A i \in 0..Len(c) :
                (consumed \o (buffer \o Take(c, i))) \o Drop(c, i) = (consumed \o buffer) \o c
          BY <5>1, MoveFromWire, ZenonT(60)
        <5>3. QED
          BY <5>1, <5>2, ZenonT(60)
      <4>2. QED
        BY <1>6, <2>4, <4>1 DEF Receive, NothingLost
    <3>3. /\ consumed' = consumed /\ buffer' = buffer \o Take(wire, k)
          /\ wire' = Drop(wire, k) /\ sent' = sent /\ open' = open /\ result' = result
          /\ op' = [op EXCEPT !.want = WantAfter(k)]
      BY <1>6, <2>4 DEF Receive
    <3>4. Len(buffer) + k \in 0..(SizeMod - 1)
      <4>1. /\ consumed \o (buffer \o Take(wire, k)) \in Seq(Byte)
            /\ Len(consumed \o (buffer \o Take(wire, k))) = Len(consumed) + Len(buffer) + k
        <5>1. /\ consumed \o (buffer \o Take(wire, k)) \in Seq(Byte)
              /\ Len(consumed \o (buffer \o Take(wire, k)))
                   = Len(consumed) + Len(buffer \o Take(wire, k))
          BY <1>t, <3>1, Concat, ZenonT(60)
        <5>2. QED
          BY <5>1, <3>1, <1>t, <2>1
      <4>2. Len(sent) = Len(consumed) + Len(buffer) + k + Len(Drop(wire, k))
        BY <4>1, <3>2, <3>3, <2>2, ConcatProperties DEF NothingLost
      <4>3. Len(sent) <= MaxSent /\ Len(Drop(wire, k)) \in Nat
        BY <2>2, LenProperties DEF TypeOK
      <4>4. QED
        BY <4>2, <4>3, <1>t, <2>1, ConnectionAssumption
    <3>5. /\ WantAfter(k) \in Nat
          /\ op.kind \notin {"vector", "socks"} => WantAfter(k) = 0
          /\ op.kind = "socks" => WantAfter(k) + k >= op.want
          /\ op.kind = "vector" /\ WantAfter(k) = 0 => Len(buffer) + k >= op.n
      <4>1. CASE k < op.want
        BY <4>1, <1>t, <2>1 DEF WantAfter
      <4>2. CASE k >= op.want /\ op.kind = "vector"
        <5>1. op.n \in 0..(SizeMod - 1)
          BY <4>2, ConnectionAssumption DEF Loops
        <5>2. WantAfter(k) = LoopWant(op.n, Len(buffer) + k)
          BY <4>2, <1>t, <2>1 DEF WantAfter
        <5>3. QED
          BY <4>2, <5>1, <5>2, <3>4, LoopWantProperties
      <4>3. CASE k >= op.want /\ op.kind # "vector"
        BY <4>3, <1>t, <2>1 DEF WantAfter
      <4>4. QED
        BY <4>1, <4>2, <4>3, <1>t, <2>1
    <3>6. TypeOK'
      BY <1>t, <2>2, <3>1, <3>3, <3>5 DEF TypeOK
    <3>7. Loops'
      <4>1. op'.kind = op.kind /\ op'.n = op.n /\ op'.want = WantAfter(k)
        BY <1>t, <3>3
      <4>2. op.kind = "socks" => op'.want + Len(buffer') >= ReplyLength
        <5>1. Len(buffer') = Len(buffer) + k
          BY <3>1, <3>3
        <5>2. op.want \in Nat /\ WantAfter(k) \in Nat /\ ReplyLength \in Nat
          BY <1>t, <3>5, ConnectionAssumption
        <5>3. op.kind = "socks" => /\ op.want + Len(buffer) >= ReplyLength
                                   /\ WantAfter(k) + k >= op.want
          BY <3>5 DEF Loops
        <5>4. QED
          BY <1>t, <2>1, <4>1, <5>1, <5>2, <5>3
      <4>3. op.kind = "vector" => op.n \in VectorSizes
                                 /\ (op'.want = 0 => Len(buffer') >= op.n)
        BY <3>1, <3>3, <3>5, <4>1 DEF Loops
      <4>4. QED
        BY <2>4, <4>1, <4>2, <4>3 DEF Loops
    <3>8. QED
      BY <3>2, <3>6, <3>7
  <2>5. QED
    BY <2>3, <2>4
<1>7. ASSUME NEW status \in Statuses, CutShort(status) PROVE IInv'
  <2>1. op' = [kind |-> "none", n |-> 0, want |-> 0, from |-> 0]
    BY <1>7 DEF CutShort, Ends, NoOp
  <2>2. UNCHANGED <<sent, open, wire, buffer, consumed>>
    BY <1>7 DEF CutShort
  <2>3. result' \in [kind : Kinds, status : Statuses, value : Seq(Byte)]
    <3>1. Drop(consumed, op.from) \in Seq(Byte)
      BY <1>t, Cut
    <3>2. op.kind \in Kinds /\ "ok" \in Statuses /\ <<>> \in Seq(Byte)
      BY <1>t, EmptySeq DEF Statuses
    <3>3. \/ result' = [kind |-> op.kind, status |-> "ok",
                         value |-> Drop(consumed, op.from)]
          \/ result' = [kind |-> op.kind, status |-> status, value |-> <<>>]
      BY <1>7 DEF CutShort, Ends
    <3>4. /\ [kind |-> op.kind, status |-> "ok", value |-> Drop(consumed, op.from)]
               \in [kind : Kinds, status : Statuses, value : Seq(Byte)]
          /\ [kind |-> op.kind, status |-> status, value |-> <<>>]
               \in [kind : Kinds, status : Statuses, value : Seq(Byte)]
      BY <1>7, <3>1, <3>2
    <3>5. QED
      BY <3>3, <3>4
  <2>4. QED
    BY <1>t, <2>1, <2>2, <2>3 DEF TypeOK, NothingLost, Loops, Kinds
<1>8. ASSUME NEW k \in 0..Len(buffer), NEW status \in Statuses,
             NEW value \in Seq(Byte), Consume(k), Ends(status, value)
      PROVE  IInv'
  <2>1. /\ Take(buffer, k) \in Seq(Byte) /\ Len(Take(buffer, k)) = k
        /\ Drop(buffer, k) \in Seq(Byte)
    BY <1>t, Cut
  <2>2. /\ consumed \o Take(buffer, k) \in Seq(Byte)
        /\ Len(consumed \o Take(buffer, k)) = Len(consumed) + k
    <3>1. consumed \in Seq(Byte) /\ Take(buffer, k) \in Seq(Byte)
      BY <1>t, <2>1
    <3>2. /\ consumed \o Take(buffer, k) \in Seq(Byte)
          /\ Len(consumed \o Take(buffer, k)) = Len(consumed) + Len(Take(buffer, k))
      BY <3>1, Concat
    <3>3. QED
      BY <2>1, <3>2
  <2>3. /\ op' = [kind |-> "none", n |-> 0, want |-> 0, from |-> 0]
        /\ result' \in [kind : Kinds, status : Statuses, value : Seq(Byte)]
    BY <1>8, <1>t DEF Ends, NoOp
  <2>4. ((consumed \o Take(buffer, k)) \o Drop(buffer, k)) \o wire
          = (consumed \o buffer) \o wire
    <3>1. /\ consumed \in Seq(Byte) /\ buffer \in Seq(Byte) /\ wire \in Seq(Byte)
          /\ k \in 0..Len(buffer)
      BY <1>t, <1>8
    <3>2. QED
      BY <3>1, MoveLeft
  <2>5. QED
    BY <1>8, <1>t, <2>1, <2>2, <2>3, <2>4
       DEF Consume, TypeOK, NothingLost, Loops, Kinds
<1>9. ASSUME NEW i \in LineEnds(buffer), FinishLine(i) PROVE IInv'
  <2>1. i \in Nat /\ i - 1 \in 0..Len(buffer) /\ i + 1 \in 0..Len(buffer)
    BY <1>t DEF LineEnds
  <2>2. Take(buffer, i - 1) \in Seq(Byte) /\ <<>> \in Seq(Byte)
    BY <1>t, <2>1, Cut, EmptySeq
  <2>3. Consume(i + 1) /\ (Ends("ok", Take(buffer, i - 1)) \/ Ends("not_utf8", <<>>))
    BY <1>9 DEF FinishLine
  <2>4. "ok" \in Statuses /\ "not_utf8" \in Statuses
    BY DEF Statuses, Failures
  <2>5. QED
    BY <1>8, <2>1, <2>2, <2>3, <2>4
<1>10. CASE FinishVector
  <2>1. op.n \in 0..Len(buffer)
    BY <1>10, <1>t DEF FinishVector, Loops
  <2>2. Take(buffer, op.n) \in Seq(Byte)
    BY <1>t, <2>1, Cut
  <2>3. QED
    BY <1>8, <1>10, <2>1, <2>2 DEF FinishVector, Statuses, Failures
<1>11. CASE FinishSocks
  <2>1. ReplyLength \in 0..Len(buffer)
    BY <1>11, <1>t, ConnectionAssumption DEF FinishSocks, Loops
  <2>2. QED
    BY <1>8, <1>11, <2>1, EmptySeq DEF FinishSocks, Statuses, Failures
<1>12. CASE UNCHANGED vars
  BY <1>12 DEF vars, TypeOK, NothingLost, Loops
<1>13. ASSUME Eof \/ TimeOut PROVE IInv'
  BY <1>7, <1>13 DEF Eof, TimeOut, Statuses, Failures
<1>14. QED
  BY <1>1, <1>2, <1>3, <1>4, <1>5, <1>6, <1>9, <1>10, <1>11, <1>12, <1>13
     DEF Next, Peer, Application, Reading

\* The types of the connection's state, for every stream and every mix of
\* reads.
THEOREM TypeCorrect == Spec => []TypeOK
<1>1. IInv => TypeOK
  BY DEF IInv
<1>2. QED
  BY <1>1, InitIInv, StepIInv, PTL DEF Spec

\* Nothing is lost, duplicated or reordered between the other end and the
\* application, for every stream and every mix of reads, over-reads and
\* failures.
THEOREM StreamIsWhole == Spec => []NothingLost
<1>1. IInv => NothingLost
  BY DEF IInv
<1>2. QED
  BY <1>1, InitIInv, StepIInv, PTL DEF Spec

\* No read takes more bytes out of the buffer than the buffer holds, in spite
\* of the unsigned subtraction that controls the vector's loop.
THEOREM ReadsHaveTheirBytes == Spec => []FinishedReadHasItsBytes
<1>1. IInv => FinishedReadHasItsBytes
  <2> SUFFICES ASSUME IInv PROVE FinishedReadHasItsBytes
    OBVIOUS
  <2>1. Len(buffer) \in Nat
    BY LenProperties DEF IInv, TypeOK
  <2>2. QED
    BY <2>1, ConnectionAssumption DEF IInv, Loops, FinishedReadHasItsBytes
<1>2. QED
  BY <1>1, InitIInv, StepIInv, PTL DEF Spec

-----------------------------------------------------------------------------
\* What a step can do to the two variables of the abstract stream.
LEMMA StreamStep ==
  ASSUME IInv, [Next]_vars
  PROVE  \/ \E b \in Byte : sent' = Append(sent, b) /\ consumed' = consumed
         \/ sent' = sent /\ \E x \in Seq(Byte) : consumed' = consumed \o x
<1>t. /\ consumed \in Seq(Byte) /\ buffer \in Seq(Byte) /\ wire \in Seq(Byte)
      /\ Len(buffer) \in Nat /\ Len(wire) \in Nat
      /\ op.n \in Nat
  BY LenProperties DEF IInv, TypeOK
<1>s. <<>> \in Seq(Byte) /\ consumed \o <<>> = consumed
  BY <1>t, EmptySeq, ConcatEmptySeq
<1>1. ASSUME NEW b \in Byte, PeerSend(b)
      PROVE  sent' = Append(sent, b) /\ consumed' = consumed
  BY <1>1 DEF PeerSend
<1>2. ASSUME PeerClose \/ StartLine \/ (\E n \in VectorSizes : StartVector(n))
               \/ Eof \/ TimeOut \/ UNCHANGED vars
      PROVE  sent' = sent /\ consumed' = consumed
  BY <1>2 DEF PeerClose, StartLine, StartVector, Eof, TimeOut, CutShort, vars
<1>3. ASSUME StartAll
      PROVE  sent' = sent /\ \E x \in Seq(Byte) : consumed' = consumed \o x
  BY <1>3, <1>t DEF StartAll
<1>4. ASSUME NEW k \in 1..Len(wire), Receive(k)
      PROVE  sent' = sent /\ \E x \in Seq(Byte) : consumed' = consumed \o x
  <2>1. k \in 0..Len(wire)
    BY <1>t
  <2>2. Take(wire, k) \in Seq(Byte)
    BY <1>t, <2>1, Cut
  <2>3. sent' = sent /\ (consumed' = consumed \o Take(wire, k) \/ consumed' = consumed)
    BY <1>4 DEF Receive
  <2>4. QED
    BY <1>s, <2>2, <2>3
<1>5. ASSUME NEW k \in 0..Len(buffer), Consume(k)
      PROVE  sent' = sent /\ \E x \in Seq(Byte) : consumed' = consumed \o x
  <2>1. Take(buffer, k) \in Seq(Byte)
    BY <1>t, Cut
  <2>2. QED
    BY <1>5, <2>1 DEF Consume
<1>6. ASSUME NEW i \in LineEnds(buffer), FinishLine(i)
      PROVE  sent' = sent /\ \E x \in Seq(Byte) : consumed' = consumed \o x
  <2>1. i + 1 \in 0..Len(buffer)
    BY <1>t DEF LineEnds
  <2>2. QED
    BY <1>5, <1>6, <2>1 DEF FinishLine
<1>7. ASSUME FinishVector
      PROVE  sent' = sent /\ \E x \in Seq(Byte) : consumed' = consumed \o x
  <2>1. op.n \in 0..Len(buffer)
    BY <1>7, <1>t DEF FinishVector, IInv, Loops
  <2>2. QED
    BY <1>5, <1>7, <2>1 DEF FinishVector
<1>8. ASSUME FinishSocks
      PROVE  sent' = sent /\ \E x \in Seq(Byte) : consumed' = consumed \o x
  <2>1. ReplyLength \in 0..Len(buffer)
    BY <1>8, <1>t, ConnectionAssumption DEF FinishSocks, IInv, Loops
  <2>2. QED
    BY <1>5, <1>8, <2>1 DEF FinishSocks
<1>9. QED
  <2>1. sent' = sent /\ consumed' = consumed => \E x \in Seq(Byte) : consumed' = consumed \o x
    BY <1>s
  <2>2. QED
    BY <2>1, <1>1, <1>2, <1>3, <1>4, <1>6, <1>7, <1>8
       DEF Next, Peer, Application, Reading

\* A step of the connection is a step of the abstract stream or leaves it alone.
LEMMA StepRefines == IInv /\ IInv' /\ [Next]_vars => [Stream!Next]_(Stream!vars)
<1> SUFFICES ASSUME IInv, IInv', [Next]_vars PROVE [Stream!Next]_(Stream!vars)
  OBVIOUS
<1>1. CASE \E b \in Byte : sent' = Append(sent, b) /\ consumed' = consumed
  BY <1>1 DEF Stream!Next, Stream!Send
<1>2. CASE sent' = sent /\ \E x \in Seq(Byte) : consumed' = consumed \o x
  <2>1. PICK x \in Seq(Byte) : consumed' = consumed \o x
    BY <1>2
  <2>2. /\ consumed \in Seq(Byte) /\ consumed' \in Seq(Byte)
        /\ buffer' \in Seq(Byte) /\ wire' \in Seq(Byte)
        /\ (consumed' \o buffer') \o wire' = sent'
    BY DEF IInv, TypeOK, NothingLost
  <2>3. Len(consumed') <= Len(sent') /\ consumed' = SubSeq(sent', 1, Len(consumed'))
    BY <2>2, Prefix
  <2>4. Len(consumed') = Len(consumed) + Len(x)
    BY <2>1, <2>2, Concat
  <2>5. /\ Len(x) \in Nat /\ Len(consumed) \in Nat /\ Len(sent') \in Nat
        /\ (Len(x) = 0 => x = <<>>)
    BY <2>2, LenProperties, EmptySeq DEF IInv, TypeOK
  <2>6. CASE x = <<>>
    BY <1>2, <2>1, <2>2, <2>6, ConcatEmptySeq DEF Stream!vars
  <2>7. CASE x # <<>>
    <3>1. Len(consumed') \in (Len(consumed) + 1)..Len(sent)
      BY <1>2, <2>3, <2>4, <2>5, <2>7
    <3>2. Stream!Receive(Len(consumed'))
      BY <1>2, <2>3 DEF Stream!Receive
    <3>3. QED
      BY <3>1, <3>2 DEF Stream!Next
  <2>8. QED
    BY <2>6, <2>7
<1>3. QED
  BY <1>1, <1>2, StreamStep

\* The reads of a connection implement the abstract byte stream: whatever the
\* sizes of the partial reads and of the vectors, and whatever fails, the
\* application is handed ever longer prefixes of what the other end wrote.
THEOREM RefinesFifoStream == Spec => ImplementsFifoStream
<1>1. Init => Stream!Init
  BY DEF Init, Stream!Init
<1>2. QED
  BY <1>1, InitIInv, StepIInv, StepRefines, PTL DEF Spec, ImplementsFifoStream, Stream!Spec

\* The first k bytes hold a line's end where the whole does.
LEMMA FirstLineEnd ==
  ASSUME NEW s \in Seq(Byte), NEW i \in LineEnds(s), \A j \in LineEnds(s) : i <= j
  PROVE  i + 1 \in 1..Len(s) /\ LineEnds(Take(s, i + 1)) = {i}
<1>1. Len(s) \in Nat /\ i \in 1..(Len(s) - 1) /\ s[i] = CR /\ s[i + 1] = LF
  BY LenProperties DEF LineEnds
<1>2. /\ Len(Take(s, i + 1)) = i + 1
      /\ \A j \in 1..(i + 1) : Take(s, i + 1)[j] = s[j]
  <2>1. i + 1 \in 0..Len(s) /\ \A j \in 1..(i + 1) : s[j] \in Byte
    BY <1>1, ElementOfSeq
  <2>2. QED
    BY <2>1, SubSeqProperties DEF Take
<1>3. ASSUME NEW j \in 1..i PROVE j \in LineEnds(Take(s, i + 1)) <=> j = i
  <2>1. Take(s, i + 1)[j] = s[j] /\ Take(s, i + 1)[j + 1] = s[j + 1]
    BY <1>1, <1>2
  <2>2. j \in LineEnds(Take(s, i + 1)) <=> s[j] = CR /\ s[j + 1] = LF
    BY <1>1, <1>2, <2>1 DEF LineEnds
  <2>3. j \in LineEnds(s) <=> s[j] = CR /\ s[j + 1] = LF
    BY <1>1 DEF LineEnds
  <2>4. QED
    BY <1>1, <2>2, <2>3
<1>4. LineEnds(Take(s, i + 1)) \subseteq 1..i
  BY <1>1, <1>2 DEF LineEnds
<1>5. QED
  BY <1>1, <1>3, <1>4

\* A read that fails leaves what it has not asked for to the next one, and takes
\* no more than the line that it refuses.
THEOREM FailuresTakeALineAtMost == Spec => FailureTakesALineAtMost
<1> DEFINE Kept ==
             result' # result /\ result'.status \in Failures /\ result'.kind # "socks" =>
               \/ result'.status # "not_utf8" /\ UNCHANGED <<buffer, consumed>>
               \/ \E k \in 1..Len(buffer) :
                    /\ consumed' = consumed \o Take(buffer, k) /\ buffer' = Drop(buffer, k)
                    /\ LineEnds(Take(buffer, k)) = {k - 1}
                    /\ ~Utf8(Take(buffer, k - 2))
<1>1. IInv /\ [Next]_vars => [Kept]_vars
  <2> SUFFICES ASSUME IInv, [Next]_vars, result' # result,
                      result'.status \in Failures, result'.kind # "socks"
               PROVE  Kept
    OBVIOUS
  <2>1. CASE Peer \/ UNCHANGED vars
    BY <2>1 DEF Peer, PeerSend, PeerClose, vars
  <2>2. CASE Application
    <3>1. result' = NoResult
      BY <2>2 DEF Application, StartLine, StartVector, StartAll
    <3>2. QED
      BY <3>1 DEF NoResult, Failures
  <2>3. CASE Reading
    <3>1. ASSUME NEW k \in 1..Len(wire), Receive(k) PROVE FALSE
      BY <3>1 DEF Receive
    <3>2. ASSUME Eof \/ TimeOut PROVE Kept
      <4>1. /\ UNCHANGED <<buffer, consumed>>
            /\ result'.status \in {"ok", "unexpected_eof", "socket_error"}
        BY <3>2 DEF Eof, TimeOut, CutShort, Ends
      <4>2. result'.status # "not_utf8"
        BY <4>1
      <4>3. QED
        BY <4>1, <4>2
    <3>3. ASSUME NEW i \in LineEnds(buffer), FinishLine(i) PROVE Kept
      <4>1. buffer \in Seq(Byte) /\ \A j \in LineEnds(buffer) : i <= j
        BY <3>3 DEF IInv, TypeOK, FinishLine
      <4>2. i + 1 \in 1..Len(buffer) /\ LineEnds(Take(buffer, i + 1)) = {i}
        BY <4>1, FirstLineEnd
      <4>3. i \in Nat /\ (i + 1) - 1 = i /\ (i + 1) - 2 = i - 1
        BY <4>1, LenProperties DEF LineEnds
      <4>4. ~Utf8(Take(buffer, i - 1))
        BY <3>3 DEF FinishLine, Ends, Failures
      <4>5. consumed' = consumed \o Take(buffer, i + 1) /\ buffer' = Drop(buffer, i + 1)
        BY <3>3 DEF FinishLine, Consume
      <4>6. LineEnds(Take(buffer, i + 1)) = {(i + 1) - 1} /\ ~Utf8(Take(buffer, (i + 1) - 2))
        BY <4>2, <4>3, <4>4
      <4>7. QED
        BY <4>2, <4>5, <4>6
    <3>4. CASE FinishVector
      BY <3>4 DEF FinishVector, Ends, Failures
    <3>5. CASE FinishSocks
      BY <3>5 DEF FinishSocks, Ends
    <3>6. QED
      BY <2>3, <3>1, <3>2, <3>3, <3>4, <3>5 DEF Reading
  <2>4. QED
    BY <2>1, <2>2, <2>3 DEF Next
<1>2. QED
  BY <1>1, InitIInv, StepIInv, PTL DEF Spec, FailureTakesALineAtMost

-----------------------------------------------------------------------------
(***************************************************************************)
(* The operations' timers and handlers (module TimedIo), for any number of *)
(* endpoints, reads and operations: handlers do not outlive their          *)
(* operation, no operation is cancelled but by its own deadline, and only  *)
(* a read of several partial reads loses that.                             *)
(***************************************************************************)
Entries(q) == {q[i] : i \in DOMAIN q}

\* Where a handler is, its source is used up; and a socket operation that is
\* over has its handler in the queue until that runs.
Handlers ==
  /\ \A h \in Entries(queue) :
       /\ h.id = operation.id /\ operation.kind # "none"
       /\ h.what = "timer" => \/ timer = "expired"
                              \/ timer = "cancelled" /\ h.err = "aborted"
       /\ h.what = "io" /\ h.err = "aborted" => timer = "expired"
  /\ io = "queued" => \E h \in Entries(queue) : h.what = "io"
  /\ timer = "waiting" => timeoutResult = "none"
  /\ operation.kind = "none" => timer # "waiting" /\ io = "idle"
  /\ operation.kind = "connect" => operation.need = 1

TimedInv == TimedTypeOK /\ Handlers /\ NoSpuriousTimeout /\ OnlyCompositeReadsUnguarded

-----------------------------------------------------------------------------
(***************************************************************************)
(* What a queue holds when one is added, and when the first is taken.      *)
(***************************************************************************)

LEMMA EntriesOfAppend ==
  ASSUME NEW q \in Seq(Handler), NEW h \in Handler
  PROVE  Append(q, h) \in Seq(Handler) /\ Entries(Append(q, h)) = Entries(q) \cup {h}
<1>1. Append(q, h) \in Seq(Handler) /\ Len(Append(q, h)) = Len(q) + 1
  OBVIOUS
<1>2. \A i \in 1..(Len(q) + 1) : Append(q, h)[i] = IF i <= Len(q) THEN q[i] ELSE h
  OBVIOUS
<1>3. Entries(Append(q, h)) \subseteq Entries(q) \cup {h}
  BY <1>1, <1>2 DEF Entries
<1>4. Entries(q) \subseteq Entries(Append(q, h))
  BY <1>1, <1>2 DEF Entries
<1>5. h \in Entries(Append(q, h))
  <2>1. Len(q) + 1 \in DOMAIN Append(q, h) /\ Append(q, h)[Len(q) + 1] = h
    BY <1>1
  <2>2. QED
    BY <2>1 DEF Entries
<1>6. QED
  BY <1>1, <1>3, <1>4, <1>5

LEMMA EntriesOfTail ==
  ASSUME NEW q \in Seq(Handler), q # <<>>
  PROVE  /\ Head(q) \in Handler /\ Tail(q) \in Seq(Handler)
         /\ Entries(q) = {Head(q)} \cup Entries(Tail(q))
<1>1. /\ Head(q) \in Handler /\ Tail(q) \in Seq(Handler)
      /\ Len(q) \in Nat /\ Len(q) > 0 /\ Len(Tail(q)) = Len(q) - 1
      /\ DOMAIN q = 1..Len(q) /\ DOMAIN Tail(q) = 1..(Len(q) - 1)
  OBVIOUS
<1>2. \A i \in 1..(Len(q) - 1) : Tail(q)[i] = q[i + 1]
  OBVIOUS
<1>3. Entries(Tail(q)) \subseteq Entries(q)
  BY <1>1, <1>2 DEF Entries
<1>4. Head(q) \in Entries(q)
  <2>1. 1 \in DOMAIN q /\ q[1] = Head(q)
    BY <1>1
  <2>2. QED
    BY <2>1 DEF Entries
<1>5. ASSUME NEW i \in DOMAIN q PROVE q[i] \in {Head(q)} \cup Entries(Tail(q))
  <2>1. CASE i = 1
    BY <2>1
  <2>2. CASE i # 1
    <3>1. i - 1 \in DOMAIN Tail(q) /\ Tail(q)[i - 1] = q[i]
      BY <1>1, <1>2, <2>2
    <3>2. QED
      BY <3>1 DEF Entries
  <2>3. QED
    BY <2>1, <2>2
<1>6. QED
  BY <1>1, <1>3, <1>4, <1>5 DEF Entries

LEMMA NothingQueued == Entries(<<>>) = {}
BY DEF Entries

-----------------------------------------------------------------------------
\* Nothing has been started: the invariant holds.
LEMMA InitTimedInv ==
  ASSUME TimedInit
  PROVE  TimedInv
BY TimedIoAssumption, NothingQueued
   DEF TimedInit, TimedInv, TimedTypeOK, Handlers, NoSpuriousTimeout, OnlyCompositeReadsUnguarded,
       Unguarded, NoOperation, Errors

\* A new operation has its timer and finds the queue empty.
LEMMA BeginTimedInv ==
  ASSUME TimedInv, NEW kind \in {"connect", "read"}, NEW need \in Needs \cup {1},
         kind = "connect" => need = 1, Begin(kind, need)
  PROVE  Handlers' /\ NoSpuriousTimeout' /\ OnlyCompositeReadsUnguarded'
<1>1. Entries(queue) = {}
  BY DEF TimedInv, Handlers, Begin
<1>2. Handlers'
  BY <1>1 DEF Handlers, Begin
<1>3. QED
  BY <1>2 DEF NoSpuriousTimeout, OnlyCompositeReadsUnguarded, Unguarded, Begin

\* A handler that is appended to the queue.
LEMMA ReadyOK ==
  ASSUME TimedTypeOK, NEW what \in {"timer", "io"}, NEW err \in Errors \ {"none"}
  PROVE  Ready(what, err) \in Handler
BY DEF TimedTypeOK, Ready, Handler

LEMMA TimerExpiresTimedInv ==
  ASSUME TimedInv, TimerExpires
  PROVE  TimedInv'
<1>1. /\ Ready("timer", "ok") \in Handler
      /\ queue' \in Seq(Handler) /\ Entries(queue') = Entries(queue) \cup {Ready("timer", "ok")}
  BY ReadyOK, EntriesOfAppend DEF TimedInv, TimedTypeOK, TimerExpires, Errors
<1>2. TimedTypeOK'
  BY <1>1 DEF TimedInv, TimedTypeOK, TimerExpires
<1>3. Handlers'
  BY <1>1 DEF TimedInv, Handlers, TimerExpires, Ready
<1>4. QED
  BY <1>2, <1>3 DEF TimedInv, Handlers, TimerExpires, NoSpuriousTimeout,
     OnlyCompositeReadsUnguarded, Unguarded

LEMMA SocketEventTimedInv ==
  ASSUME TimedInv, NEW err \in {"ok", "eof", "refused"}, SocketEvent(err)
  PROVE  TimedInv'
<1>1. /\ Ready("io", err) \in Handler
      /\ queue' \in Seq(Handler) /\ Entries(queue') = Entries(queue) \cup {Ready("io", err)}
  BY ReadyOK, EntriesOfAppend DEF TimedInv, TimedTypeOK, SocketEvent, Errors
<1>2. TimedTypeOK'
  BY <1>1 DEF TimedInv, TimedTypeOK, SocketEvent
<1>3. Handlers'
  BY <1>1 DEF TimedInv, Handlers, SocketEvent, Ready
<1>4. QED
  BY <1>2, <1>3
  DEF TimedInv, SocketEvent, NoSpuriousTimeout, OnlyCompositeReadsUnguarded, Unguarded

-----------------------------------------------------------------------------
(***************************************************************************)
(* The handlers.                                                           *)
(***************************************************************************)

\* The timer's handler cancels the socket operation that is registered; one that
\* is not keeps its handler in the queue.
LEMMA TimedOutTimedInv ==
  ASSUME TimedInv, queue # <<>>, TimedOut(Head(queue)),
         UNCHANGED <<phase, left, connectError, operation, outcome, peer>>
  PROVE  TimedInv'
<1> DEFINE h == Head(queue)
           aborted == Ready("io", "aborted")
<1>1. /\ h \in Handler /\ Tail(queue) \in Seq(Handler)
      /\ Entries(queue) = {h} \cup Entries(Tail(queue))
  BY EntriesOfTail DEF TimedInv, TimedTypeOK
<1>2. aborted \in Handler
  BY ReadyOK DEF TimedInv, Errors
<1>3. /\ h.what = "timer" /\ timer # "waiting" /\ operation.kind # "none"
      /\ h.err \in Errors
  BY <1>1 DEF TimedInv, Handlers, TimedOut, Handler
<1>4. CASE h.err # "aborted" /\ io = "waiting"
  <2>1. /\ io' = "queued" /\ timeoutResult' = h.err
        /\ queue' = Append(Tail(queue), aborted)
        /\ UNCHANGED <<timer, readResult, got, operation>>
    BY <1>4 DEF TimedOut
  <2>2. queue' \in Seq(Handler) /\ Entries(queue') = Entries(Tail(queue)) \cup {aborted}
    BY <1>1, <1>2, <2>1, EntriesOfAppend
  <2>3. TimedTypeOK'
    BY <1>3, <2>1, <2>2 DEF TimedInv, TimedTypeOK
  <2>4. timer = "expired"
    BY <1>1, <1>3, <1>4 DEF TimedInv, Handlers
  <2>5. Handlers'
    BY <1>1, <1>3, <2>1, <2>2, <2>4 DEF TimedInv, Handlers, Ready
  <2>6. QED
    BY <2>1, <2>3, <2>5
    DEF TimedInv, NoSpuriousTimeout, OnlyCompositeReadsUnguarded, Unguarded
<1>5. CASE ~(h.err # "aborted" /\ io = "waiting")
  <2>1. /\ timeoutResult' = h.err /\ queue' = Tail(queue)
        /\ UNCHANGED <<io, timer, readResult, got, operation>>
    BY <1>5 DEF TimedOut
  <2>2. queue' \in Seq(Handler) /\ Entries(queue') = Entries(Tail(queue))
    BY <1>1, <2>1
  <2>3. TimedTypeOK'
    BY <1>3, <2>1, <2>2 DEF TimedInv, TimedTypeOK
  <2>4. Handlers'
    BY <1>1, <1>3, <2>1, <2>2 DEF TimedInv, Handlers
  <2>5. QED
    BY <1>5, <2>1, <2>3, <2>4
    DEF TimedInv, NoSpuriousTimeout, OnlyCompositeReadsUnguarded, Unguarded
<1>6. QED
  BY <1>4, <1>5

\* A composite read goes on with a partial read, which may be unguarded.
LEMMA ReadSomeTimedInv ==
  ASSUME TimedInv, queue # <<>>, ReadSome(Head(queue)),
         UNCHANGED <<phase, left, connectError, operation, outcome, peer>>
  PROVE  TimedInv'
<1> DEFINE h == Head(queue)
<1>1. /\ h \in Handler /\ Tail(queue) \in Seq(Handler)
      /\ Entries(queue) = {h} \cup Entries(Tail(queue))
  BY EntriesOfTail DEF TimedInv, TimedTypeOK
<1>2. /\ io' = "waiting" /\ got' = got + 1 /\ got + 1 < operation.need /\ queue' = Tail(queue)
      /\ UNCHANGED <<operation, timer, timeoutResult, readResult>>
  BY DEF ReadSome
<1>3. TimedTypeOK'
  BY <1>1, <1>2 DEF TimedInv, TimedTypeOK
<1>4. got \in Nat /\ operation.need \in Nat /\ operation.kind \in {"none", "connect",
   "read"} /\ operation.kind # "none"
  <2>1. operation.need \in Needs \cup {1} /\ operation.kind \in {"none", "connect",
     "read"} /\ got \in Nat
    BY DEF TimedInv, TimedTypeOK
  <2>2. operation.kind # "none"
    BY <1>1 DEF TimedInv, Handlers
  <2>3. Needs \cup {1} \subseteq Nat
    BY TimedIoAssumption
  <2>4. QED
    BY <2>1, <2>2, <2>3
<1>5. operation.kind = "read"
  BY <1>2, <1>4 DEF TimedInv, Handlers
<1>6. Handlers'
  BY <1>1, <1>2, <1>5 DEF TimedInv, Handlers
<1>7. OnlyCompositeReadsUnguarded'
  BY <1>2, <1>4, <1>5 DEF OnlyCompositeReadsUnguarded
<1>8. QED
  BY <1>2, <1>3, <1>6, <1>7 DEF TimedInv, NoSpuriousTimeout

\* The result is kept, and the timer cancelled if it is still waiting.
LEMMA ReadDoneTimedInv ==
  ASSUME TimedInv, queue # <<>>, ReadDone(Head(queue)),
         UNCHANGED <<phase, left, connectError, operation, outcome, peer>>
  PROVE  TimedInv'
<1> DEFINE h == Head(queue)
           aborted == Ready("timer", "aborted")
<1>1. /\ h \in Handler /\ Tail(queue) \in Seq(Handler)
      /\ Entries(queue) = {h} \cup Entries(Tail(queue))
  BY EntriesOfTail DEF TimedInv, TimedTypeOK
<1>2. aborted \in Handler
  BY ReadyOK DEF TimedInv, Errors
<1>3. /\ h.what = "io" /\ io' = "idle" /\ readResult' = h.err /\ h.err \in Errors
      /\ operation.kind # "none" /\ got' \in Nat
      /\ h.err = "aborted" => timer = "expired"
      /\ UNCHANGED <<operation, timeoutResult>>
  BY <1>1 DEF TimedInv, TimedTypeOK, Handlers, ReadDone, Handler
<1>4. CASE timer = "waiting"
  <2>1. timer' = "cancelled" /\ queue' = Append(Tail(queue), aborted)
    BY <1>4 DEF ReadDone
  <2>2. queue' \in Seq(Handler) /\ Entries(queue') = Entries(Tail(queue)) \cup {aborted}
    BY <1>1, <1>2, <2>1, EntriesOfAppend
  <2>3. TimedTypeOK'
    BY <1>3, <2>1, <2>2 DEF TimedInv, TimedTypeOK
  <2>4. Handlers'
    BY <1>1, <1>3, <1>4, <2>1, <2>2 DEF TimedInv, Handlers, Ready
  <2>5. QED
    BY <1>3, <1>4, <2>1, <2>3, <2>4
    DEF TimedInv, NoSpuriousTimeout, OnlyCompositeReadsUnguarded, Unguarded
<1>5. CASE timer # "waiting"
  <2>1. timer' = timer /\ queue' = Tail(queue)
    BY <1>5 DEF ReadDone
  <2>2. TimedTypeOK'
    BY <1>1, <1>3, <2>1 DEF TimedInv, TimedTypeOK
  <2>3. Handlers'
    BY <1>1, <1>3, <1>5, <2>1 DEF TimedInv, Handlers
  <2>4. QED
    BY <1>3, <2>1, <2>2, <2>3
    DEF TimedInv, NoSpuriousTimeout, OnlyCompositeReadsUnguarded, Unguarded
<1>6. QED
  BY <1>4, <1>5

-----------------------------------------------------------------------------
\* An operation is over when its io_context is out of work: nothing is queued.
LEMMA CompleteTimedInv ==
  ASSUME TimedInv, Complete
  PROVE  TimedInv'
<1>1. /\ queue = <<>> /\ timer # "waiting" /\ io = "idle"
      /\ operation' = NoOperation(operation.id) /\ UNCHANGED <<phase, left, wrapper, peer>>
  BY NothingQueued DEF TimedInv, TimedTypeOK, Handlers, Complete, OutOfWork
<1>2. TimedTypeOK'
  <2>1. operation' \in [kind : {"none", "connect", "read"}, need : Needs \cup {1}, id : 0..MaxOps]
    BY <1>1 DEF TimedInv, TimedTypeOK, NoOperation
  <2>2. /\ connectError' \in Errors \cup {"host_not_found"}
        /\ outcome' \in {"none", "ok", "unexpected_eof", "socket_error"}
    BY DEF TimedInv, TimedTypeOK, Complete, HandleError
  <2>3. QED
    BY <1>1, <2>1, <2>2 DEF TimedInv, TimedTypeOK, wrapper
<1>3. Handlers'
  BY <1>1, NothingQueued DEF TimedInv, Handlers, NoOperation, wrapper
<1>4. QED
  BY <1>1, <1>2, <1>3
  DEF TimedInv, NoSpuriousTimeout, OnlyCompositeReadsUnguarded, Unguarded, wrapper

\* Every step keeps the invariant.
LEMMA NextTimedInv ==
  ASSUME TimedInv, [TimedNext]_timedVars
  PROVE  TimedInv'
<1>1. CASE Resolve
  BY <1>1 DEF TimedInv, TimedTypeOK, Handlers, NoSpuriousTimeout, OnlyCompositeReadsUnguarded,
     Unguarded,
     Resolve, wrapper
<1>2. CASE ConnectNext
  <2>1. Begin("connect", 1)
    BY <1>2 DEF ConnectNext
  <2>2. TimedTypeOK'
    BY <1>2, <2>1, TimedIoAssumption DEF TimedInv, TimedTypeOK, ConnectNext, Begin, Errors
  <2>3. QED
    BY <2>1, <2>2, BeginTimedInv DEF TimedInv
<1>3. CASE ConnectDone
  BY <1>3 DEF TimedInv, TimedTypeOK, Handlers, NoSpuriousTimeout, OnlyCompositeReadsUnguarded,
     Unguarded,
     ConnectDone, wrapper
<1>4. CASE Complete
  BY <1>4, CompleteTimedInv
<1>5. ASSUME NEW need \in Needs, StartRead(need) PROVE TimedInv'
  <2>1. Begin("read", need)
    BY <1>5 DEF StartRead
  <2>2. TimedTypeOK'
    BY <1>5, <2>1, TimedIoAssumption DEF TimedInv, TimedTypeOK, StartRead, Begin, Errors
  <2>3. QED
    BY <2>1, <2>2, BeginTimedInv DEF TimedInv
<1>6. CASE TimerExpires
  BY <1>6, TimerExpiresTimedInv
<1>7. CASE Reactor
  BY <1>7, SocketEventTimedInv DEF Reactor, DataArrives, EofArrives, Connected, Refused
<1>8. CASE PeerCloses
  BY <1>8 DEF TimedInv, TimedTypeOK, Handlers, NoSpuriousTimeout, OnlyCompositeReadsUnguarded,
     Unguarded,
     PeerCloses, wrapper
<1>9. CASE RunHandler
  BY <1>9, TimedOutTimedInv, ReadSomeTimedInv, ReadDoneTimedInv DEF RunHandler
<1>10. CASE UNCHANGED timedVars
  BY <1>10 DEF TimedInv, TimedTypeOK, Handlers, NoSpuriousTimeout, OnlyCompositeReadsUnguarded,
     Unguarded,
     timedVars, wrapper
<1>11. QED
  BY <1>1, <1>2, <1>3, <1>4, <1>5, <1>6, <1>7, <1>8, <1>9, <1>10 DEF TimedNext, Thread

LEMMA AlwaysTimedInv ==
  TimedSpec => []TimedInv
<1>1. TimedInit => TimedInv
  BY InitTimedInv
<1>2. TimedInv /\ [TimedNext]_timedVars => TimedInv'
  BY NextTimedInv
<1>3. QED
  BY <1>1, <1>2, PTL DEF TimedSpec

-----------------------------------------------------------------------------
\* Every variable keeps its type: the connect loop never goes past the last
\* endpoint of the resolver, and queues hold handlers.
THEOREM TimedTypeCorrect ==
  TimedSpec => []TimedTypeOK
<1>1. TimedInv => TimedTypeOK
  BY DEF TimedInv
<1>2. QED
  BY <1>1, AlwaysTimedInv, PTL

\* However reads, time outs and connects follow one another, a handler runs only
\* within the operation whose timeout_wrapper it refers to.
THEOREM HandlersEnd ==
  TimedSpec => []NoStaleHandler
<1>1. TimedInv => NoStaleHandler
  BY DEF TimedInv, Handlers, Entries, NoStaleHandler
<1>2. QED
  BY <1>1, AlwaysTimedInv, PTL

\* An operation that ends as aborted has passed its own deadline.
THEOREM AbortedByDeadline ==
  TimedSpec => []NoSpuriousTimeout
<1>1. TimedInv => NoSpuriousTimeout
  BY DEF TimedInv
<1>2. QED
  BY <1>1, AlwaysTimedInv, PTL

\* A socket operation without a deadline is a later partial read of a read that
\* needs several: never a connect, and never a first partial read.
THEOREM DeadlineLostByCompositeRead ==
  TimedSpec => []OnlyCompositeReadsUnguarded
<1>1. TimedInv => OnlyCompositeReadsUnguarded
  BY DEF TimedInv
<1>2. QED
  BY <1>1, AlwaysTimedInv, PTL
=============================================================================
